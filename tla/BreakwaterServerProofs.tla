----------------------- MODULE BreakwaterServerProofs -----------------------
(***************************************************************************)
(* Proofs about BreakwaterServer for every number of clients, calls and    *)
(* updaters and every setting of the parameters.                           *)
(***************************************************************************)
EXTENDS BreakwaterServer, FiniteSetTheorems, TLAPS

\* The steps between RegisterClient and the handler, and those that use a Connection.
Holding == {"lock", "reload", "take", "overcommit", "decide", "higher", "put", "add",
            "unlock", "stamp"}
Working == Holding \union {"lookup", "register", "count"}
Past    == Holding \union {"count", "handle"}

\* The steps between receiving lastUpdated and sending it back.
Stamping(r) == pc[r] \in {"overcommit", "decide", "higher", "put", "add", "unlock", "stamp"}

\* What the program counter of a call says about its locals.
Placed ==
  \A r \in Requests :
    /\ pc[r] = "idle" => cl[r] = NoClient
    /\ pc[r] \in Working => cl[r] \in Clients
    /\ pc[r] \in Past /\ cl[r] # NoClient => Registered(cl[r])
    /\ pc[r] \in Holding => held[r] # NoConn

\* The protocol of the clients: an unanswered client has one call here, an answered one is
\* registered.
Protocol ==
  /\ \A c \in known : Registered(c)
  /\ \A r, q \in Requests : cl[r] = cl[q] /\ cl[r] # NoClient /\ cl[r] \notin known => r = q

\* Who works on a Connection works on the one stored for its client, and nobody registers a
\* client twice.
Stored ==
  \A r \in Requests :
    /\ pc[r] = "register" => ~Registered(cl[r])
    /\ pc[r] \in Holding => held[r] = connOf[cl[r]]

\* The tokens of a Connection's two channels are with at most one call, and out of the channel
\* while they are.
Owned ==
  /\ \A r \in Requests : InCritical(r) => conn(r) \notin lockIn
  /\ \A r \in Requests : Stamping(r) => conn(r) \notin stampIn
  /\ \A r, q \in Requests : Stamping(r) /\ Stamping(q) /\ cl[r] = cl[q] => r = q

TypeInv == TypeOK /\ Placed
LockInv == Protocol /\ Stored /\ Owned /\ ConnMutex /\ IssueIsCurrent
-----------------------------------------------------------------------------
(* The arithmetic stays in the integers, and the total above zero.         *)

LEMMA RoundDivInt == ASSUME NEW a \in Int, NEW b \in Nat \ {0} PROVE RoundDiv(a, b) \in Int
BY DEF RoundDiv

LEMMA UpdatedTotalType ==
  ASSUME TypeOK, NEW d \in Nat PROVE UpdatedTotal(d) \in Nat \ {0}
<1>1. APercent \in Nat /\ BPercent \in Nat /\ cTotal \in Nat \ {0} /\ numClients \in Nat
  BY ServerAssumption DEF TypeOK, ServerAssumption
<1>2. AdditiveFactor(numClients) \in Int /\ AdditiveFactor(numClients) >= 1
  <2>1. APercent * numClients \in Int
    BY <1>1
  <2>2. RoundDiv(APercent * numClients, 100) \in Int
    BY <2>1, RoundDivInt
  <2> QED
    BY <2>2 DEF AdditiveFactor, Max2
<1>3. MultiplicativePercent(d) \in Int
  <2>1. 100 - BPercent * (d - 1) \in Int
    BY <1>1
  <2> QED
    BY <2>1 DEF MultiplicativePercent, Max2
<1>4. MultiplicativePercent(d) * cTotal \in Int
  BY <1>1, <1>3
<1>5. RoundDiv(MultiplicativePercent(d) * cTotal, 100) \in Int
  BY <1>4, RoundDivInt
<1> QED
  BY <1>1, <1>2, <1>5 DEF UpdatedTotal, Max2

LEMMA OvercommitType == ASSUME TypeOK PROVE CreditsToOvercommit \in Int
<1>1. numClients \in Nat /\ cTotal - cIssued \in Int
  BY DEF TypeOK
<1>2. numClients # 0 => RoundDiv(cTotal - cIssued, numClients) \in Int
  BY <1>1, RoundDivInt
<1> QED
  BY <1>1, <1>2 DEF CreditsToOvercommit, IntMin

LEMMA LowerType ==
  ASSUME NEW o \in Int, NEW d \in Int, NEW p \in Int PROVE LowerCredits(o, d, p) \in Int
BY DEF LowerCredits, Max2, Min2

LEMMA HigherType ==
  ASSUME TypeOK, NEW o \in Int, NEW d \in Int, NEW p \in Int
  PROVE  HigherCredits(o, d, p) \in Int
<1>1. p + (cTotal - cIssued) \in Int
  BY DEF TypeOK
<1> QED
  BY <1>1 DEF HigherCredits, Max2, Min2
-----------------------------------------------------------------------------
(* Types.                                                                  *)

LEMMA TypeInit == Init => TypeInv
<1> SUFFICES ASSUME Init PROVE TypeInv
  OBVIOUS
<1>1. /\ NoConn \notin Requests /\ InitialCredits \in Nat \ {0}
      /\ 0 \in Latencies \union {0} /\ 0 \in 0..MaxTicks
  BY ServerAssumption DEF ServerAssumption
<1>2. upc \in [Updaters -> UpdPCs]
  BY DEF Init, UpdPCs
<1>3. toVisit \in [Updaters -> SUBSET Clients] /\ pc \in [Requests -> ReqPCs]
  BY DEF Init, ReqPCs
<1>4. /\ connOf \in [Clients -> Requests \union {NoConn}] /\ issued \in [Clients -> Int]
      /\ held \in [Requests -> Requests \union {NoConn}] /\ dem \in [Requests -> Nat]
      /\ prev \in [Requests -> Int] /\ oc \in [Requests -> Int] /\ new \in [Requests -> Int]
      /\ cl \in [Requests -> Clients \union {NoClient}] /\ total \in [Updaters -> Int]
  BY DEF Init
<1>5. cTotal \in Nat \ {0} /\ primed \in BOOLEAN
  <2>1. APercent * 0 \in Int
    BY ServerAssumption DEF ServerAssumption
  <2>2. RoundDiv(APercent * 0, 100) \in Int
    BY <2>1, RoundDivInt
  <2>3. AdditiveFactor(0) \in Nat
    BY <2>2 DEF AdditiveFactor, Max2
  <2>4. Warm \in BOOLEAN
    BY ServerAssumption DEF ServerAssumption
  <2> QED
    BY <1>1, <2>3, <2>4 DEF Init
<1>6. TypeOK
  BY <1>1, <1>2, <1>3, <1>4, <1>5 DEF Init, TypeOK
<1>7. Placed
  BY DEF Init, Placed, Working, Past, Holding
<1> QED
  BY <1>6, <1>7 DEF TypeInv

\* The steps of a call keep the types.
LEMMA TypeServe ==
  ASSUME TypeInv, NEW r \in Requests, Serve(r) PROVE TypeInv'
<1> USE DEF TypeInv, Goto, UGoto, TypeOK, Placed, Holding, Working, Past, ReqPCs, Registered,
            conn, Conns, connVars, poolVars, timeVars, reqLocal, updVars
<1>0. NoConn \notin Requests /\ NoClient \notin Clients
  BY ServerAssumption DEF ServerAssumption
<1>1. CASE Shed(r)
  BY <1>1 DEF Shed, Forget
<1>2. CASE Pass(r)
  BY <1>2 DEF Pass
<1>3. CASE Lookup(r)
  BY <1>3 DEF Lookup
<1>4. CASE Register(r)
  <2>1. cl[r] \in Clients /\ <<cl[r], r>> \in Clients \X Requests
    BY <1>4 DEF Register
  <2>2. TypeOK'
    BY <1>4, <2>1 DEF Register
  <2>3. Placed'
    BY <1>4, <1>0, <2>1 DEF Register
  <2> QED
    BY <2>2, <2>3
<1>5. CASE CountClient(r)
  <2>1. cl[r] \in Clients /\ connOf[cl[r]] \in Requests
    BY <1>5, <1>0 DEF CountClient
  <2>2. TypeOK'
    BY <1>5, <2>1 DEF CountClient
  <2>3. Placed'
    BY <1>5, <1>0, <2>1 DEF CountClient
  <2> QED
    BY <2>2, <2>3
<1>6. CASE Lock(r)
  BY <1>6 DEF Lock
<1>7. CASE Reload(r)
  <2>1. cl[r] \in Clients /\ connOf[cl[r]] \in Requests
    BY <1>7, <1>0 DEF Reload
  <2>2. TypeOK'
    BY <1>7, <2>1 DEF Reload
  <2>3. Placed'
    BY <1>7, <1>0, <2>1 DEF Reload
  <2> QED
    BY <2>2, <2>3
<1>8. CASE DecideHigher(r)
  BY <1>8 DEF DecideHigher
<1>9. CASE PutIssued(r)
  BY <1>9 DEF PutIssued
<1>10. CASE AddIssued(r)
  BY <1>10 DEF AddIssued
<1>11. CASE Unlock(r)
  BY <1>11 DEF Unlock
<1>12. CASE Stamp(r)
  BY <1>12 DEF Stamp
<1>13. CASE TakeStamp(r)
  <2>1. Max2(prev[r] - 1, 1) \in Int
    BY DEF Max2
  <2> QED
    BY <1>13, <2>1 DEF TakeStamp
<1>14. CASE Overcommit(r)
  <2>1. CreditsToOvercommit \in Int
    BY OvercommitType
  <2> QED
    BY <1>14, <2>1 DEF Overcommit
<1>15. CASE DecideLower(r)
  <2>1. LowerCredits(oc[r], dem[r], prev[r]) \in Int
    BY LowerType
  <2> QED
    BY <1>15, <2>1 DEF DecideLower
<1>16. CASE Higher(r)
  <2>1. HigherCredits(oc[r], dem[r], prev[r]) \in Int
    BY HigherType
  <2> QED
    BY <1>16, <2>1 DEF Higher
<1>17. ASSUME NEW u \in Updaters, Handle(r, u) PROVE TypeInv'
  BY <1>17 DEF Handle, Forget, UpdPCs
<1> QED
  BY <1>1, <1>2, <1>3, <1>4, <1>5, <1>6, <1>7, <1>8, <1>9, <1>10, <1>11, <1>12, <1>13, <1>14, <1>15, <1>16, <1>17
     DEF Serve, Credit

\* The steps of an updater keep the types.
LEMMA TypeUpdate ==
  ASSUME TypeInv, NEW u \in Updaters, Update(u) PROVE TypeInv'
<1> USE DEF TypeInv, Goto, UGoto, TypeOK, UpdPCs, connVars, poolVars, timeVars, reqLocal,
            updVars
<1>0. GetDelay \in Latencies \union {0} /\ GetDelay \in Nat
  BY ServerAssumption DEF ServerAssumption, GetDelay
<1>1. Placed' <=> Placed
  BY DEF Update, CheckTime, TryRttLock, ReportDelay, BeginUpdate, RangeVisit, SetIssued,
         UpdateTotal, Placed, Registered
<1>2. CASE CheckTime(u)
  BY <1>1, <1>2 DEF CheckTime
<1>3. CASE TryRttLock(u)
  BY <1>1, <1>3 DEF TryRttLock
<1>4. CASE ReportDelay(u)
  BY <1>0, <1>1, <1>4 DEF ReportDelay
<1>5. CASE BeginUpdate(u)
  <2>1. toVisit' \in [Updaters -> SUBSET Clients]
    BY <1>5 DEF BeginUpdate
  <2>2. upc' \in [Updaters -> UpdPCs] /\ total' \in [Updaters -> Int]
    BY <1>5 DEF BeginUpdate
  <2>3. fresh' \subseteq Conns /\ elapsed' \in BOOLEAN
    BY <1>5 DEF BeginUpdate
  <2>4. UNCHANGED <<known, connOf, issued, lockIn, stampIn, poolVars, queueingDelay, recent,
                    primed, ticks, pc, reqLocal, rttLock>>
    BY <1>5 DEF BeginUpdate
  <2>5. TypeOK'
    BY <2>1, <2>2, <2>3, <2>4
  <2> QED
    BY <1>1, <2>5
<1>6. ASSUME NEW c \in Clients, RangeVisit(u, c) PROVE TypeInv'
  BY <1>1, <1>6 DEF RangeVisit
<1>7. CASE SetIssued(u)
  BY <1>1, <1>7 DEF SetIssued
<1>8. CASE UpdateTotal(u)
  <2>1. UpdatedTotal(GetDelay) \in Nat \ {0}
    BY <1>0, UpdatedTotalType
  <2> QED
    BY <1>0, <1>1, <1>8, <2>1 DEF UpdateTotal
<1> QED
  BY <1>2, <1>3, <1>4, <1>5, <1>6, <1>7, <1>8 DEF Update

\* Time, latency and arriving calls keep the types.
LEMMA TypeEnvironment ==
  ASSUME TypeInv,
         \/ Elapse \/ (\E d \in Latencies : Latency(d)) \/ Load
         \/ (\E r \in Requests : ArriveBare(r)) \/ UNCHANGED vars
  PROVE  TypeInv'
<1> USE DEF TypeInv, Goto, TypeOK, Placed, Holding, Working, Past, ReqPCs, Registered,
            connVars, poolVars, timeVars, reqLocal, updVars
<1>0. Latencies \subseteq Nat \ {0} /\ MaxTicks \in Nat /\ Demands \subseteq Nat
  BY ServerAssumption DEF ServerAssumption
<1>1. CASE Elapse
  BY <1>0, <1>1 DEF Elapse
<1>2. ASSUME NEW d \in Latencies, Latency(d) PROVE TypeInv'
  BY <1>0, <1>2 DEF Latency
<1>3. ASSUME NEW r \in Requests, NEW c \in Clients, NEW d \in Demands, Arrive(r, c, d)
      PROVE  TypeInv'
  BY <1>0, <1>3 DEF Arrive, Admitted
<1>4. ASSUME NEW r \in Requests, ArriveBare(r) PROVE TypeInv'
  BY <1>4 DEF ArriveBare
<1>5. CASE UNCHANGED vars
  BY <1>5 DEF vars
<1> QED
  BY <1>1, <1>2, <1>3, <1>4, <1>5 DEF Load

LEMMA TypeStep == ASSUME TypeInv, [Next]_vars PROVE TypeInv'
BY TypeServe, TypeUpdate, TypeEnvironment DEF Next

LEMMA TypeInvariant == Spec => []TypeInv
<1>1. TypeInv /\ [Next]_vars => TypeInv'
  BY TypeStep
<1> QED
  BY <1>1, TypeInit, PTL DEF Spec

\* The shared counters and channels and the locals of every goroutine keep their types: the
\* total never falls below one, no matter how calls and updates interleave.
THEOREM ServerTypeCorrect == Spec => []TypeOK
BY TypeInvariant, PTL DEF TypeInv
-----------------------------------------------------------------------------
(* The locks of a Connection, when the clients are paced.                  *)

LEMMA LockInit == Init => LockInv
BY DEF Init, LockInv, Protocol, Stored, Owned, ConnMutex, IssueIsCurrent, InCritical, Stamping,
       Holding, Registered

\* A client that is not registered has not been answered, so its one call is the only one.
LEMMA Alone ==
  ASSUME Protocol, NEW r \in Requests, NEW q \in Requests, cl[r] = cl[q], cl[r] # NoClient,
         ~Registered(cl[r])
  PROVE  r = q
BY DEF Protocol

\* The steps of a call keep the client's protocol and the Connection it works on.
LEMMA ServeStored ==
  ASSUME TypeInv, LockInv, NEW r \in Requests, Serve(r)
  PROVE  Protocol' /\ Stored'
<1> USE DEF TypeInv, TypeOK, Placed, Protocol, Stored, LockInv, Goto, UGoto, Registered, Holding,
            Working, Past, connVars, poolVars, timeVars, reqLocal, updVars
<1>0. NoConn \notin Requests /\ NoClient \notin Clients
  BY ServerAssumption DEF ServerAssumption
<1>1. CASE Shed(r)
  BY <1>0, <1>1 DEF Shed, Forget
<1>2. CASE Pass(r)
  BY <1>0, <1>2 DEF Pass
<1>3. CASE Lookup(r)
  BY <1>0, <1>3 DEF Lookup
<1>4. CASE Register(r)
  BY <1>0, <1>4 DEF Register
<1>5. CASE CountClient(r)
  BY <1>0, <1>5 DEF CountClient
<1>6. CASE Lock(r)
  BY <1>0, <1>6 DEF Lock
<1>7. CASE Reload(r)
  BY <1>0, <1>7 DEF Reload
<1>8. CASE TakeStamp(r)
  BY <1>0, <1>8 DEF TakeStamp
<1>9. CASE Overcommit(r)
  BY <1>0, <1>9 DEF Overcommit
<1>10. CASE DecideHigher(r)
  BY <1>0, <1>10 DEF DecideHigher
<1>11. CASE DecideLower(r)
  BY <1>0, <1>11 DEF DecideLower
<1>12. CASE Higher(r)
  BY <1>0, <1>12 DEF Higher
<1>13. CASE PutIssued(r)
  BY <1>0, <1>13 DEF PutIssued
<1>14. CASE AddIssued(r)
  BY <1>0, <1>14 DEF AddIssued
<1>15. CASE Unlock(r)
  BY <1>0, <1>15 DEF Unlock
<1>16. CASE Stamp(r)
  BY <1>0, <1>16 DEF Stamp
<1>17. ASSUME NEW u \in Updaters, Handle(r, u) PROVE Protocol' /\ Stored'
  BY <1>0, <1>17 DEF Handle, Forget
<1> QED
  BY <1>1, <1>2, <1>3, <1>4, <1>5, <1>6, <1>7, <1>8, <1>9, <1>10, <1>11, <1>12, <1>13, <1>14, <1>15, <1>16, <1>17
     DEF Serve, Credit

\* The steps of a call keep the tokens with one call each, and the number it computes with.
LEMMA ServeOwned ==
  ASSUME TypeInv, LockInv, NEW r \in Requests, Serve(r)
  PROVE  Owned' /\ ConnMutex' /\ IssueIsCurrent'
<1> USE DEF TypeInv, TypeOK, Placed, Stored, Owned, ConnMutex, IssueIsCurrent, LockInv, Goto,
            UGoto, Registered, Holding, Working, Past, InCritical, Stamping, conn, Conns,
            connVars, poolVars, timeVars, reqLocal, updVars
<1>0. NoConn \notin Requests /\ NoClient \notin Clients
  BY ServerAssumption DEF ServerAssumption
<1>1. CASE Shed(r)
  BY <1>0, <1>1 DEF Shed, Forget
<1>2. CASE Pass(r)
  BY <1>0, <1>2 DEF Pass
<1>3. CASE Lookup(r)
  BY <1>0, <1>3 DEF Lookup
<1>4. CASE Register(r)
  BY <1>0, <1>4 DEF Register
<1>5. CASE CountClient(r)
  BY <1>0, <1>5 DEF CountClient
<1>6. CASE Lock(r)
  BY <1>0, <1>6 DEF Lock
<1>7. CASE Reload(r)
  BY <1>0, <1>7 DEF Reload
<1>8. CASE TakeStamp(r)
  BY <1>0, <1>8 DEF TakeStamp
<1>9. CASE Overcommit(r)
  BY <1>0, <1>9 DEF Overcommit
<1>10. CASE DecideHigher(r)
  BY <1>0, <1>10 DEF DecideHigher
<1>11. CASE DecideLower(r)
  BY <1>0, <1>11 DEF DecideLower
<1>12. CASE Higher(r)
  BY <1>0, <1>12 DEF Higher
<1>13. CASE PutIssued(r)
  BY <1>0, <1>13 DEF PutIssued
<1>14. CASE AddIssued(r)
  BY <1>0, <1>14 DEF AddIssued
<1>15. CASE Unlock(r)
  BY <1>0, <1>15 DEF Unlock
<1>16. CASE Stamp(r)
  BY <1>0, <1>16 DEF Stamp
<1>17. ASSUME NEW u \in Updaters, Handle(r, u)
      PROVE  Owned' /\ ConnMutex' /\ IssueIsCurrent'
  BY <1>0, <1>17 DEF Handle, Forget
<1> QED
  BY <1>1, <1>2, <1>3, <1>4, <1>5, <1>6, <1>7, <1>8, <1>9, <1>10, <1>11, <1>12, <1>13, <1>14, <1>15, <1>16, <1>17
     DEF Serve, Credit

\* Nothing else touches the locks; a call arrives only where the protocol of the clients lets it.
LEMMA OthersLock ==
  ASSUME Paced, TypeInv, LockInv,
         \/ Elapse \/ (\E d \in Latencies : Latency(d)) \/ Load
         \/ (\E r \in Requests : ArriveBare(r)) \/ (\E u \in Updaters : Update(u))
         \/ UNCHANGED vars
  PROVE  LockInv'
<1> USE DEF LockInv, Protocol, Stored, Owned, ConnMutex, IssueIsCurrent, Registered, Holding,
            InCritical, Stamping, conn
<1>1. CASE Elapse \/ (\E d \in Latencies : Latency(d)) \/ (\E u \in Updaters : Update(u))
           \/ UNCHANGED vars
  <2>1. UNCHANGED <<known, connOf, issued, lockIn, stampIn, pc, cl, held, prev>>
    BY <1>1 DEF Elapse, Latency, Update, CheckTime, TryRttLock, ReportDelay, BeginUpdate,
                RangeVisit, SetIssued, UpdateTotal, vars, connVars, poolVars, timeVars, reqLocal
  <2> QED
    BY <2>1
<1>2. ASSUME NEW r \in Requests, NEW c \in Clients, NEW d \in Demands, Arrive(r, c, d)
      PROVE  LockInv'
  BY <1>2 DEF Arrive, Admitted, Goto, TypeInv, TypeOK, Placed, connVars
<1>3. ASSUME NEW r \in Requests, ArriveBare(r) PROVE LockInv'
  BY <1>3 DEF ArriveBare, Goto, TypeInv, TypeOK, Placed, connVars, reqLocal
<1> QED
  BY <1>1, <1>2, <1>3 DEF Load

LEMMA LockStep == ASSUME Paced, TypeInv, LockInv, [Next]_vars PROVE LockInv'
BY ServeStored, ServeOwned, OthersLock DEF Next, LockInv

LEMMA LockInvariant == ASSUME Paced PROVE Spec => []LockInv
<1>1. TypeInv /\ LockInv /\ [Next]_vars => LockInv'
  BY Paced, LockStep
<1> QED
  BY <1>1, LockInit, TypeInvariant, PTL DEF Spec

\* With paced clients two calls of one client never compute at the same time, although the
\* Connection they lock is looked up, created and stored in separate steps.
THEOREM ConnectionsExclusive == ASSUME Paced PROVE Spec => []ConnMutex
BY LockInvariant, PTL DEF LockInv

\* With paced clients no call overwrites the issued credits with a number computed from
\* older ones.
THEOREM IssuesCurrent == ASSUME Paced PROVE Spec => []IssueIsCurrent
BY LockInvariant, PTL DEF LockInv

\* With paced clients the sends that give the tokens back find their channels empty.
THEOREM SendsFree == ASSUME Paced PROVE Spec => []SendsNeverBlock
<1>1. LockInv => SendsNeverBlock
  BY DEF LockInv, Owned, SendsNeverBlock, InCritical, Stamping
<1> QED
  BY <1>1, LockInvariant, PTL
-----------------------------------------------------------------------------
(* The update goroutines.                                                  *)

\* The body of rttUpdate runs in one goroutine at a time and always returns its token: the
\* statement is inductive, since only the try that finds the token enters.
THEOREM UpdatesSerial == Spec => []RttSerial
<1> USE DEF RttSerial, InRtt, UGoto, TypeOK
<1>1. Init => RttSerial
  BY DEF Init
<1>2. TypeOK /\ RttSerial /\ [Next]_vars => RttSerial'
  <2> SUFFICES ASSUME TypeOK, RttSerial, [Next]_vars PROVE RttSerial'
    OBVIOUS
  <2>1. ASSUME NEW u \in Updaters, CheckTime(u) \/ ReportDelay(u) \/ BeginUpdate(u)
                 \/ SetIssued(u) \/ \E c \in Clients : RangeVisit(u, c)
        PROVE  RttSerial'
    <3>1. rttLock' = rttLock /\ \A v \in Updaters : InRtt(v)' = InRtt(v)
      BY <2>1 DEF CheckTime, ReportDelay, BeginUpdate, SetIssued, RangeVisit
    <3> QED
      BY <3>1
  <2>2. ASSUME NEW u \in Updaters, TryRttLock(u) PROVE RttSerial'
    BY <2>2 DEF TryRttLock
  <2>3. ASSUME NEW u \in Updaters, UpdateTotal(u) PROVE RttSerial'
    BY <2>3 DEF UpdateTotal
  <2>4. ASSUME NEW r \in Requests, NEW u \in Updaters, Handle(r, u) PROVE RttSerial'
    BY <2>4 DEF Handle
  <2>5. CASE Elapse \/ (\E d \in Latencies : Latency(d)) \/ Load \/ UNCHANGED vars
             \/ (\E r \in Requests : ArriveBare(r) \/ Shed(r) \/ Pass(r) \/ Credit(r))
    <3>1. UNCHANGED <<upc, rttLock>>
      BY <2>5 DEF Elapse, Latency, Load, Arrive, ArriveBare, Shed, Pass, Credit, Lookup,
                  Register, CountClient, Lock, Reload, TakeStamp, Overcommit, DecideHigher,
                  DecideLower, Higher, PutIssued, AddIssued, Unlock, Stamp, updVars, vars
    <3> QED
      BY <3>1
  <2> QED
    BY <2>1, <2>2, <2>3, <2>4, <2>5 DEF Next, Serve, Update
<1> QED
  BY <1>1, <1>2, ServerTypeCorrect, PTL DEF Spec
-----------------------------------------------------------------------------
(* The grants.                                                             *)

\* What is known of a grant between its computation and its storing: it is at least one, and
\* unless it is one less than before the client had not been recomputed since the last update.
GrantInv ==
  /\ \A c \in Clients : ~Registered(c) => issued[c] = 0
  /\ \A r \in Requests :
       /\ pc[r] \in {"overcommit", "decide", "higher"} => conn(r) \notin fresh
       /\ pc[r] = "put" =>
            /\ new[r] >= 1
            /\ new[r] = Ledger!StepDown(prev[r]) \/ conn(r) \notin fresh
       /\ pc[r] \in Granted /\ cl[r] # NoClient => new[r] >= 1

LEMMA GrantInit == Init => GrantInv
BY DEF Init, GrantInv, Granted

LEMMA StepDownMax == ASSUME NEW v \in Int PROVE Max2(v - 1, 1) = Ledger!StepDown(v)
BY DEF Max2, Ledger!StepDown

\* The steps of a call keep the facts about its grant.
LEMMA ServeGrant ==
  ASSUME TypeInv, LockInv, GrantInv, NEW r \in Requests, Serve(r) PROVE GrantInv'
<1> USE DEF TypeInv, TypeOK, Placed, Protocol, Stored, Owned, LockInv, GrantInv, Goto, UGoto,
            Registered, Holding, Working, Past, Granted, Stamping, conn, Conns, connVars,
            poolVars, timeVars, reqLocal, updVars
<1>0. NoConn \notin Requests /\ NoClient \notin Clients
  BY ServerAssumption DEF ServerAssumption
<1>1. CASE Shed(r)
  BY <1>0, <1>1 DEF Shed, Forget
<1>2. CASE Pass(r)
  BY <1>0, <1>2 DEF Pass
<1>3. CASE Lookup(r)
  BY <1>0, <1>3 DEF Lookup
<1>4. CASE Register(r)
  BY <1>0, <1>4 DEF Register
<1>5. CASE CountClient(r)
  BY <1>0, <1>5 DEF CountClient
<1>6. CASE Lock(r)
  BY <1>0, <1>6 DEF Lock
<1>7. CASE Reload(r)
  BY <1>0, <1>7 DEF Reload
<1>8. CASE TakeStamp(r)
  <2>1. Max2(prev[r] - 1, 1) = Ledger!StepDown(prev[r]) /\ Max2(prev[r] - 1, 1) >= 1
    BY StepDownMax DEF Max2
  <2>2. CASE conn(r) \in fresh
    BY <1>0, <1>8, <2>1, <2>2 DEF TakeStamp
  <2>3. CASE conn(r) \notin fresh
    BY <1>0, <1>8, <2>3 DEF TakeStamp
  <2> QED
    BY <2>2, <2>3
<1>9. CASE Overcommit(r)
  BY <1>0, <1>9 DEF Overcommit
<1>10. CASE DecideHigher(r)
  BY <1>0, <1>10 DEF DecideHigher
<1>11. CASE DecideLower(r)
  <2>1. LowerCredits(oc[r], dem[r], prev[r]) >= 1
    BY DEF LowerCredits, Max2, Min2
  <2> QED
    BY <1>0, <1>11, <2>1 DEF DecideLower
<1>12. CASE Higher(r)
  <2>1. HigherCredits(oc[r], dem[r], prev[r]) >= 1
    BY DEF HigherCredits, Max2, Min2
  <2> QED
    BY <1>0, <1>12, <2>1 DEF Higher
<1>13. CASE PutIssued(r)
  BY <1>0, <1>13 DEF PutIssued
<1>14. CASE AddIssued(r)
  BY <1>0, <1>14 DEF AddIssued
<1>15. CASE Unlock(r)
  BY <1>0, <1>15 DEF Unlock
<1>16. CASE Stamp(r)
  BY <1>0, <1>16 DEF Stamp
<1>17. ASSUME NEW u \in Updaters, Handle(r, u) PROVE GrantInv'
  BY <1>0, <1>17 DEF Handle, Forget
<1> QED
  BY <1>1, <1>2, <1>3, <1>4, <1>5, <1>6, <1>7, <1>8, <1>9, <1>10, <1>11, <1>12, <1>13, <1>14, <1>15, <1>16, <1>17
     DEF Serve, Credit

LEMMA OthersGrant ==
  ASSUME TypeInv, GrantInv,
         \/ Elapse \/ (\E d \in Latencies : Latency(d)) \/ Load
         \/ (\E r \in Requests : ArriveBare(r)) \/ (\E u \in Updaters : Update(u))
         \/ UNCHANGED vars
  PROVE  GrantInv'
<1> USE DEF GrantInv, Granted, Registered, conn
<1>1. CASE Elapse \/ (\E d \in Latencies : Latency(d)) \/ (\E u \in Updaters : Update(u))
           \/ UNCHANGED vars
  <2>1. /\ UNCHANGED <<connOf, issued, pc, cl, held, prev, new>>
        /\ fresh' \subseteq fresh
    BY <1>1 DEF Elapse, Latency, Update, CheckTime, TryRttLock, ReportDelay, BeginUpdate,
                RangeVisit, SetIssued, UpdateTotal, vars, connVars, poolVars, timeVars, reqLocal
  <2> QED
    BY <2>1
<1>2. ASSUME NEW r \in Requests, NEW c \in Clients, NEW d \in Demands, Arrive(r, c, d)
      PROVE  GrantInv'
  BY <1>2 DEF Arrive, Admitted, Goto, TypeInv, TypeOK, connVars
<1>3. ASSUME NEW r \in Requests, ArriveBare(r) PROVE GrantInv'
  BY <1>3 DEF ArriveBare, Goto, TypeInv, TypeOK, Placed, connVars, reqLocal
<1> QED
  BY <1>1, <1>2, <1>3 DEF Load

LEMMA GrantInvariant == ASSUME Paced PROVE Spec => []GrantInv
<1>1. TypeInv /\ LockInv /\ GrantInv /\ [Next]_vars => GrantInv'
  BY ServeGrant, OthersGrant DEF Next
<1> QED
  BY <1>1, GrantInit, TypeInvariant, LockInvariant, PTL DEF Spec
-----------------------------------------------------------------------------
(* The refinement.                                                         *)

\* The abstract variables of the ledger.
Grants == [r \in Requests |->
             IF pc[r] \in Granted /\ cl[r] # NoClient THEN new[r] ELSE NoGrant]
MayRaise == {c \in Clients :
               /\ <<c, connOf[c]>> \notin fresh
               /\ \A r \in Requests : cl[r] = c => pc[r] \notin {"add", "unlock", "stamp"}}
Due == \E u \in Updaters : upc[u] = "begin"

LEMMA LedgerInit == Init => Ledger!Init
BY DEF Init, Ledger!Init, Granted, NoGrant

\* The steps of a call start no update.
LEMMA ServeKeepsDue ==
  ASSUME TypeOK, NEW r \in Requests, Serve(r) PROVE Due' = Due
<1>1. CASE \E u \in Updaters : Handle(r, u)
  BY <1>1 DEF Handle, UGoto, TypeOK, Due
<1>2. CASE Shed(r) \/ Pass(r) \/ Credit(r)
  <2>1. upc' = upc
    BY <1>2 DEF Shed, Pass, Credit, Lookup, Register, CountClient, Lock, Reload, TakeStamp,
                Overcommit, DecideHigher, DecideLower, Higher, PutIssued, AddIssued, Unlock,
                Stamp, updVars
  <2> QED
    BY <2>1 DEF Due
<1> QED
  BY <1>1, <1>2 DEF Serve

\* A due update ends by taking the time, and only that resets fresh.
LEMMA UpdateDue ==
  ASSUME TypeOK, RttSerial, NEW u \in Updaters, Update(u)
  PROVE  \/ Due = TRUE /\ Due' = FALSE
         \/ fresh' = fresh /\ (Due' = Due \/ Due' = TRUE)
<1> USE DEF UGoto, TypeOK, Due
<1>1. CASE BeginUpdate(u)
  <2>1. upc[u] = "begin" /\ upc' = [upc EXCEPT ![u] = "range"]
    BY <1>1 DEF BeginUpdate
  <2>2. \A v \in Updaters : v # u => upc[v] # "begin"
    BY <2>1 DEF RttSerial, InRtt
  <2> QED
    BY <2>1, <2>2
<1>2. CASE TryRttLock(u) \/ ReportDelay(u)
  BY <1>2 DEF TryRttLock, ReportDelay, connVars
<1>3. CASE CheckTime(u) \/ SetIssued(u) \/ UpdateTotal(u) \/ \E c \in Clients : RangeVisit(u, c)
  <2>1. fresh' = fresh
    BY <1>3 DEF CheckTime, SetIssued, UpdateTotal, RangeVisit, connVars
  <2>2. \E to \in UpdPCs \ {"begin"} : upc' = [upc EXCEPT ![u] = to]
    BY <1>3 DEF CheckTime, SetIssued, UpdateTotal, RangeVisit, UpdPCs
  <2>3. upc[u] # "begin"
    BY <1>3 DEF CheckTime, SetIssued, UpdateTotal, RangeVisit
  <2> QED
    BY <2>1, <2>2, <2>3
<1> QED
  BY <1>1, <1>2, <1>3 DEF Update

\* The stored credits become the one grant under way for the request.
LEMMA PutHoldsGrant ==
  ASSUME pc \in [Requests -> ReqPCs], NEW r \in Requests, PutIssued(r), cl[r] # NoClient
  PROVE  Grants[r] = NoGrant /\ Grants' = [Grants EXCEPT ![r] = new[r]]
<1>1. pc[r] = "put" /\ pc' = [pc EXCEPT ![r] = "add"] /\ cl' = cl /\ new' = new
  BY DEF PutIssued, Goto, reqLocal
<1>2. Grants[r] = NoGrant
  BY <1>1 DEF Grants, Granted
<1>3. pc'[r] = "add" /\ \A o \in Requests : o # r => pc'[o] = pc[o]
  BY <1>1
<1>4. \A o \in Requests : Grants'[o] = IF o = r THEN new[r] ELSE Grants[o]
  BY <1>1, <1>3 DEF Grants, Granted
<1> QED
  BY <1>2, <1>4 DEF Grants

\* Storing the computed credits is the grant.
LEMMA PutGrants ==
  ASSUME TypeInv, LockInv, GrantInv, NEW r \in Requests, PutIssued(r),
         NEW c \in Clients, c = cl[r], NEW v, v = new[r]
  PROVE  v = issued'[c] /\ Ledger!Grant(r, c, v)
<1> USE DEF TypeInv, TypeOK, Placed, Stored, Owned, LockInv, GrantInv, PutIssued, Goto,
            Registered, Holding, Working, Past, Granted, Stamping, conn, connVars, poolVars,
            timeVars, reqLocal, updVars
<1>0. NoConn \notin Requests /\ NoClient \notin Clients
  BY ServerAssumption DEF ServerAssumption
<1>1. cl[r] \in Clients /\ held[r] = connOf[cl[r]] /\ prev[r] = issued[cl[r]]
  BY DEF IssueIsCurrent
<1>2. Grants[r] = NoGrant /\ Grants' = [Grants EXCEPT ![r] = new[r]]
  BY <1>0, <1>1, PutHoldsGrant
<1>3. MayRaise' = MayRaise \ {cl[r]}
  BY <1>0, <1>1 DEF MayRaise
<1>4. new[r] # Ledger!StepDown(issued[cl[r]]) => new[r] >= 1 /\ cl[r] \in MayRaise
  BY <1>0, <1>1 DEF MayRaise
<1>5. issued' = [issued EXCEPT ![cl[r]] = new[r]] /\ issued'[cl[r]] = new[r]
  BY <1>1
<1>6. Due' = Due
  BY ServeKeepsDue DEF Serve, Credit
<1> QED
  BY <1>2, <1>3, <1>4, <1>5, <1>6 DEF Ledger!Grant, Grants, MayRaise, Due

\* The response with the credits is the answer.
LEMMA HandleAnswers ==
  ASSUME TypeInv, GrantInv, NEW r \in Requests, NEW u \in Updaters, Handle(r, u)
  PROVE  Ledger!Answer(r) \/ (issued' = issued /\ Grants' = Grants /\ MayRaise' = MayRaise)
<1> USE DEF TypeInv, TypeOK, GrantInv, Handle, Forget, Goto, Granted, connVars
<1>0. NoClient \notin Clients
  BY ServerAssumption DEF ServerAssumption
<1>1. issued' = issued /\ MayRaise' = MayRaise
  BY <1>0 DEF MayRaise
<1>2. Grants' = [Grants EXCEPT ![r] = NoGrant]
  BY <1>0 DEF Grants, NoGrant
<1>3. Due' = Due
  BY ServeKeepsDue DEF Serve
<1>4. CASE cl[r] = NoClient
  <2>1. Grants[r] = NoGrant
    BY <1>4 DEF Grants
  <2> QED
    BY <1>1, <1>2, <2>1 DEF Grants
<1>5. CASE cl[r] # NoClient
  <2>1. Grants[r] # NoGrant
    BY <1>5 DEF Grants, NoGrant
  <2> QED
    BY <1>1, <1>2, <1>3, <2>1 DEF Ledger!Answer, Grants, MayRaise, Due
<1> QED
  BY <1>4, <1>5

\* A new Connection of a client nobody has served costs it its turn, or nothing.
LEMMA RegisterLoses ==
  ASSUME TypeInv, LockInv, GrantInv, NEW r \in Requests, Register(r)
  PROVE  /\ issued' = issued /\ Grants' = Grants
         /\ MayRaise' = MayRaise \/ MayRaise' = MayRaise \ {cl[r]}
<1> USE DEF TypeInv, TypeOK, Placed, Protocol, Stored, LockInv, GrantInv, Register, Goto,
            Registered, Holding, Working, Past, Granted, reqLocal
<1>0. NoConn \notin Requests /\ NoClient \notin Clients
  BY ServerAssumption DEF ServerAssumption
<1>1. cl[r] \in Clients /\ issued[cl[r]] = 0
  OBVIOUS
<1>2. issued' = issued
  BY <1>1
<1>3. Grants' = Grants
  BY DEF Grants
<1>4. \A c \in Clients : c # cl[r] => (c \in MayRaise' <=> c \in MayRaise)
  BY <1>0, <1>1 DEF MayRaise
<1>5. cl[r] \in MayRaise
  <2>1. <<cl[r], connOf[cl[r]]>> \notin fresh
    BY <1>0, <1>1 DEF Conns
  <2>2. ASSUME NEW q \in Requests, cl[q] = cl[r] PROVE pc[q] \notin {"add", "unlock", "stamp"}
    BY <2>2, <1>0, <1>1
  <2> QED
    BY <1>1, <2>1, <2>2 DEF MayRaise
<1>6. MayRaise \subseteq Clients /\ MayRaise' \subseteq Clients
  BY DEF MayRaise
<1> HIDE DEF TypeInv, LockInv, GrantInv
<1> DEFINE M == MayRaise
           N == MayRaise'
<1>7. /\ \A c : c \in N => c \in M
      /\ \A c : c \in M /\ c # cl[r] => c \in N
  BY <1>4, <1>5, <1>6
<1> HIDE DEF M, N
<1>8. N = M \/ N = M \ {cl[r]}
  BY <1>7
<1> QED
  BY <1>2, <1>3, <1>8 DEF M, N

\* The other steps of a call change nothing the ledger sees.
LEMMA ServeStutters ==
  ASSUME TypeInv, LockInv, NEW r \in Requests,
         \/ Shed(r) \/ Pass(r) \/ Lookup(r) \/ CountClient(r) \/ Lock(r) \/ Reload(r)
         \/ TakeStamp(r) \/ Overcommit(r) \/ DecideHigher(r) \/ DecideLower(r) \/ Higher(r)
         \/ AddIssued(r) \/ Unlock(r) \/ Stamp(r)
  PROVE  issued' = issued /\ Grants' = Grants /\ MayRaise' = MayRaise
<1> USE DEF TypeInv, TypeOK, Placed, Stored, LockInv, Goto, Registered, Holding, Working, Past,
            Granted, Grants, MayRaise, conn, connVars, reqLocal
<1>0. NoClient \notin Clients
  BY ServerAssumption DEF ServerAssumption
<1>1. CASE Shed(r)
  BY <1>0, <1>1 DEF Shed, Forget
<1>2. CASE Pass(r)
  BY <1>0, <1>2 DEF Pass
<1>3. CASE Lookup(r) \/ CountClient(r) \/ Lock(r) \/ Reload(r) \/ Overcommit(r) \/ DecideHigher(r)
  BY <1>3 DEF Lookup, CountClient, Lock, Reload, Overcommit, DecideHigher
<1>4. CASE TakeStamp(r) \/ DecideLower(r) \/ Higher(r)
  BY <1>4 DEF TakeStamp, DecideLower, Higher
<1>5. CASE AddIssued(r) \/ Unlock(r)
  BY <1>5 DEF AddIssued, Unlock
<1>6. CASE Stamp(r)
  BY <1>0, <1>6 DEF Stamp
<1> QED
  BY <1>1, <1>2, <1>3, <1>4, <1>5, <1>6

\* An update opens a new period when it takes the time; everything else changes nothing.
LEMMA OthersLedger ==
  ASSUME TypeInv, RttSerial,
         \/ Elapse \/ (\E d \in Latencies : Latency(d)) \/ Load
         \/ (\E r \in Requests : ArriveBare(r)) \/ (\E u \in Updaters : Update(u))
         \/ UNCHANGED vars
  PROVE  /\ issued' = issued /\ Grants' = Grants
         /\ \/ Due = TRUE /\ Due' = FALSE /\ MayRaise \subseteq MayRaise'
            \/ MayRaise' = MayRaise /\ (Due' = Due \/ Due' = TRUE)
<1> USE DEF Granted, Grants, MayRaise
<1>0. NoClient \notin Clients
  BY ServerAssumption DEF ServerAssumption
<1>1. CASE \E u \in Updaters : Update(u)
  <2>1. UNCHANGED <<connOf, issued, pc, cl, new>> /\ fresh' \subseteq fresh
    BY <1>1 DEF Update, CheckTime, TryRttLock, ReportDelay, BeginUpdate, RangeVisit,
                SetIssued, UpdateTotal, connVars, reqLocal
  <2>2. \/ Due = TRUE /\ Due' = FALSE
        \/ fresh' = fresh /\ (Due' = Due \/ Due' = TRUE)
    BY <1>1, UpdateDue DEF TypeInv
  <2> QED
    BY <2>1, <2>2
<1>2. CASE Elapse \/ (\E d \in Latencies : Latency(d)) \/ UNCHANGED vars
  <2>1. UNCHANGED <<connOf, issued, pc, cl, new, fresh, upc>>
    BY <1>2 DEF Elapse, Latency, vars, connVars, reqLocal, updVars
  <2> QED
    BY <2>1 DEF Due
<1>3. ASSUME NEW r \in Requests, NEW c \in Clients, NEW d \in Demands, Arrive(r, c, d)
      PROVE  issued' = issued /\ Grants' = Grants /\ MayRaise' = MayRaise /\ Due' = Due
  BY <1>0, <1>3 DEF Arrive, Admitted, Goto, TypeInv, TypeOK, connVars, updVars, Due
<1>4. ASSUME NEW r \in Requests, ArriveBare(r)
      PROVE  issued' = issued /\ Grants' = Grants /\ MayRaise' = MayRaise /\ Due' = Due
  BY <1>0, <1>4 DEF ArriveBare, Goto, TypeInv, TypeOK, Placed, connVars, reqLocal, updVars, Due
<1> QED
  BY <1>1, <1>2, <1>3, <1>4 DEF Load

\* With paced clients the interleaved calls and updates implement the ledger: each call is
\* granted one value computed from its client's current number, recomputed at most once per
\* update, and one credit less otherwise.
THEOREM ServerImplementsLedger == ASSUME Paced PROVE Spec => LedgerSpec
<1>1. TypeInv /\ LockInv /\ GrantInv /\ RttSerial /\ [Next]_vars => [Ledger!Next]_Ledger!lvars
  <2> SUFFICES ASSUME TypeInv, LockInv, GrantInv, RttSerial, [Next]_vars
               PROVE  \/ Ledger!Next
                      \/ /\ issued' = issued /\ Grants' = Grants /\ MayRaise' = MayRaise
                         /\ Due' = Due
    BY DEF Ledger!lvars, Grants, MayRaise, Due
  <2>0. MayRaise \subseteq Clients /\ MayRaise' \subseteq Clients
    BY DEF MayRaise
  <2>1. ASSUME NEW r \in Requests, Serve(r) PROVE Due' = Due
    BY <2>1, ServeKeepsDue DEF TypeInv
  <2>2. ASSUME NEW r \in Requests, PutIssued(r) PROVE Ledger!Next
    <3>1. cl[r] \in Clients
      BY <2>2 DEF PutIssued, Goto, TypeInv, Placed, Working, Holding
    <3>2. PICK c \in Clients, v \in {new[r]} : c = cl[r]
      BY <3>1
    <3>3. v = issued'[c] /\ Ledger!Grant(r, c, v)
      BY <2>2, <3>2, PutGrants
    <3> QED
      BY <3>2, <3>3 DEF Ledger!Next
  <2>3. ASSUME NEW r \in Requests, NEW u \in Updaters, Handle(r, u)
        PROVE  Ledger!Next \/ (issued' = issued /\ Grants' = Grants /\ MayRaise' = MayRaise)
    BY <2>3, HandleAnswers DEF Ledger!Next
  <2>4. ASSUME NEW r \in Requests, Register(r)
        PROVE  Ledger!Next \/ (issued' = issued /\ Grants' = Grants /\ MayRaise' = MayRaise)
    <3>1. cl[r] \in Clients
      BY <2>4 DEF Register, Goto, TypeInv, Placed, Working
    <3>2. /\ issued' = issued /\ Grants' = Grants
          /\ MayRaise' = MayRaise \/ MayRaise' = MayRaise \ {cl[r]}
      BY <2>4, RegisterLoses
    <3>3. CASE MayRaise' = MayRaise \ {cl[r]}
      <4>1. PICK c \in Clients : c = cl[r]
        BY <3>1
      <4>2. Ledger!LoseTurn(c)
        BY <2>1, <2>4, <3>2, <3>3, <4>1 DEF Ledger!LoseTurn, MayRaise, Grants, Due, Serve, Credit
      <4> QED
        BY <4>2 DEF Ledger!Next
    <3> QED
      BY <3>2, <3>3
  <2>5. ASSUME NEW r \in Requests,
               \/ Shed(r) \/ Pass(r) \/ Lookup(r) \/ CountClient(r) \/ Lock(r) \/ Reload(r)
               \/ TakeStamp(r) \/ Overcommit(r) \/ DecideHigher(r) \/ DecideLower(r)
               \/ Higher(r) \/ AddIssued(r) \/ Unlock(r) \/ Stamp(r)
        PROVE  issued' = issued /\ Grants' = Grants /\ MayRaise' = MayRaise
    BY <2>5, ServeStutters
  <2>6. CASE \/ Elapse \/ (\E d \in Latencies : Latency(d)) \/ Load
             \/ (\E r \in Requests : ArriveBare(r)) \/ (\E u \in Updaters : Update(u))
             \/ UNCHANGED vars
    <3>1. /\ issued' = issued /\ Grants' = Grants
          /\ \/ Due = TRUE /\ Due' = FALSE /\ MayRaise \subseteq MayRaise'
             \/ MayRaise' = MayRaise /\ (Due' = Due \/ Due' = TRUE)
      BY <2>6, OthersLedger
    <3>2. CASE Due = TRUE /\ Due' = FALSE /\ MayRaise \subseteq MayRaise'
      BY <2>0, <3>1, <3>2 DEF Ledger!Next, Ledger!NewPeriod, Grants, MayRaise, Due
    <3>3. CASE MayRaise' = MayRaise /\ Due' = TRUE
      BY <3>1, <3>3 DEF Ledger!Next, Ledger!Announce, Grants, MayRaise, Due
    <3> QED
      BY <3>1, <3>2, <3>3
  <2> QED
    BY <2>2, <2>3, <2>4, <2>5, <2>6, <2>1 DEF Next, Serve, Credit
<1> QED
  BY <1>1, LedgerInit, TypeInvariant, LockInvariant, GrantInvariant, UpdatesSerial, PTL
     DEF Spec, LedgerSpec, Ledger!Spec
-----------------------------------------------------------------------------
(* The number of clients.                                                  *)

Counting == {r \in Requests : pc[r] = "count"}
Stocked  == {c \in Clients : Registered(c)}

\* A registered client has been counted, or the call that registered it is about to do it; that
\* call is the client's only one.
CountInv ==
  /\ numClients + Cardinality(Counting) = Cardinality(Stocked)
  /\ \A c \in Clients :
       Registered(c) => numClients > 0 \/ \E q \in Requests : pc[q] = "count" /\ cl[q] = c
  /\ \A r \in Requests :
       /\ pc[r] \in {"register", "count"} => cl[r] \notin known
       /\ pc[r] \in Holding => numClients > 0

LEMMA CountFinite ==
  /\ IsFiniteSet(Counting) /\ Cardinality(Counting) \in Nat
  /\ IsFiniteSet(Stocked) /\ Cardinality(Stocked) \in Nat
<1>1. IsFiniteSet(Clients) /\ IsFiniteSet(Requests)
  BY ServerAssumption DEF ServerAssumption
<1>2. Counting \subseteq Requests /\ Stocked \subseteq Clients
  BY DEF Counting, Stocked
<1> QED
  BY <1>1, <1>2, FS_Subset, FS_CardinalityType

LEMMA CountInit == Init => CountInv
<1>1. Init => Counting = {} /\ Stocked = {}
  BY DEF Init, Counting, Stocked, Registered
<1> QED
  BY <1>1, FS_EmptySet DEF Init, CountInv, Registered, Holding

\* A new client is registered and is to be counted.
LEMMA RegisterCounts ==
  ASSUME TypeInv, LockInv, CountInv, NEW r \in Requests, Register(r) PROVE CountInv'
<1> USE DEF TypeInv, TypeOK, Placed, Stored, Register, Goto, Registered, Holding, Working,
            poolVars, reqLocal
<1>0. NoConn \notin Requests /\ cl[r] \in Clients /\ ~Registered(cl[r])
  BY ServerAssumption DEF ServerAssumption, LockInv
<1>1. Counting' = Counting \union {r} /\ r \notin Counting
  BY DEF Counting
<1>2. Stocked' = Stocked \union {cl[r]} /\ cl[r] \notin Stocked
  BY <1>0 DEF Stocked
<1>3. /\ Cardinality(Counting') = Cardinality(Counting) + 1
      /\ Cardinality(Stocked') = Cardinality(Stocked) + 1
  BY <1>1, <1>2, CountFinite, FS_AddElement
<1>4. numClients' + Cardinality(Counting') = Cardinality(Stocked')
  BY <1>3, CountFinite DEF CountInv
<1>5. \A c \in Clients :
        Registered(c)' => numClients' > 0 \/ \E q \in Requests : pc'[q] = "count" /\ cl'[q] = c
  BY <1>0 DEF CountInv
<1>6. \A q \in Requests :
        /\ pc'[q] \in {"register", "count"} => cl'[q] \notin known'
        /\ pc'[q] \in Holding => numClients' > 0
  BY DEF CountInv
<1> QED
  BY <1>4, <1>5, <1>6 DEF CountInv

\* The counter catches up.
LEMMA CountClientCounts ==
  ASSUME TypeInv, CountInv, NEW r \in Requests, CountClient(r) PROVE CountInv'
<1> USE DEF TypeInv, TypeOK, CountClient, Goto, Registered, connVars
<1>1. Counting' = Counting \ {r} /\ r \in Counting
  BY DEF Counting
<1>2. Stocked' = Stocked
  BY DEF Stocked
<1>3. Cardinality(Counting') = Cardinality(Counting) - 1
  BY <1>1, CountFinite, FS_RemoveElement
<1>4. numClients' + Cardinality(Counting') = Cardinality(Stocked')
  BY <1>2, <1>3, CountFinite DEF CountInv
<1>5. numClients' > 0
  OBVIOUS
<1>6. \A q \in Requests : pc'[q] \in {"register", "count"} => cl'[q] \notin known'
  BY DEF CountInv
<1> QED
  BY <1>4, <1>5, <1>6 DEF CountInv

\* A call that finds its client registered finds it counted.
LEMMA LookupCounted ==
  ASSUME TypeInv, LockInv, CountInv, NEW r \in Requests, Lookup(r) PROVE CountInv'
<1> USE DEF TypeInv, TypeOK, Placed, LockInv, Protocol, Lookup, Goto, Registered, Holding,
            Working, connVars, poolVars
<1>0. NoClient \notin Clients /\ cl[r] \in Clients
  BY ServerAssumption DEF ServerAssumption
<1>1. Counting' = Counting /\ Stocked' = Stocked
  BY DEF Counting, Stocked
<1>2. Registered(cl[r]) => numClients > 0
  <2>1. ASSUME NEW q \in Requests, pc[q] = "count", cl[q] = cl[r] PROVE FALSE
    BY <2>1, <1>0 DEF CountInv
  <2> QED
    BY <1>0, <2>1 DEF CountInv
<1>3. ~Registered(cl[r]) => cl[r] \notin known
  OBVIOUS
<1> QED
  BY <1>1, <1>2, <1>3 DEF CountInv

\* Every other step leaves the registrations, the counter and the counting calls alone.
LEMMA OthersCount ==
  ASSUME TypeInv, LockInv, CountInv, NEW r \in Requests,
         \/ Shed(r) \/ Pass(r) \/ Lock(r) \/ Reload(r) \/ TakeStamp(r) \/ Overcommit(r)
         \/ DecideHigher(r) \/ DecideLower(r) \/ Higher(r) \/ PutIssued(r) \/ AddIssued(r)
         \/ Unlock(r) \/ Stamp(r) \/ \E u \in Updaters : Handle(r, u)
  PROVE  CountInv'
<1> USE DEF TypeInv, TypeOK, Placed, Stored, LockInv, Protocol, Goto, Registered, Holding,
            Working, Past, connVars, poolVars, reqLocal
<1>0. NoConn \notin Requests /\ NoClient \notin Clients
  BY ServerAssumption DEF ServerAssumption
<1>1. CASE Shed(r) \/ Pass(r)
  <2>1. Counting' = Counting /\ Stocked' = Stocked
    BY <1>1 DEF Counting, Stocked, Shed, Pass
  <2>2. /\ UNCHANGED <<connOf, known, numClients>>
        /\ \E p \in {"idle", "handle", "lookup"} : pc' = [pc EXCEPT ![r] = p]
        /\ cl' = cl \/ cl' = [cl EXCEPT ![r] = NoClient]
        /\ pc[r] = "aqm"
    BY <1>1 DEF Shed, Pass, Forget
  <2> QED
    BY <2>1, <2>2 DEF CountInv
<1>2. CASE \/ Lock(r) \/ Reload(r) \/ TakeStamp(r) \/ Overcommit(r) \/ DecideHigher(r)
           \/ DecideLower(r) \/ Higher(r) \/ AddIssued(r) \/ Unlock(r) \/ Stamp(r)
  <2>1. /\ UNCHANGED <<connOf, known, cl, numClients>>
        /\ \E p \in Holding \union {"handle"} : pc' = [pc EXCEPT ![r] = p]
        /\ pc[r] \in Holding
    BY <1>2 DEF Lock, Reload, TakeStamp, Overcommit, DecideHigher, DecideLower, Higher,
                AddIssued, Unlock, Stamp
  <2>2. Counting' = Counting /\ Stocked' = Stocked
    BY <2>1 DEF Counting, Stocked
  <2> QED
    BY <2>1, <2>2 DEF CountInv
<1>3. CASE PutIssued(r)
  <2>1. UNCHANGED <<connOf, known, cl, numClients>>
    BY <1>3 DEF PutIssued
  <2>2. Counting' = Counting /\ Stocked' = Stocked
    BY <1>3, <2>1 DEF Counting, Stocked, PutIssued
  <2> QED
    BY <1>3, <2>1, <2>2 DEF CountInv, PutIssued
<1>4. ASSUME NEW u \in Updaters, Handle(r, u) PROVE CountInv'
  <2>1. Counting' = Counting /\ Stocked' = Stocked /\ numClients' = numClients
    BY <1>4 DEF Counting, Stocked, Handle
  <2>2. ASSUME NEW q \in Requests, pc'[q] \in {"register", "count"} PROVE cl'[q] \notin known'
    BY <1>0, <1>4, <2>2 DEF Handle, Forget, CountInv
  <2>3. ASSUME NEW q \in Requests, pc'[q] \in Holding PROVE numClients' > 0
    BY <1>4, <2>1, <2>3 DEF Handle, CountInv
  <2>4. \A c \in Clients :
          Registered(c)' => numClients' > 0 \/ \E q \in Requests : pc'[q] = "count" /\ cl'[q] = c
    BY <1>4, <2>1 DEF Handle, Forget, CountInv
  <2> QED
    BY <2>1, <2>2, <2>3, <2>4 DEF CountInv
<1> QED
  BY <1>1, <1>2, <1>3, <1>4

LEMMA EnvironmentCount ==
  ASSUME TypeInv, CountInv, Paced,
         \/ Elapse \/ (\E d \in Latencies : Latency(d)) \/ Load
         \/ (\E r \in Requests : ArriveBare(r)) \/ (\E u \in Updaters : Update(u))
         \/ UNCHANGED vars
  PROVE  CountInv'
<1> USE DEF Registered, Holding
<1>1. CASE Elapse \/ (\E d \in Latencies : Latency(d)) \/ (\E u \in Updaters : Update(u))
           \/ UNCHANGED vars
  <2>1. UNCHANGED <<connOf, known, pc, cl, numClients>>
    BY <1>1 DEF Elapse, Latency, Update, CheckTime, TryRttLock, ReportDelay, BeginUpdate,
                RangeVisit, SetIssued, UpdateTotal, vars, connVars, poolVars, timeVars, reqLocal
  <2> QED
    BY <2>1 DEF CountInv, Counting, Stocked
<1>2. ASSUME NEW r \in Requests, \/ ArriveBare(r)
                                 \/ \E c \in Clients, d \in Demands : Arrive(r, c, d)
      PROVE  CountInv'
  <2>1. /\ pc[r] = "idle" /\ pc'[r] \in {"aqm", "lookup", "handle"}
        /\ \A q \in Requests : q # r => pc'[q] = pc[q] /\ cl'[q] = cl[q]
        /\ UNCHANGED <<connOf, known, numClients>>
    BY <1>2 DEF ArriveBare, Arrive, Admitted, Goto, TypeInv, TypeOK, connVars, poolVars, reqLocal
  <2>2. Counting' = Counting /\ Stocked' = Stocked
    BY <2>1 DEF Counting, Stocked
  <2> QED
    BY <2>1, <2>2 DEF CountInv
<1> QED
  BY <1>1, <1>2 DEF Load

LEMMA CountStep == ASSUME Paced, TypeInv, LockInv, CountInv, [Next]_vars PROVE CountInv'
BY RegisterCounts, CountClientCounts, LookupCounted, OthersCount, EnvironmentCount
   DEF Next, Serve, Credit

\* With paced clients numClients trails the registrations only by the calls about to count
\* theirs, and it is never zero when the overcommitment divides by it.
THEOREM ClientsAreCounted == ASSUME Paced PROVE Spec => []ClientsCounted
<1>1. TypeInv /\ LockInv /\ CountInv /\ [Next]_vars => CountInv'
  BY Paced, CountStep
<1>2. CountInv => ClientsCounted
  BY DEF CountInv, ClientsCounted, Counting, Stocked, Holding
<1> QED
  BY <1>1, <1>2, CountInit, TypeInvariant, LockInvariant, PTL DEF Spec
=============================================================================
