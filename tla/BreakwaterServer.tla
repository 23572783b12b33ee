-------------------------- MODULE BreakwaterServer --------------------------
(***************************************************************************)
(* The server side of breakwater-grpc: every unary call runs the           *)
(* interceptor in a goroutine of its own (a Request), every handled call   *)
(* spawns one rttUpdate goroutine (an Updater).  They share the map of     *)
(* client connections, the counters numClients, cTotal and cIssued, and    *)
(* the queueing delay owned by the manageQueueingDelay goroutine.          *)
(*                                                                         *)
(* Source: src/breakwater-grpc-main/breakwater/server_interceptor.go and   *)
(* breakwater.go.  A capacity-one Go channel used as a lock is the set of  *)
(* the connections whose channel holds its token: a receive needs the      *)
(* token there, a send needs it absent.  A Connection is named by the      *)
(* client and the request that created it, since two first requests may    *)
(* each create one.                                                        *)
(*                                                                         *)
(* Delays are in units of thresholdDelay (so aqmDelay is 2) and wall-clock *)
(* comparisons are kept as what they decide: elapsed is "more than         *)
(* RTT_MICROSECOND since lastUpdateTime", fresh is the set of connections  *)
(* whose lastUpdated time is after lastUpdateTime.                         *)
(***************************************************************************)
EXTENDS Integers, FiniteSets, Functions

CONSTANTS
  Clients,        \* client ids found in the metadata
  Requests,       \* slots for requests in flight; a finished slot is reused
  Updaters,       \* slots for live rttUpdate goroutines (bound)
  NoClient,       \* "this slot has no client id": a call without metadata
  NoConn,         \* "no Connection stored"
  Demands,        \* demands a client may report
  LoadShedding,   \* BWParameters.LoadShedding
  Paced,          \* clients send nothing else until their first request is answered
  InitialCredits, \* BWParameters.InitialCredits
  Warm,           \* the server has answered a call without metadata before the start
  APercent,       \* 100 * AFactor
  BPercent,       \* 100 * BFactor
  Latencies,      \* scheduling latencies that occur, in units of thresholdDelay (bound)
  MaxTicks        \* RTT periods that may elapse (bound)

ASSUME ServerAssumption ==
  /\ NoClient \notin Clients
  /\ NoConn \notin Requests
  /\ IsFiniteSet(Clients) /\ IsFiniteSet(Requests)
  /\ Demands \subseteq Nat
  /\ LoadShedding \in BOOLEAN
  /\ Paced \in BOOLEAN
  /\ Warm \in BOOLEAN
  /\ InitialCredits \in Nat \ {0}
  /\ APercent \in Nat
  /\ BPercent \in Nat
  /\ Latencies \subseteq Nat \ {0}
  /\ MaxTicks \in Nat

VARIABLES
  connOf,        \* clientMap: which Connection is stored for the client
  issued,        \* clientMap: Connection.issued stored for the client
  lockIn,        \* Connections whose issuedWriteLock holds its token
  stampIn,       \* Connections whose lastUpdated holds its time
  fresh,         \* Connections whose lastUpdated time is after lastUpdateTime
  numClients, cTotal, cIssued,
  queueingDelay, \* the variable owned by manageQueueingDelay
  recent,        \* largest scheduling latency since prevHist was taken
  primed,        \* prevHist # nil
  elapsed,       \* time.Since(lastUpdateTime) > RTT_MICROSECOND
  ticks,         \* RTT periods elapsed so far (bounded by MaxTicks)
  known,         \* clients that have received credits (their side of the protocol)
  pc, cl, dem,   \* per request: program counter, client id, demand
  held,          \* per request: creator of the Connection it works on
  prev, oc, new, \* per request: connCPrevious, cOverCommit, cNew
  rttLock,       \* rttLock holds its token
  upc, toVisit, total \* per updater: program counter, rest of Range, totalIssued

connVars == <<connOf, issued, lockIn, stampIn, fresh>>
poolVars == <<numClients, cTotal, cIssued>>
timeVars == <<queueingDelay, recent, primed, elapsed, ticks>>
reqLocal == <<cl, dem, held, prev, oc, new>>
updVars  == <<upc, toVisit, total, rttLock>>
vars == <<connVars, poolVars, timeVars, known, pc, reqLocal, updVars>>

Max2(a, b) == IF a >= b THEN a ELSE b
Min2(a, b) == IF a <= b THEN a ELSE b

Conns == Clients \X Requests
conn(r) == <<cl[r], held[r]>>

\* The result of converting a float64 infinity to int64 on amd64, scaled to TLC's integers.
IntMin == -1000000

\* math.Round of a / b for a >= 0 and b > 0.
RoundDiv(a, b) == (2 * a + b) \div (2 * b)

ReqPCs == {"idle", "aqm", "lookup", "register", "count", "lock", "reload", "take",
           "overcommit", "decide", "higher", "put", "add", "unlock", "stamp", "handle"}
UpdPCs == {"idle", "check", "try", "delay", "begin", "range", "set", "total"}

\* The steps between receiving issuedWriteLock and sending it back.
InCritical(r) == pc[r] \in {"reload", "take", "overcommit", "decide", "higher",
                            "put", "add", "unlock"}
\* The updater holds rttLock.
InRtt(u) == upc[u] \in {"delay", "begin", "range", "set", "total"}

Registered(c) == connOf[c] # NoConn

Goto(r, from, to) == pc[r] = from /\ pc' = [pc EXCEPT ![r] = to]
UGoto(u, from, to) == upc[u] = from /\ upc' = [upc EXCEPT ![u] = to]
-----------------------------------------------------------------------------
(* The arithmetic of the credit computation.                               *)

\* getAdditiveFactor
AdditiveFactor(n) == Max2(RoundDiv(APercent * n, 100), 1)

\* getMultiplicativeFactor, in percent, for a delay of at least thresholdDelay
MultiplicativePercent(d) == Max2(100 - BPercent * (d - 1), 50)

\* Mutant: the decrease is linear in the delay, without the floors.
TotalUnfloored(d) ==
  IF d < 1 THEN cTotal + AdditiveFactor(numClients)
           ELSE RoundDiv((100 - BPercent * d) * cTotal, 100)

\* getUpdatedTotalCredits, for the delay it reads
UpdatedTotal(d) ==
  IF d < 1 THEN cTotal + AdditiveFactor(numClients)
           ELSE Max2(RoundDiv(MultiplicativePercent(d) * cTotal, 100), 1)

\* calculateCreditsToOvercommit: float division by the number of clients, which is +Inf or
\* NaN when no client has been counted yet
CreditsToOvercommit ==
  LET spare == cTotal - cIssued
  IN  IF numClients = 0
      THEN IF spare < 0 THEN 1 ELSE IntMin
      ELSE IF spare <= numClients THEN 1 ELSE RoundDiv(spare, numClients)

\* getLowerCreditsIssued and getHigherCreditsIssued, both under max(cNew, 1)
LowerCredits(o, d, p) ==
  IF d + o < 0 THEN 1 ELSE Max2(Min2(d + o, p - 1), 1)
HigherCredits(o, d, p) ==
  IF d + o < 0 THEN 1 ELSE Max2(Min2(d + o, p + (cTotal - cIssued)), 1)
-----------------------------------------------------------------------------
\* The start of the server or, when Warm, the end of the next RTT period after a call without
\* metadata: its update took the first histogram and added the factor for no clients.
Init ==
  /\ connOf = [c \in Clients |-> NoConn]
  /\ issued = [c \in Clients |-> 0]
  /\ lockIn = {} /\ stampIn = {} /\ fresh = {}
  /\ numClients = 0 /\ cIssued = 0
  /\ cTotal = InitialCredits + (IF Warm THEN AdditiveFactor(0) ELSE 0)
  /\ queueingDelay = 0 /\ recent = 0 /\ primed = Warm
  /\ elapsed = TRUE \* lastUpdateTime is one second before the start
  /\ ticks = 0
  /\ known = {}
  /\ pc = [r \in Requests |-> "idle"]
  /\ cl = [r \in Requests |-> NoClient]
  /\ dem = [r \in Requests |-> 0]
  /\ held = [r \in Requests |-> NoConn]
  /\ prev = [r \in Requests |-> 0]
  /\ oc = [r \in Requests |-> 0]
  /\ new = [r \in Requests |-> 0]
  /\ \E u \in Updaters : upc = [v \in Updaters |-> IF v = u THEN "check" ELSE "idle"]
  /\ rttLock = TRUE
  /\ toVisit = [u \in Updaters |-> {}]
  /\ total = [u \in Updaters |-> 0]
-----------------------------------------------------------------------------
(* The environment: time, scheduling latency, calls.                       *)

Elapse ==
  /\ ~elapsed /\ ticks < MaxTicks
  /\ elapsed' = TRUE
  /\ ticks' = ticks + 1
  /\ UNCHANGED <<known, connVars, poolVars, queueingDelay, recent, primed, pc, reqLocal,
                 updVars>>

Latency(d) ==
  /\ d > recent
  /\ recent' = d
  /\ UNCHANGED <<known, connVars, poolVars, queueingDelay, primed, elapsed, ticks, pc,
                 reqLocal, updVars>>

Admitted == IF LoadShedding THEN "aqm" ELSE "lookup"

\* A call whose metadata carries demand and id.  Under Paced a client that has not been
\* answered yet has at most one call here (client_interceptor.go starts with one credit).
Arrive(r, c, d) ==
  /\ Paced /\ c \notin known => \A q \in Requests : cl[q] # c
  /\ Goto(r, "idle", Admitted)
  /\ cl' = [cl EXCEPT ![r] = c]
  /\ dem' = [dem EXCEPT ![r] = d]
  /\ UNCHANGED <<known, connVars, poolVars, timeVars, held, prev, oc, new, updVars>>

\* A call without them: it bypasses the credits and goes to the handler.
ArriveBare(r) ==
  /\ Goto(r, "idle", IF LoadShedding THEN "aqm" ELSE "handle")
  /\ UNCHANGED <<known, connVars, poolVars, timeVars, reqLocal, updVars>>

Forget(r) ==
  /\ cl' = [cl EXCEPT ![r] = NoClient]
  /\ dem' = [dem EXCEPT ![r] = 0]
  /\ held' = [held EXCEPT ![r] = NoConn]
  /\ prev' = [prev EXCEPT ![r] = 0]
  /\ oc' = [oc EXCEPT ![r] = 0]
  /\ new' = [new EXCEPT ![r] = 0]
-----------------------------------------------------------------------------
(* UnaryInterceptor, step by step.                                         *)

Shed(r) ==
  /\ queueingDelay >= 2
  /\ Goto(r, "aqm", "idle")
  /\ Forget(r)
  /\ UNCHANGED <<known, connVars, poolVars, timeVars, updVars>>

Pass(r) ==
  /\ queueingDelay < 2
  /\ Goto(r, "aqm", IF cl[r] = NoClient THEN "handle" ELSE "lookup")
  /\ UNCHANGED <<known, connVars, poolVars, timeVars, reqLocal, updVars>>

\* Mutant: the check whether the client exists is dropped.
LookupUnchecked(r) ==
  /\ Goto(r, "lookup", "register")
  /\ UNCHANGED <<known, connVars, poolVars, timeVars, reqLocal, updVars>>

\* RegisterClient's Load; when the client exists updateCreditsToIssue loads the Connection.
Lookup(r) ==
  LET c == cl[r] IN
  /\ Goto(r, "lookup", IF Registered(c) THEN "lock" ELSE "register")
  /\ held' = [held EXCEPT ![r] = connOf[c]]
  /\ UNCHANGED <<known, connVars, poolVars, timeVars, cl, dem, prev, oc, new, updVars>>

\* The new Connection and clientMap.Store.  Its lastUpdated is one second in the past: after
\* lastUpdateTime only when the last RTT update is older than that.
Register(r) ==
  LET c == cl[r] IN
  /\ Goto(r, "register", "count")
  /\ connOf' = [connOf EXCEPT ![c] = r]
  /\ issued' = [issued EXCEPT ![c] = 0]
  /\ lockIn' = lockIn \union {<<c, r>>}
  /\ stampIn' = stampIn \union {<<c, r>>}
  /\ fresh' \in {fresh} \union (IF elapsed THEN {fresh \union {<<c, r>>}} ELSE {})
  /\ UNCHANGED <<known, poolVars, timeVars, reqLocal, updVars>>

CountClient(r) ==
  /\ Goto(r, "count", "lock")
  /\ numClients' = numClients + 1
  /\ held' = [held EXCEPT ![r] = connOf[cl[r]]]
  /\ UNCHANGED <<known, connVars, cTotal, cIssued, timeVars, cl, dem, prev, oc, new,
                 updVars>>

\* Mutant: the receive does not wait for the token.
LockWithoutToken(r) ==
  /\ Goto(r, "lock", "reload")
  /\ lockIn' = lockIn \ {conn(r)}
  /\ UNCHANGED <<known, connOf, issued, stampIn, fresh, poolVars, timeVars, reqLocal,
                 updVars>>

Lock(r) ==
  /\ conn(r) \in lockIn
  /\ Goto(r, "lock", "reload")
  /\ lockIn' = lockIn \ {conn(r)}
  /\ UNCHANGED <<known, connOf, issued, stampIn, fresh, poolVars, timeVars, reqLocal,
                 updVars>>

Reload(r) ==
  /\ Goto(r, "reload", "take")
  /\ held' = [held EXCEPT ![r] = connOf[cl[r]]]
  /\ prev' = [prev EXCEPT ![r] = issued[cl[r]]]
  /\ UNCHANGED <<known, connVars, poolVars, timeVars, cl, dem, oc, new, updVars>>

\* Mutant: lastUpdated is read and left in the channel.
StampPeeked(r) ==
  /\ conn(r) \in stampIn
  /\ IF conn(r) \in fresh
     THEN /\ Goto(r, "take", "put")
          /\ new' = [new EXCEPT ![r] = Max2(prev[r] - 1, 1)]
     ELSE /\ Goto(r, "take", "overcommit")
          /\ UNCHANGED new
  /\ UNCHANGED <<known, connVars, poolVars, timeVars, cl, dem, held, prev, oc, updVars>>

TakeStamp(r) ==
  /\ conn(r) \in stampIn
  /\ stampIn' = stampIn \ {conn(r)}
  /\ IF conn(r) \in fresh
     THEN /\ Goto(r, "take", "put")
          /\ new' = [new EXCEPT ![r] = Max2(prev[r] - 1, 1)]
     ELSE /\ Goto(r, "take", "overcommit")
          /\ UNCHANGED new
  /\ UNCHANGED <<known, connOf, issued, lockIn, fresh, poolVars, timeVars, cl, dem, held,
                 prev, oc, updVars>>

Overcommit(r) ==
  /\ Goto(r, "overcommit", "decide")
  /\ oc' = [oc EXCEPT ![r] = CreditsToOvercommit]
  /\ UNCHANGED <<known, connVars, poolVars, timeVars, cl, dem, held, prev, new, updVars>>

DecideHigher(r) ==
  /\ cIssued < cTotal
  /\ Goto(r, "decide", "higher")
  /\ UNCHANGED <<known, connVars, poolVars, timeVars, reqLocal, updVars>>

DecideLower(r) ==
  /\ cIssued >= cTotal
  /\ Goto(r, "decide", "put")
  /\ new' = [new EXCEPT ![r] = LowerCredits(oc[r], dem[r], prev[r])]
  /\ UNCHANGED <<known, connVars, poolVars, timeVars, cl, dem, held, prev, oc, updVars>>

Higher(r) ==
  /\ Goto(r, "higher", "put")
  /\ new' = [new EXCEPT ![r] = HigherCredits(oc[r], dem[r], prev[r])]
  /\ UNCHANGED <<known, connVars, poolVars, timeVars, cl, dem, held, prev, oc, updVars>>

\* c.issued = cNew and clientMap.Store of the whole struct, channels included.
PutIssued(r) ==
  LET c == cl[r] IN
  /\ Goto(r, "put", "add")
  /\ connOf' = [connOf EXCEPT ![c] = held[r]]
  /\ issued' = [issued EXCEPT ![c] = new[r]]
  /\ UNCHANGED <<known, lockIn, stampIn, fresh, poolVars, timeVars, reqLocal, updVars>>

AddIssued(r) ==
  /\ Goto(r, "add", "unlock")
  /\ cIssued' = cIssued + (new[r] - prev[r])
  /\ UNCHANGED <<known, connVars, numClients, cTotal, timeVars, reqLocal, updVars>>

Unlock(r) ==
  /\ conn(r) \notin lockIn
  /\ Goto(r, "unlock", "stamp")
  /\ lockIn' = lockIn \union {conn(r)}
  /\ UNCHANGED <<known, connOf, issued, stampIn, fresh, poolVars, timeVars, reqLocal,
                 updVars>>

\* Mutant: the old lastUpdated time is sent back.
StampOldTime(r) ==
  /\ conn(r) \notin stampIn
  /\ Goto(r, "stamp", "handle")
  /\ stampIn' = stampIn \union {conn(r)}
  /\ UNCHANGED <<known, connOf, issued, lockIn, fresh, poolVars, timeVars, reqLocal, updVars>>

\* Mutant: lastUpdated is not sent back.
StampForgotten(r) ==
  /\ Goto(r, "stamp", "handle")
  /\ UNCHANGED <<known, connVars, poolVars, timeVars, reqLocal, updVars>>

Stamp(r) ==
  /\ conn(r) \notin stampIn
  /\ Goto(r, "stamp", "handle")
  /\ stampIn' = stampIn \union {conn(r)}
  /\ fresh' = fresh \union {conn(r)}
  /\ UNCHANGED <<known, connOf, issued, lockIn, poolVars, timeVars, reqLocal, updVars>>

\* The handler returns, `go b.rttUpdate()` starts, the response leaves with the header.
Handle(r, u) ==
  /\ Goto(r, "handle", "idle")
  /\ UGoto(u, "idle", "check")
  /\ Forget(r)
  /\ known' = known \union ({cl[r]} \ {NoClient})
  /\ UNCHANGED <<connVars, poolVars, timeVars, toVisit, total, rttLock>>
-----------------------------------------------------------------------------
(* rttUpdate, step by step.                                                *)

\* time.Since(lastUpdateTime), read before the lock is tried and not again.
CheckTime(u) ==
  /\ UGoto(u, "check", IF elapsed THEN "try" ELSE "idle")
  /\ UNCHANGED <<known, connVars, poolVars, timeVars, pc, reqLocal, toVisit, total, rttLock>>

\* Mutant: the update goes on without the token.
TryIgnoresLock(u) ==
  /\ UGoto(u, "try", IF LoadShedding THEN "delay" ELSE "begin")
  /\ rttLock' = FALSE
  /\ UNCHANGED <<known, connVars, poolVars, timeVars, pc, reqLocal, toVisit, total>>

\* isRTTUnlocked: take the lock or give up.
TryRttLock(u) ==
  /\ UGoto(u, "try", IF ~rttLock THEN "idle" ELSE IF LoadShedding THEN "delay" ELSE "begin")
  /\ rttLock' = FALSE
  /\ UNCHANGED <<known, connVars, poolVars, timeVars, pc, reqLocal, toVisit, total>>

\* getDelay: the largest latency since the last call, 0 on the first call.
GetDelay == IF primed THEN recent ELSE 0

ReportDelay(u) ==
  /\ UGoto(u, "delay", "begin")
  /\ queueingDelay' = GetDelay
  /\ recent' = 0 /\ primed' = TRUE
  /\ UNCHANGED <<known, connVars, poolVars, elapsed, ticks, pc, reqLocal, toVisit, total,
                 rttLock>>

\* lastUpdateTime = time.Now(), and Range starts.
BeginUpdate(u) ==
  /\ UGoto(u, "begin", "range")
  /\ elapsed' = FALSE
  /\ fresh' = {}
  /\ toVisit' = [toVisit EXCEPT ![u] = Clients]
  /\ total' = [total EXCEPT ![u] = 0]
  /\ UNCHANGED <<known, connOf, issued, lockIn, stampIn, poolVars, queueingDelay, recent,
                 primed, ticks, pc, reqLocal, rttLock>>

\* sync.Map.Range takes no snapshot: each key is read when it is visited.
RangeVisit(u, c) ==
  /\ upc[u] = "range" /\ c \in toVisit[u]
  /\ toVisit' = [toVisit EXCEPT ![u] = @ \ {c}]
  /\ total' = [total EXCEPT ![u] = @ + issued[c]]
  /\ upc' = [upc EXCEPT ![u] = IF toVisit[u] = {c} THEN "set" ELSE "range"]
  /\ UNCHANGED <<known, connVars, poolVars, timeVars, pc, reqLocal, rttLock>>

SetIssued(u) ==
  /\ UGoto(u, "set", "total")
  /\ cIssued' = total[u]
  /\ total' = [total EXCEPT ![u] = 0]
  /\ UNCHANGED <<known, connVars, numClients, cTotal, timeVars, pc, reqLocal, toVisit,
                 rttLock>>

\* getUpdatedTotalCredits calls getDelay again; then rttLock <- 1.
UpdateTotal(u) ==
  /\ UGoto(u, "total", "idle")
  /\ cTotal' = UpdatedTotal(GetDelay)
  /\ recent' = 0 /\ primed' = TRUE
  /\ rttLock' = TRUE
  /\ UNCHANGED <<known, connVars, numClients, cIssued, queueingDelay, elapsed, ticks, pc,
                 reqLocal, toVisit, total>>
-----------------------------------------------------------------------------
Credit(r) ==
  \/ Lookup(r) \/ Register(r) \/ CountClient(r)
  \/ Lock(r) \/ Reload(r) \/ TakeStamp(r)
  \/ Overcommit(r) \/ DecideHigher(r) \/ DecideLower(r) \/ Higher(r)
  \/ PutIssued(r) \/ AddIssued(r) \/ Unlock(r) \/ Stamp(r)

Serve(r) == Shed(r) \/ Pass(r) \/ Credit(r) \/ \E u \in Updaters : Handle(r, u)

Update(u) ==
  \/ CheckTime(u) \/ TryRttLock(u) \/ ReportDelay(u) \/ BeginUpdate(u)
  \/ \E c \in Clients : RangeVisit(u, c)
  \/ SetIssued(u) \/ UpdateTotal(u)

\* A client calls.
Load == \E r \in Requests : \E c \in Clients, d \in Demands : Arrive(r, c, d)

Next ==
  \/ Elapse
  \/ \E d \in Latencies : Latency(d)
  \/ Load
  \/ \E r \in Requests : ArriveBare(r)
  \/ \E r \in Requests : Serve(r)
  \/ \E u \in Updaters : Update(u)

Spec == Init /\ [][Next]_vars

\* The Go scheduler runs every runnable goroutine, and goroutines blocked on a channel are
\* queued first in, first out: SF for the receive of a lock others keep taking, WF for the
\* rest.
Fairness ==
  /\ \A r \in Requests :
       /\ WF_vars(Serve(r)) /\ SF_vars(Lock(r)) /\ SF_vars(TakeStamp(r))
       /\ SF_vars(\E u \in Updaters : Handle(r, u)) \* a free slot is only a bound
  /\ \A u \in Updaters : WF_vars(Update(u))

FairSpec == Spec /\ Fairness

-----------------------------------------------------------------------------
TypeOK ==
  /\ connOf \in [Clients -> Requests \union {NoConn}]
  /\ issued \in [Clients -> Int]
  /\ lockIn \subseteq Conns /\ stampIn \subseteq Conns /\ fresh \subseteq Conns
  /\ numClients \in Nat /\ cTotal \in Nat \ {0} /\ cIssued \in Int
  /\ queueingDelay \in Latencies \union {0} /\ recent \in Latencies \union {0}
  /\ primed \in BOOLEAN /\ elapsed \in BOOLEAN /\ ticks \in 0..MaxTicks
  /\ known \subseteq Clients
  /\ pc \in [Requests -> ReqPCs]
  /\ cl \in [Requests -> Clients \union {NoClient}]
  /\ dem \in [Requests -> Nat]
  /\ held \in [Requests -> Requests \union {NoConn}]
  /\ prev \in [Requests -> Int] /\ oc \in [Requests -> Int] /\ new \in [Requests -> Int]
  /\ upc \in [Updaters -> UpdPCs]
  /\ toVisit \in [Updaters -> SUBSET Clients]
  /\ total \in [Updaters -> Int]
  /\ rttLock \in BOOLEAN

\* Two calls of one client are never both between `<-c.issuedWriteLock` and
\* `c.issuedWriteLock <- 1`: the Connection they lock is the same one.
ConnMutex ==
  \A r, q \in Requests :
    InCritical(r) /\ InCritical(q) /\ cl[r] = cl[q] => r = q

\* The credits a call computes are computed from the number still stored for its client when
\* it stores the result: no grant of another call of that client is overwritten unseen.
IssueIsCurrent ==
  \A r \in Requests :
    pc[r] \in {"take", "overcommit", "decide", "higher", "put"} => prev[r] = issued[cl[r]]

\* The two sends that give a Connection's tokens back always find room in the channel, so a
\* call that has computed its credits goes on to the handler without waiting for another.
SendsNeverBlock ==
  \A r \in Requests :
    /\ pc[r] = "unlock" => conn(r) \notin lockIn
    /\ pc[r] = "stamp"  => conn(r) \notin stampIn

\* numClients is the number of clients in clientMap, less those whose registration has not
\* reached the counter yet; so the overcommitment never divides by zero.
ClientsCounted ==
  /\ numClients + Cardinality({r \in Requests : pc[r] = "count"})
       = Cardinality({c \in Clients : Registered(c)})
  /\ \A r \in Requests : pc[r] = "overcommit" => numClients > 0

\* rttUpdate runs its body in one goroutine at a time, and the token comes back: while nobody
\* is inside, the next one can enter.
RttSerial ==
  /\ rttLock <=> \A u \in Updaters : ~InRtt(u)
  /\ \A u, v \in Updaters : InRtt(u) /\ InRtt(v) => u = v

\* The grants of the interleaved calls are grants of the ledger.
Granted == {"add", "unlock", "stamp", "handle"}
NoGrant == 0
Ledger == INSTANCE CreditLedger WITH
  ledger <- issued,
  grants <- [r \in Requests |->
               IF pc[r] \in Granted /\ cl[r] # NoClient THEN new[r] ELSE NoGrant],
  mayRaise <- {c \in Clients :
                 /\ <<c, connOf[c]>> \notin fresh
                 /\ \A r \in Requests : cl[r] = c => pc[r] \notin {"add", "unlock", "stamp"}},
  due <- \E u \in Updaters : upc[u] = "begin"
LedgerSpec == Ledger!Spec

\* Every call the server accepts is answered: none waits for ever for a channel.
Answered == \A r \in Requests : pc[r] # "idle" ~> pc[r] = "idle"
=============================================================================
