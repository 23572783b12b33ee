---------------------------- MODULE RajomonPrices ----------------------------
(***************************************************************************)
(* The prices of one Rajomon node, aggregated by maximum as hotelApp sets   *)
(* it.  priceTableMap is a sync.Map: each Load, Store and visit of Range is *)
(* atomic, an operation made of several is not.  Three kinds of goroutine   *)
(* share it: every response of a downstream node updates the price of the   *)
(* method called (UpdateDownstreamPrice), queuingCheck moves the node's own *)
(* price, and every call that arrives reads both prices and is served or    *)
(* shed (LoadShedding).                                                     *)
(*                                                                         *)
(* Source: src/rajomon-main/tokenAndPrice.go, rajomon.go and               *)
(* overloadDetection.go.  The downstream nodes and the scheduler's latency  *)
(* are the environment.                                                     *)
(***************************************************************************)
EXTENDS Integers, FiniteSets

CONSTANTS
  Methods,
  Nodes,
  callMap,          \* method -> the nodes it calls
  Updates,          \* slots for responses being processed
  Requests,         \* slots for calls being admitted
  Prices,           \* prices a downstream node may quote
  Tokens,           \* tokens a call may carry
  Gaps,             \* maximal queueing delays between two ticks, in microseconds
  InitPrice,        \* initprice
  LoadShedding,     \* loadShedding
  Strategies,       \* priceStrategy may be "step", "expdecay" or any other name: no decay
  LatencyThreshold, \* in microseconds
  PriceStep,
  GuidePrice,       \* -1: none
  Decay,            \* run of increases -> decayRate to that power, in percent
  MaxRun,           \* the run after which Decay no longer changes
  MaxOwn,           \* bound: the own price does not grow above it
  MaxMoves,         \* bound: changes of the environment
  Nothing           \* what a free slot holds

ASSUME PricesAssumption ==
  /\ callMap \in [Methods -> SUBSET Nodes]
  /\ IsFiniteSet(Nodes)
  /\ Prices \subseteq Nat
  /\ Tokens \subseteq Nat
  /\ Gaps \subseteq Nat
  /\ InitPrice \in Prices
  /\ Nothing \notin [method : Methods, node : Nodes, price : Prices]
  /\ Nothing \notin [method : Methods, tokens : Tokens]
  /\ LoadShedding \in BOOLEAN
  /\ LatencyThreshold \in Nat
  /\ PriceStep \in Nat
  /\ GuidePrice \in Int
  /\ GuidePrice >= -1
  /\ MaxRun \in Nat
  /\ Decay \in [0 .. MaxRun -> 0 .. 100]
  /\ MaxOwn \in Nat
  /\ MaxMoves \in Nat

VARIABLES
  \* the price table
  own,        \* "ownprice"
  pair,       \* "method-node": the last price of a node for a method
  ds,         \* "method": the downstream price of a method
  run,        \* consecutiveIncreases
  \* responses being processed
  upc,        \* program counter
  resp,       \* the method, the node and the price of the response
  scanned,    \* nodes whose pair Range has visited
  top,        \* maxPrice
  \* calls being admitted
  rpc,        \* program counter
  call,       \* the method and the tokens
  ownSeen,    \* the own price it has loaded
  \* the environment
  priceStrategy, \* as configured, never changed
  quote,      \* the price each downstream node would answer with
  gap,        \* the queueing delay the next tick measures
  moves,      \* changes of quote and gap so far
  \* history, read by no action
  overlapped, \* methods two of whose responses were once processed together
  peak        \* the highest total price since the call's admission began

table == <<own, pair, ds, run>>
updVars == <<upc, resp, scanned, top>>
reqVars == <<rpc, call, ownSeen>>
envVars == <<priceStrategy, quote, gap, moves>>
vars == <<table, updVars, reqVars, envVars, overlapped, peak>>

\* math.MinInt64, where the search for the maximum starts.
NoPrice == -1
Responses == [method : Methods, node : Nodes, price : Prices]
Calls == [method : Methods, tokens : Tokens]

Max2(a, b) == IF a >= b THEN a ELSE b
\* Division of int64 truncates towards zero.
Quotient(a, b) == IF a >= 0 THEN a \div b ELSE -((-a) \div b)

\* RetrieveDSPrice
DSPrice(m) == IF callMap[m] = {} THEN 0 ELSE ds[m]
\* The price of a method on this node.
Total(o, m) == Max2(o, DSPrice(m))

Active(u) == upc[u] # "idle"

Init ==
  /\ own = InitPrice
  /\ pair = [e \in Methods \X Nodes |-> InitPrice]
  /\ ds = [m \in Methods |-> InitPrice]
  /\ run = 0
  /\ upc = [u \in Updates |-> "idle"]
  /\ resp = [u \in Updates |-> Nothing]
  /\ scanned = [u \in Updates |-> {}]
  /\ top = [u \in Updates |-> NoPrice]
  /\ rpc = [r \in Requests |-> "idle"]
  /\ call = [r \in Requests |-> Nothing]
  /\ ownSeen = [r \in Requests |-> 0]
  /\ priceStrategy \in Strategies
  /\ quote = [n \in Nodes |-> InitPrice]
  /\ gap = 0
  /\ moves = 0
  /\ overlapped = {}
  /\ peak = [r \in Requests |-> 0]
-----------------------------------------------------------------------------
(* UpdateDownstreamPrice, in the goroutine of the call to the node.         *)

UGoto(u, from, to) == upc[u] = from /\ upc' = [upc EXCEPT ![u] = to]

\* The node answers with its price in the header.
Reply(u, m, n) ==
  /\ n \in callMap[m]
  /\ UGoto(u, "idle", "pair")
  /\ resp' = [resp EXCEPT ![u] = [method |-> m, node |-> n, price |-> quote[n]]]
  /\ overlapped' = overlapped \union
       (IF \E w \in Updates : Active(w) /\ resp[w].method = m THEN {m} ELSE {})
  /\ UNCHANGED <<table, scanned, top, reqVars, envVars>>

StorePair(u) ==
  /\ UGoto(u, "pair", "old")
  /\ pair' = [pair EXCEPT ![<<resp[u].method, resp[u].node>>] = resp[u].price]
  /\ UNCHANGED <<own, ds, run, resp, scanned, top, reqVars, envVars, overlapped>>

\* A price above the stored one is the new maximum ...
Above(u) ==
  /\ UGoto(u, "old", "raise")
  /\ resp[u].price > ds[resp[u].method]
  /\ UNCHANGED <<table, resp, scanned, top, reqVars, envVars, overlapped>>

Raise(u) ==
  /\ UGoto(u, "raise", "idle")
  /\ ds' = [ds EXCEPT ![resp[u].method] = resp[u].price]
  /\ resp' = [resp EXCEPT ![u] = Nothing]
  /\ UNCHANGED <<own, pair, run, scanned, top, reqVars, envVars, overlapped>>

\* Mutant: a price that is not above the stored one changes nothing.
Ignored(u) ==
  /\ UGoto(u, "old", "idle")
  /\ ~(resp[u].price > ds[resp[u].method])
  /\ resp' = [resp EXCEPT ![u] = Nothing]
  /\ UNCHANGED <<table, scanned, top, reqVars, envVars, overlapped>>

\* ... otherwise the maximum is searched.
NotAbove(u) ==
  /\ UGoto(u, "old", "scan")
  /\ ~(resp[u].price > ds[resp[u].method])
  /\ UNCHANGED <<table, resp, scanned, top, reqVars, envVars, overlapped>>

\* Range visits the keys in no particular order.
Scan(u, n) ==
  /\ upc[u] = "scan"
  /\ n \in callMap[resp[u].method] \ scanned[u]
  /\ scanned' = [scanned EXCEPT ![u] = @ \union {n}]
  /\ top' = [top EXCEPT ![u] = Max2(@, pair[<<resp[u].method, n>>])]
  /\ UNCHANGED <<table, upc, resp, reqVars, envVars, overlapped>>

\* Mutant: the response's own price is stored, not the maximum.
StoreOwn(u) ==
  /\ UGoto(u, "scan", "idle")
  /\ scanned[u] = callMap[resp[u].method]
  /\ ds' = [ds EXCEPT ![resp[u].method] = resp[u].price]
  /\ resp' = [resp EXCEPT ![u] = Nothing]
  /\ scanned' = [scanned EXCEPT ![u] = {}]
  /\ top' = [top EXCEPT ![u] = NoPrice]
  /\ UNCHANGED <<own, pair, run, reqVars, envVars, overlapped>>

StoreMax(u) ==
  /\ UGoto(u, "scan", "idle")
  /\ scanned[u] = callMap[resp[u].method]
  /\ ds' = [ds EXCEPT ![resp[u].method] = top[u]]
  /\ resp' = [resp EXCEPT ![u] = Nothing]
  /\ scanned' = [scanned EXCEPT ![u] = {}]
  /\ top' = [top EXCEPT ![u] = NoPrice]
  /\ UNCHANGED <<own, pair, run, reqVars, envVars, overlapped>>

Update(u) ==
  \/ StorePair(u) \/ Above(u) \/ Raise(u) \/ NotAbove(u) \/ StoreMax(u)
  \/ \E n \in Nodes : Scan(u, n)
-----------------------------------------------------------------------------
(* queuingCheck, one tick after the other in one goroutine: nothing else    *)
(* stores the own price, so a tick is one step.                            *)

\* overloadDetection and UpdateOwnPrice
Overloaded == gap > LatencyThreshold

Stepped ==
  IF Overloaded
    THEN IF GuidePrice > -1 THEN GuidePrice ELSE own + PriceStep
    ELSE IF own > 0 THEN own - 1 ELSE own

\* UpdatePrice
Reserve == Max2(GuidePrice, 0)
Adjustment == Quotient((gap - LatencyThreshold) * PriceStep, 10000)
Decayed(a) ==
  IF priceStrategy = "expdecay" /\ a > 0 /\ run >= 2 THEN (a * Decay[run]) \div 100 ELSE a
\* Mutants: no floor, and a floor that keeps the old price.
Unfloored == own + Decayed(Adjustment)
KeptAtFloor == IF own + Decayed(Adjustment) <= Reserve THEN own ELSE own + Decayed(Adjustment)

Adjusted == Max2(own + Decayed(Adjustment), Reserve)

Longer ==
  IF priceStrategy # "expdecay" \/ Adjustment = 0 THEN run
  ELSE IF Adjustment < 0 THEN 0
  ELSE IF run < MaxRun THEN run + 1 ELSE run

Tick ==
  /\ own' = IF priceStrategy = "step" THEN Stepped ELSE Adjusted
  /\ own' <= Max2(own, MaxOwn)
  /\ run' = IF priceStrategy = "step" THEN run ELSE Longer
  /\ UNCHANGED <<pair, ds, updVars, reqVars, envVars, overlapped>>
-----------------------------------------------------------------------------
(* UnaryInterceptor and LoadShedding.                                       *)

Arrive(r, m, t) ==
  /\ rpc[r] = "idle"
  /\ rpc' = [rpc EXCEPT ![r] = "own"]
  /\ call' = [call EXCEPT ![r] = [method |-> m, tokens |-> t]]
  /\ UNCHANGED <<table, updVars, ownSeen, envVars, overlapped>>

LoadOwn(r) ==
  /\ rpc[r] = "own"
  /\ rpc' = [rpc EXCEPT ![r] = "ds"]
  /\ ownSeen' = [ownSeen EXCEPT ![r] = own]
  /\ UNCHANGED <<table, updVars, call, envVars, overlapped>>

\* Mutant: a call whose tokens just pay the price is shed.
DecideAtPrice(r) ==
  LET c == call[r] IN
  /\ rpc[r] = "ds"
  /\ rpc' = [rpc EXCEPT ![r] =
               IF LoadShedding /\ c.tokens <= Total(ownSeen[r], c.method) THEN "shed" ELSE "serve"]
  /\ UNCHANGED <<table, updVars, call, ownSeen, envVars, overlapped>>

\* The downstream price is loaded and the tokens compared with the larger of the two.
Decide(r) ==
  LET c == call[r] IN
  /\ rpc[r] = "ds"
  /\ rpc' = [rpc EXCEPT ![r] =
               IF LoadShedding /\ c.tokens < Total(ownSeen[r], c.method) THEN "shed" ELSE "serve"]
  /\ UNCHANGED <<table, updVars, call, ownSeen, envVars, overlapped>>

\* The handler, if the call is served, and the response.
Return(r) ==
  /\ rpc[r] \in {"shed", "serve"}
  /\ rpc' = [rpc EXCEPT ![r] = "idle"]
  /\ call' = [call EXCEPT ![r] = Nothing]
  /\ ownSeen' = [ownSeen EXCEPT ![r] = 0]
  /\ UNCHANGED <<table, updVars, envVars, overlapped>>
-----------------------------------------------------------------------------
(* The environment.                                                         *)

Requote(n, p) ==
  /\ moves < MaxMoves
  /\ moves' = moves + 1
  /\ p # quote[n]
  /\ quote' = [quote EXCEPT ![n] = p]
  /\ UNCHANGED <<table, updVars, reqVars, priceStrategy, gap, overlapped>>

Load(g) ==
  /\ moves < MaxMoves
  /\ moves' = moves + 1
  /\ g # gap
  /\ gap' = g
  /\ UNCHANGED <<table, updVars, reqVars, priceStrategy, quote, overlapped>>

\* The history variable peak follows the total price while the call is judged.
Watch ==
  peak' = [r \in Requests |->
             IF rpc'[r] = "idle" THEN 0
             ELSE IF rpc'[r] \in {"own", "ds"} THEN Max2(peak[r], Total(own, call[r].method)')
             ELSE peak[r]]

Step ==
  \/ \E u \in Updates, m \in Methods, n \in Nodes : Reply(u, m, n)
  \/ \E u \in Updates : Update(u)
  \/ Tick
  \/ \E r \in Requests : \/ \E m \in Methods, t \in Tokens : Arrive(r, m, t)
                         \/ LoadOwn(r) \/ Decide(r) \/ Return(r)
  \/ \E n \in Nodes, p \in Prices : Requote(n, p)
  \/ \E g \in Gaps : Load(g)

Next == Step /\ Watch

Spec == Init /\ [][Next]_vars

\* Goroutines that can run do, and the ticker of queuingCheck goes on.
Fairness ==
  /\ \A u \in Updates : WF_vars(Update(u) /\ Watch)
  /\ WF_vars(Tick /\ Watch)

FairSpec == Spec /\ Fairness
-----------------------------------------------------------------------------
UPCs == {"idle", "pair", "old", "raise", "scan"}
RPCs == {"idle", "own", "ds", "shed", "serve"}

\* The type of the variables.
TypeOK ==
  /\ own \in Nat
  /\ pair \in [Methods \X Nodes -> Prices]
  /\ ds \in [Methods -> Prices \union {NoPrice}]
  /\ run \in 0 .. MaxRun
  /\ upc \in [Updates -> UPCs]
  /\ resp \in [Updates -> Responses \union {Nothing}]
  /\ scanned \in [Updates -> SUBSET Nodes]
  /\ top \in [Updates -> Prices \union {NoPrice}]
  /\ rpc \in [Requests -> RPCs]
  /\ call \in [Requests -> Calls \union {Nothing}]
  /\ ownSeen \in [Requests -> Nat]
  /\ priceStrategy \in Strategies
  /\ quote \in [Nodes -> Prices]
  /\ gap \in Nat
  /\ moves \in 0 .. MaxMoves
  /\ overlapped \subseteq Methods
  /\ peak \in [Requests -> Int]

\* v is the largest price the table holds of the nodes the method calls.
IsMax(m, v) ==
  /\ \A n \in callMap[m] : pair[<<m, n>>] <= v
  /\ \E n \in callMap[m] : pair[<<m, n>>] = v

\* A method whose responses were never processed two at a time has, between them, the maximum
\* of its nodes' prices as its downstream price: the two ways UpdateDownstreamPrice takes (raise
\* without a search, search otherwise) agree.  Responses that overlap may leave another price.
ExactUnlessOverlapped ==
  \A m \in Methods :
    (callMap[m] # {} /\ m \notin overlapped /\ ~ \E u \in Updates : Active(u) /\ resp[u].method = m)
      => IsMax(m, ds[m])

\* A call is shed only if some total price in force while it was judged was above its
\* tokens, although its own and its downstream price are loaded at different times.
ShedJustified ==
  \A r \in Requests : rpc[r] = "shed" => call[r].tokens < peak[r]

\* However responses overlap, once the nodes' prices have settled and each of them keeps
\* answering, the downstream price becomes their maximum and stays it.
Settles ==
  \A m \in Methods :
    callMap[m] # {} /\ (\A n \in callMap[m] : []<><<\E u \in Updates : Reply(u, m, n)>>_vars)
      => <>[](/\ \A n \in callMap[m] : quote[n] <= ds[m]
              /\ \E n \in callMap[m] : quote[n] = ds[m])

\* The delay is below the threshold, by enough for the truncating division not to yield zero.
Relieved ==
  /\ gap < LatencyThreshold
  /\ priceStrategy # "step" => (LatencyThreshold - gap) * PriceStep >= 10000

\* Once the node stays relieved its own price falls back to its floor, however high the
\* overload has driven it and whatever the run of increases was.
Relaxes == <>[]Relieved => <>[](own = IF priceStrategy = "step" THEN 0 ELSE Reserve)
=============================================================================
