--------------------------- MODULE RajomonProofs ---------------------------
(***************************************************************************)
(* What holds of the price table for every set of methods, nodes, calls and *)
(* responses in flight: its types, that the downstream price of a method is *)
(* the maximum of its nodes' unless responses for it overlapped, and that a *)
(* call is shed only when the price was above its tokens.  And what holds   *)
(* of an end user's tokens for every number of calls.                       *)
(***************************************************************************)
EXTENDS RajomonPrices, RajomonTokens, TLAPS

Method(u) == resp[u].method
Key(u) == <<resp[u].method, resp[u].node>>

\* A slot in use holds a response of a node the method calls, a call its metadata; the
\* search's variables are clean outside the search.
SlotsInv ==
  /\ \A u \in Updates :
       /\ Active(u) => resp[u] \in Responses /\ resp[u].node \in callMap[resp[u].method]
       /\ upc[u] # "scan" => scanned[u] = {} /\ top[u] = NoPrice
       /\ upc[u] = "scan" => scanned[u] \subseteq callMap[resp[u].method]
  /\ \A r \in Requests : rpc[r] # "idle" => call[r] \in Calls

\* TypeOK but for the history variable peak, which follows from the rest.
BaseInv ==
  /\ own \in Nat
  /\ pair \in [Methods \X Nodes -> Prices]
  /\ ds \in [Methods -> Prices \union {NoPrice}]
  /\ run \in 0 .. MaxRun
  /\ upc \in [Updates -> UPCs]
  /\ resp \in [Updates -> Responses \union {Nothing}]
  /\ scanned \in [Updates -> SUBSET Nodes]
  /\ top \in [Updates -> Prices \union {NoPrice}]
  /\ rpc \in [Requests -> RPCs]
  /\ call \in [Requests -> Calls \union {Nothing}]
  /\ ownSeen \in [Requests -> Nat]
  /\ priceStrategy \in Strategies
  /\ quote \in [Nodes -> Prices]
  /\ gap \in Nat
  /\ moves \in 0 .. MaxMoves
  /\ overlapped \subseteq Methods
  /\ SlotsInv

TypeInv == TypeOK /\ SlotsInv

\* Two responses of one method are in progress only when the history says so.
AloneInv ==
  \A u, w \in Updates :
    Active(u) /\ Active(w) /\ u # w /\ Method(u) = Method(w) => Method(u) \in overlapped

\* The prices a search has seen are at most top, which is one of them.
Searched(u) ==
  /\ \A n \in scanned[u] : pair[<<Method(u), n>>] <= top[u]
  /\ scanned[u] = {} => top[u] = NoPrice
  /\ scanned[u] # {} => \E n \in scanned[u] : pair[<<Method(u), n>>] = top[u]

\* What the lone response of a method knows of the table at each of its steps.
Knows(u) ==
  /\ upc[u] = "pair" => IsMax(Method(u), ds[Method(u)])
  /\ upc[u] \in {"old", "raise"} =>
       /\ pair[Key(u)] = resp[u].price
       /\ \A n \in callMap[Method(u)] \ {resp[u].node} : pair[<<Method(u), n>>] <= ds[Method(u)]
  /\ upc[u] = "raise" => resp[u].price > ds[Method(u)]
  /\ upc[u] = "scan" => Searched(u)

KnowsInv == \A u \in Updates : Active(u) /\ Method(u) \notin overlapped => Knows(u)

TableInv == AloneInv /\ KnowsInv /\ ExactUnlessOverlapped

\* While a call is judged peak bounds the price in force and the own price it has loaded.
PeakInv ==
  \A r \in Requests :
    /\ rpc[r] \in {"own", "ds"} => Total(own, call[r].method) <= peak[r]
    /\ rpc[r] = "ds" => ownSeen[r] <= peak[r]
    /\ rpc[r] = "shed" => call[r].tokens < peak[r]
-----------------------------------------------------------------------------
(* Types.                                                                   *)

LEMMA PriceTypes ==
  /\ Prices \subseteq Nat /\ NoPrice \in Int /\ InitPrice \in Prices
  /\ \A p \in Prices \union {NoPrice} : p \in Int
BY PricesAssumption DEF PricesAssumption, NoPrice

LEMMA TypeInit == Init => TypeInv
<1> SUFFICES ASSUME Init PROVE TypeInv
  OBVIOUS
<1> USE PricesAssumption, PriceTypes DEF PricesAssumption, Init
<1>1. TypeOK
  BY DEF TypeOK, UPCs, RPCs, Responses, Calls
<1>2. SlotsInv
  BY DEF SlotsInv, Active
<1> QED
  BY <1>1, <1>2 DEF TypeInv

\* Every reachable own price is a natural number.
\* Every own price a tick stores is a natural number.
LEMMA TickType ==
  ASSUME BaseInv, Tick
  PROVE  own' \in Nat /\ run' \in 0 .. MaxRun
<1>0. /\ own \in Nat /\ run \in 0 .. MaxRun /\ gap \in Nat
      /\ LatencyThreshold \in Nat /\ PriceStep \in Nat /\ GuidePrice \in Int /\ MaxRun \in Nat
      /\ Decay \in [0 .. MaxRun -> 0 .. 100]
  BY PricesAssumption DEF PricesAssumption, BaseInv
<1>1. Adjustment \in Int
  <2>1. (gap - LatencyThreshold) * PriceStep \in Int
    BY <1>0
  <2> QED
    BY <2>1 DEF Adjustment, Quotient
<1>2. Decayed(Adjustment) \in Int
  <2>1. Decay[run] \in 0 .. 100
    BY <1>0
  <2>2. Decay[run] \in Int
    BY <2>1
  <2>3. Adjustment * Decay[run] \in Int
    BY <1>1, <2>2
  <2> QED
    BY <1>1, <2>3 DEF Decayed
<1>3. Adjusted \in Nat
  BY <1>0, <1>2 DEF Adjusted, Max2, Reserve
<1>4. Stepped \in Nat
  BY <1>0 DEF Stepped
<1>5. Longer \in 0 .. MaxRun
  BY <1>0, <1>1 DEF Longer
<1> QED
  BY <1>0, <1>3, <1>4, <1>5 DEF Tick

LEMMA BaseStep == BaseInv /\ Step => BaseInv'
<1> SUFFICES ASSUME BaseInv, Step PROVE BaseInv'
  OBVIOUS
<1> USE PricesAssumption, PriceTypes DEF PricesAssumption, BaseInv, SlotsInv, Active,
        UGoto, UPCs, RPCs, Responses, Calls, table, updVars, reqVars, envVars
<1>1. ASSUME NEW u \in Updates, NEW m \in Methods, NEW n \in Nodes, Reply(u, m, n)
      PROVE  BaseInv'
  BY <1>1 DEF Reply
<1>2. ASSUME NEW u \in Updates, Update(u)
      PROVE  BaseInv'
  <2>1. CASE StorePair(u)
    BY <2>1 DEF StorePair
  <2>2. CASE Above(u)
    BY <2>2 DEF Above
  <2>3. CASE Raise(u)
    BY <2>3 DEF Raise
  <2>4. CASE NotAbove(u)
    BY <2>4 DEF NotAbove
  <2>5. CASE StoreMax(u)
    BY <2>5 DEF StoreMax
  <2>6. ASSUME NEW n \in Nodes, Scan(u, n) PROVE BaseInv'
    BY <2>6 DEF Scan, Max2
  <2> QED
    BY <1>2, <2>1, <2>2, <2>3, <2>4, <2>5, <2>6 DEF Update
<1>3. CASE Tick
  BY <1>3, TickType DEF Tick
<1>4. ASSUME NEW r \in Requests,
             (\E m \in Methods, t \in Tokens : Arrive(r, m, t)) \/ LoadOwn(r) \/ Decide(r) \/ Return(r)
      PROVE  BaseInv'
  <2>1. ASSUME NEW m \in Methods, NEW t \in Tokens, Arrive(r, m, t) PROVE BaseInv'
    BY <2>1 DEF Arrive
  <2>2. CASE LoadOwn(r)
    BY <2>2 DEF LoadOwn
  <2>3. CASE Decide(r)
    BY <2>3 DEF Decide
  <2>4. CASE Return(r)
    BY <2>4 DEF Return
  <2> QED
    BY <1>4, <2>1, <2>2, <2>3, <2>4
<1>5. ASSUME NEW n \in Nodes, NEW p \in Prices, Requote(n, p)
      PROVE  BaseInv'
  BY <1>5 DEF Requote
<1>6. ASSUME NEW g \in Gaps, Load(g)
      PROVE  BaseInv'
  <2>1. g \in Nat /\ moves + 1 \in 0 .. MaxMoves
    BY <1>6 DEF Load
  <2> QED
    BY <1>6, <2>1 DEF Load
<1> QED
  BY <1>1, <1>2, <1>3, <1>4, <1>5, <1>6 DEF Step

LEMMA TotalType ==
  ASSUME NEW o \in Nat, NEW m \in Methods, ds[m] \in Prices \union {NoPrice}
  PROVE  Total(o, m) \in Int
<1>1. ds[m] \in Int
  BY PriceTypes
<1>2. DSPrice(m) \in Int
  BY <1>1 DEF DSPrice
<1> QED
  BY <1>2 DEF Total, Max2

LEMMA TotalTypeNext ==
  ASSUME BaseInv', NEW r \in Requests, rpc'[r] # "idle"
  PROVE  Total(own, call[r].method)' \in Int
<1>1. call'[r].method \in Methods /\ own' \in Nat
  BY DEF BaseInv, SlotsInv, Calls
<1>2. ds'[call'[r].method] \in Prices \union {NoPrice}
  BY <1>1 DEF BaseInv
<1>3. ds'[call'[r].method] \in Int
  BY <1>2, PriceTypes
<1>4. DSPrice(call[r].method)' \in Int
  BY <1>3 DEF DSPrice
<1> QED
  BY <1>1, <1>4 DEF Total, Max2

LEMMA TypeStep == TypeInv /\ [Next]_vars => TypeInv'
<1> SUFFICES ASSUME TypeInv, [Next]_vars PROVE TypeInv'
  OBVIOUS
<1>1. CASE UNCHANGED vars
  BY <1>1 DEF vars, table, updVars, reqVars, envVars, TypeInv, TypeOK, SlotsInv, Active
<1>2. CASE Next
  <2>1. BaseInv /\ peak \in [Requests -> Int]
    BY DEF TypeInv, TypeOK, BaseInv
  <2>2. BaseInv'
    BY <1>2, <2>1, BaseStep DEF Next
  <2>3. \A r \in Requests : rpc'[r] # "idle" => Total(own, call[r].method)' \in Int
    BY <2>2, TotalTypeNext
  <2>4. peak' \in [Requests -> Int]
    BY <1>2, <2>1, <2>3 DEF Next, Watch, Max2
  <2> QED
    BY <2>2, <2>4 DEF TypeInv, TypeOK, BaseInv
<1> QED
  BY <1>1, <1>2

\* The types hold in every reachable state: prices, tokens and the search's maximum stay
\* in range whatever responses, ticks and calls do to each other.
THEOREM PricesTypeCorrect == Spec => []TypeOK
<1>1. Init => TypeInv
  BY TypeInit
<1>2. TypeInv /\ [Next]_vars => TypeInv'
  BY TypeStep
<1>3. TypeInv => TypeOK
  BY DEF TypeInv
<1> QED
  BY <1>1, <1>2, <1>3, PTL DEF Spec
-----------------------------------------------------------------------------
(* The downstream price.                                                    *)

\* What a step that leaves the table and the responses alone preserves.
LEMMA TableFrame ==
  ASSUME TableInv, UNCHANGED <<pair, ds, updVars, overlapped>>
  PROVE  TableInv'
BY DEF TableInv, AloneInv, KnowsInv, Knows, Searched, ExactUnlessOverlapped, IsMax, Active,
       Method, Key, updVars

\* A step of a response leaves what the lone responses of other methods know.
LEMMA OthersKnow ==
  ASSUME TypeInv, TableInv, NEW u \in Updates, Active(u),
         NEW w \in Updates, w # u, Active(w), Method(w) \notin overlapped
  PROVE  Method(w) # Method(u) /\ Knows(w)
BY DEF TableInv, AloneInv, KnowsInv

LEMMA ReplyTable ==
  ASSUME TypeInv, TableInv, NEW u \in Updates, NEW m \in Methods, NEW n \in Nodes,
         Reply(u, m, n)
  PROVE  TableInv'
<1>1. /\ upc[u] = "idle" /\ upc' = [upc EXCEPT ![u] = "pair"] /\ n \in callMap[m]
      /\ resp' = [resp EXCEPT ![u] = [method |-> m, node |-> n, price |-> quote[n]]]
      /\ pair' = pair /\ ds' = ds /\ scanned' = scanned /\ top' = top
      /\ overlapped \subseteq overlapped'
      /\ (\E w \in Updates : Active(w) /\ Method(w) = m) => m \in overlapped'
  BY DEF Reply, UGoto, table, Method
<1>2. upc \in [Updates -> UPCs] /\ resp \in [Updates -> Responses \union {Nothing}]
  BY DEF TypeInv, TypeOK
<1>3. /\ ~Active(u) /\ Active(u)' /\ Method(u)' = m
      /\ \A w \in Updates \ {u} : (Active(w)' <=> Active(w)) /\ resp'[w] = resp[w] /\ upc'[w] = upc[w]
  BY <1>1, <1>2 DEF Active, Method
<1>4. AloneInv'
  BY <1>1, <1>3 DEF TableInv, AloneInv, Method
<1>5. ASSUME NEW w \in Updates, Active(w)', Method(w)' \notin overlapped'
      PROVE  Knows(w)'
  <2>1. CASE w = u
    <3>1. \A v \in Updates : ~(Active(v) /\ resp[v].method = m)
      BY <1>1, <1>3, <1>5, <2>1 DEF Method
    <3>2. IsMax(m, ds[m])
      BY <1>1, <1>3, <1>5, <2>1, <3>1 DEF TableInv, ExactUnlessOverlapped
    <3>3. IsMax(m, ds[m])'
      BY <1>1, <3>2 DEF IsMax
    <3> QED
      BY <1>1, <1>2, <1>3, <2>1, <3>3 DEF Knows
  <2>2. CASE w # u
    <3>1. Active(w) /\ Method(w) \notin overlapped
      BY <1>1, <1>3, <1>5, <2>2 DEF Method
    <3>2. Knows(w)
      BY <3>1 DEF TableInv, KnowsInv
    <3> QED
      BY <1>1, <1>3, <2>2, <3>2 DEF Knows, Searched, IsMax, Method, Key
  <2> QED
    BY <2>1, <2>2
<1>6. ExactUnlessOverlapped'
  <2> SUFFICES ASSUME NEW k \in Methods, callMap[k] # {}, k \notin overlapped',
                      ~ \E w \in Updates : Active(w)' /\ Method(w)' = k
               PROVE  IsMax(k, ds[k])'
    BY DEF ExactUnlessOverlapped, Method
  <2>1. ~ \E w \in Updates : Active(w) /\ resp[w].method = k
    BY <1>3 DEF Method
  <2>2. IsMax(k, ds[k])
    BY <1>1, <2>1 DEF TableInv, ExactUnlessOverlapped
  <2> QED
    BY <1>1, <2>2 DEF IsMax
<1> QED
  BY <1>4, <1>5, <1>6 DEF TableInv, KnowsInv

\* A step of response u which touches at most the prices of its own method, and after which u
\* knows what it should or, done, leaves the maximum.
LEMMA OwnStep ==
  ASSUME TypeInv, TableInv, NEW u \in Updates, Active(u), overlapped' = overlapped,
         NEW m, m = Method(u),
         \A w \in Updates \ {u} : /\ upc'[w] = upc[w] /\ resp'[w] = resp[w]
                                 /\ scanned'[w] = scanned[w] /\ top'[w] = top[w],
         Active(u)' => resp'[u] = resp[u],
         \A k \in Methods \ {m} :
           ds'[k] = ds[k] /\ \A n \in Nodes : pair'[<<k, n>>] = pair[<<k, n>>],
         m \notin overlapped /\ Active(u)' => Knows(u)',
         m \notin overlapped /\ ~Active(u)' => IsMax(m, ds[m])'
  PROVE  TableInv'
<1>0. /\ \A w \in Updates : Active(w) => Method(w) \in Methods /\ resp[w].node \in Nodes
      /\ \A k \in Methods : callMap[k] \subseteq Nodes
      /\ \A w \in Updates : scanned[w] \subseteq Nodes
  BY PricesAssumption DEF PricesAssumption, TypeInv, TypeOK, SlotsInv, Responses, Method
<1>1. \A w \in Updates \ {u} : (Active(w)' <=> Active(w)) /\ Method(w)' = Method(w)
  BY DEF Active, Method
<1>2. AloneInv'
  BY <1>1 DEF TableInv, AloneInv, Method
<1>3. ASSUME NEW w \in Updates, Active(w)', Method(w)' \notin overlapped'
      PROVE  Knows(w)'
  <2>1. CASE w = u
    BY <1>3, <2>1 DEF Method
  <2>2. CASE w # u
    <3>1. Active(w) /\ Method(w) \notin overlapped
      BY <1>1, <1>3, <2>2
    <3>2. Method(w) # Method(u) /\ Knows(w)
      BY <2>2, <3>1, OthersKnow
    <3>3. Method(w) \in Methods \ {Method(u)} /\ resp[w].node \in Nodes
      BY <1>0, <3>1, <3>2
    <3>4. /\ upc'[w] = upc[w] /\ resp'[w] = resp[w] /\ Method(w)' = Method(w) /\ Key(w)' = Key(w)
          /\ scanned'[w] = scanned[w] /\ top'[w] = top[w] /\ ds'[Method(w)] = ds[Method(w)]
          /\ \A n \in Nodes : pair'[<<Method(w), n>>] = pair[<<Method(w), n>>]
          /\ Key(w) = <<Method(w), resp[w].node>>
      BY <2>2, <3>3 DEF Method, Key
    <3>5. callMap[Method(w)] \subseteq Nodes /\ scanned[w] \subseteq Nodes
      BY <1>0, <3>3
    <3> QED
      BY <3>2, <3>3, <3>4, <3>5 DEF Knows, Searched, IsMax
  <2> QED
    BY <2>1, <2>2
<1>4. ASSUME NEW k \in Methods, callMap[k] # {}, k \notin overlapped',
             ~ \E w \in Updates : Active(w)' /\ Method(w)' = k
      PROVE  IsMax(k, ds[k])'
  <2>1. CASE k = m
    <3>1. ~Active(u)'
      BY <1>4, <2>1 DEF Method
    <3> QED
      BY <1>4, <2>1, <3>1
  <2>2. CASE k # m
    <3>1. ~ \E w \in Updates : Active(w) /\ resp[w].method = k
      BY <1>1, <1>4, <2>2 DEF Method
    <3>2. IsMax(k, ds[k])
      BY <1>4, <3>1 DEF TableInv, ExactUnlessOverlapped
    <3>3. ds'[k] = ds[k] /\ callMap[k] \subseteq Nodes /\ \A n \in Nodes : pair'[<<k, n>>] = pair[<<k, n>>]
      BY <1>0, <2>2
    <3> QED
      BY <3>2, <3>3 DEF IsMax
  <2> QED
    BY <2>1, <2>2
<1> QED
  BY <1>2, <1>3, <1>4 DEF TableInv, KnowsInv, ExactUnlessOverlapped, Method

\* Every step of UpdateDownstreamPrice keeps what the responses know of the table.
LEMMA UpdateTable ==
  ASSUME TypeInv, TableInv, NEW u \in Updates, Update(u)
  PROVE  TableInv'
<1> SUFFICES ASSUME NEW m, m = Method(u) PROVE TableInv'
  OBVIOUS
<1>0. /\ upc \in [Updates -> UPCs] /\ resp \in [Updates -> Responses \union {Nothing}]
      /\ scanned \in [Updates -> SUBSET Nodes] /\ top \in [Updates -> Prices \union {NoPrice}]
      /\ pair \in [Methods \X Nodes -> Prices] /\ ds \in [Methods -> Prices \union {NoPrice}]
  BY DEF TypeInv, TypeOK
<1>1. upc[u] \in {"pair", "old", "raise", "scan"} /\ Active(u)
  BY DEF Update, StorePair, Above, Raise, NotAbove, StoreMax, Scan, UGoto, Active
<1>2. /\ m \in Methods /\ resp[u].node \in callMap[m] /\ resp[u].node \in Nodes
      /\ resp[u].price \in Prices /\ callMap[m] \subseteq Nodes /\ Key(u) = <<m, resp[u].node>>
      /\ upc[u] # "scan" => scanned[u] = {} /\ top[u] = NoPrice
      /\ upc[u] = "scan" => scanned[u] \subseteq callMap[m]
  BY <1>1, PricesAssumption
     DEF PricesAssumption, TypeInv, SlotsInv, Responses, Method, Key
<1>3. m \notin overlapped => Knows(u)
  BY <1>1 DEF TableInv, KnowsInv
<1>4. \A n \in Nodes : pair[<<m, n>>] \in Int
  BY <1>0, <1>2, PriceTypes
<1>5. resp[u].price \in Int /\ ds[m] \in Int /\ top[u] \in Int
  <2>1. ds[m] \in Prices \union {NoPrice} /\ top[u] \in Prices \union {NoPrice}
    BY <1>0, <1>2
  <2> QED
    BY <1>2, <2>1, PriceTypes
<1>6. CASE StorePair(u)
  <2>1. /\ upc[u] = "pair" /\ upc' = [upc EXCEPT ![u] = "old"]
        /\ pair' = [pair EXCEPT ![Key(u)] = resp[u].price]
        /\ UNCHANGED <<ds, resp, scanned, top, overlapped>>
    BY <1>6 DEF StorePair, UGoto, Key
  <2>2. \A k \in Methods, n \in Nodes :
          pair'[<<k, n>>] = IF k = m /\ n = resp[u].node THEN resp[u].price ELSE pair[<<k, n>>]
    BY <1>0, <1>2, <2>1
  <2>3. m \notin overlapped => Knows(u)'
    <3> SUFFICES ASSUME m \notin overlapped PROVE Knows(u)'
      OBVIOUS
    <3>1. \A n \in callMap[m] : pair[<<m, n>>] <= ds[m]
      BY <1>3, <2>1 DEF Knows, IsMax
    <3>2. /\ upc'[u] = "old" /\ Method(u)' = m /\ Key(u)' = Key(u) /\ resp' = resp /\ ds' = ds
      BY <1>0, <2>1 DEF Method, Key
    <3>3. pair'[Key(u)] = resp[u].price
      BY <1>2, <2>2
    <3>4. \A n \in callMap[m] \ {resp[u].node} : pair'[<<m, n>>] <= ds[m]
      BY <1>2, <2>2, <3>1
    <3> QED
      BY <3>2, <3>3, <3>4 DEF Knows
  <2>4. \A k \in Methods \ {m} : ds'[k] = ds[k] /\ \A n \in Nodes : pair'[<<k, n>>] = pair[<<k, n>>]
    BY <2>1, <2>2
  <2>5. Active(u)'
    BY <1>0, <2>1 DEF Active
  <2> QED
    BY <1>0, <1>1, <2>1, <2>3, <2>4, <2>5, OwnStep
<1>7. CASE Above(u)
  <2>1. /\ upc[u] = "old" /\ upc' = [upc EXCEPT ![u] = "raise"] /\ resp[u].price > ds[m]
        /\ UNCHANGED <<pair, ds, resp, scanned, top, overlapped>>
    BY <1>7 DEF Above, UGoto, Method, table
  <2>2. m \notin overlapped => Knows(u)'
    BY <1>0, <1>3, <2>1 DEF Knows, Method, Key
  <2>3. Active(u)'
    BY <1>0, <2>1 DEF Active
  <2> QED
    BY <1>0, <1>1, <2>1, <2>2, <2>3, OwnStep
<1>8. CASE Raise(u)
  <2>1. /\ upc[u] = "raise" /\ upc' = [upc EXCEPT ![u] = "idle"]
        /\ ds' = [ds EXCEPT ![m] = resp[u].price] /\ resp' = [resp EXCEPT ![u] = Nothing]
        /\ UNCHANGED <<pair, scanned, top, overlapped>>
    BY <1>8 DEF Raise, UGoto, Method
  <2>2. m \notin overlapped => IsMax(m, ds[m])'
    <3> SUFFICES ASSUME m \notin overlapped PROVE IsMax(m, ds[m])'
      OBVIOUS
    <3>1. /\ pair[<<m, resp[u].node>>] = resp[u].price /\ resp[u].price > ds[m]
          /\ \A n \in callMap[m] \ {resp[u].node} : pair[<<m, n>>] <= ds[m]
      BY <1>2, <1>3, <2>1 DEF Knows
    <3>2. ds'[m] = resp[u].price /\ pair' = pair
      BY <1>0, <1>2, <2>1
    <3>3. \A n \in callMap[m] : pair[<<m, n>>] <= resp[u].price
      BY <1>2, <1>4, <1>5, <3>1
    <3>4. IsMax(m, resp[u].price)
      BY <1>2, <3>1, <3>3 DEF IsMax
    <3>5. \A n \in callMap[m] : pair'[<<m, n>>] = pair[<<m, n>>]
      BY <3>2
    <3> QED
      BY <3>2, <3>4, <3>5 DEF IsMax
  <2>3. ~Active(u)'
    BY <1>0, <2>1 DEF Active
  <2> QED
    BY <1>0, <1>1, <2>1, <2>2, <2>3, OwnStep
<1>9. CASE NotAbove(u)
  <2>1. /\ upc[u] = "old" /\ upc' = [upc EXCEPT ![u] = "scan"]
        /\ UNCHANGED <<pair, ds, resp, scanned, top, overlapped>>
    BY <1>9 DEF NotAbove, UGoto, table
  <2>2. Knows(u)'
    BY <1>0, <1>2, <2>1 DEF Knows, Searched
  <2>3. Active(u)'
    BY <1>0, <2>1 DEF Active
  <2> QED
    BY <1>0, <1>1, <2>1, <2>2, <2>3, OwnStep
<1>10. CASE StoreMax(u)
  <2>1. /\ upc[u] = "scan" /\ upc' = [upc EXCEPT ![u] = "idle"] /\ scanned[u] = callMap[m]
        /\ ds' = [ds EXCEPT ![m] = top[u]] /\ resp' = [resp EXCEPT ![u] = Nothing]
        /\ scanned' = [scanned EXCEPT ![u] = {}] /\ top' = [top EXCEPT ![u] = NoPrice]
        /\ UNCHANGED <<pair, overlapped>>
    BY <1>10 DEF StoreMax, UGoto, Method
  <2>2. m \notin overlapped => IsMax(m, ds[m])'
    <3> SUFFICES ASSUME m \notin overlapped PROVE IsMax(m, ds[m])'
      OBVIOUS
    <3>1. IsMax(m, top[u])
      BY <1>2, <1>3, <2>1 DEF Knows, Searched, IsMax
    <3>2. ds'[m] = top[u] /\ pair' = pair
      BY <1>0, <1>2, <2>1
    <3> QED
      BY <3>1, <3>2 DEF IsMax
  <2>3. ~Active(u)'
    BY <1>0, <2>1 DEF Active
  <2> QED
    BY <1>0, <1>1, <2>1, <2>2, <2>3, OwnStep
<1>11. ASSUME NEW n \in Nodes, Scan(u, n) PROVE TableInv'
  <2>1. /\ upc[u] = "scan" /\ upc' = upc /\ n \in callMap[m] \ scanned[u]
        /\ scanned' = [scanned EXCEPT ![u] = @ \union {n}]
        /\ top' = [top EXCEPT ![u] = Max2(@, pair[<<m, n>>])]
        /\ UNCHANGED <<pair, ds, resp, overlapped>>
    BY <1>11 DEF Scan, Method, table
  <2>2. m \notin overlapped => Knows(u)'
    <3> SUFFICES ASSUME m \notin overlapped PROVE Knows(u)'
      OBVIOUS
    <3>1. Searched(u)
      BY <1>3, <2>1 DEF Knows
    <3>2. scanned'[u] = scanned[u] \union {n} /\ top'[u] = Max2(top[u], pair[<<m, n>>])
          /\ upc'[u] = "scan" /\ Method(u)' = m /\ pair' = pair
      BY <1>0, <2>1 DEF Method
    <3>3. \A o \in scanned[u] : o \in Nodes /\ pair[<<m, o>>] \in Int /\ pair[<<m, o>>] <= top[u]
      BY <1>0, <1>4, <3>1 DEF Searched
    <3>4. \A o \in scanned'[u] : pair[<<m, o>>] <= top'[u]
      BY <1>4, <1>5, <3>2, <3>3 DEF Max2
    <3>5. \E o \in scanned'[u] : pair[<<m, o>>] = top'[u]
      <4>1. CASE top[u] >= pair[<<m, n>>] /\ scanned[u] # {}
        BY <3>1, <3>2, <4>1 DEF Searched, Max2
      <4>2. CASE ~(top[u] >= pair[<<m, n>>])
        BY <3>2, <4>2 DEF Max2
      <4>3. CASE scanned[u] = {}
        <5>1. top[u] = -1 /\ pair[<<m, n>>] \in Nat
          BY <1>0, <1>2, <2>1, <3>1, <4>3, PricesAssumption
             DEF Searched, NoPrice, PricesAssumption
        <5>2. top'[u] = pair[<<m, n>>] /\ n \in scanned'[u]
          BY <3>2, <5>1 DEF Max2
        <5> QED
          BY <5>2
      <4> QED
        BY <4>1, <4>2, <4>3
    <3> QED
      BY <3>2, <3>4, <3>5 DEF Knows, Searched
  <2>3. Active(u)'
    BY <1>0, <2>1 DEF Active
  <2> QED
    BY <1>0, <1>1, <2>1, <2>2, <2>3, OwnStep
<1> QED
  BY <1>6, <1>7, <1>8, <1>9, <1>10, <1>11 DEF Update

LEMMA TableInit == Init => TableInv
<1> SUFFICES ASSUME Init PROVE TableInv
  OBVIOUS
<1>1. \A u \in Updates : ~Active(u)
  BY DEF Init, Active
<1>2. ASSUME NEW m \in Methods, callMap[m] # {} PROVE IsMax(m, ds[m])
  <2>1. callMap[m] \subseteq Nodes /\ ds[m] = InitPrice /\ InitPrice \in Nat
    BY PricesAssumption DEF PricesAssumption, Init
  <2>2. \A n \in callMap[m] : pair[<<m, n>>] = InitPrice
    BY <2>1 DEF Init
  <2> QED
    BY <1>2, <2>1, <2>2 DEF IsMax
<1> QED
  BY <1>1, <1>2 DEF TableInv, AloneInv, KnowsInv, ExactUnlessOverlapped

LEMMA TableStep == TypeInv /\ TableInv /\ [Next]_vars => TableInv'
<1> SUFFICES ASSUME TypeInv, TableInv, [Next]_vars PROVE TableInv'
  OBVIOUS
<1>1. CASE UNCHANGED vars
  BY <1>1, TableFrame DEF vars, table, updVars
<1>2. ASSUME NEW u \in Updates, NEW m \in Methods, NEW n \in Nodes, Reply(u, m, n)
      PROVE  TableInv'
  BY <1>2, ReplyTable
<1>3. ASSUME NEW u \in Updates, Update(u)
      PROVE  TableInv'
  BY <1>3, UpdateTable
<1>4. CASE Tick
  BY <1>4, TableFrame DEF Tick
<1>5. ASSUME NEW r \in Requests,
             (\E m \in Methods, t \in Tokens : Arrive(r, m, t)) \/ LoadOwn(r) \/ Decide(r) \/ Return(r)
      PROVE  TableInv'
  BY <1>5, TableFrame DEF Arrive, LoadOwn, Decide, Return, table
<1>6. ASSUME NEW n \in Nodes, NEW p \in Prices, Requote(n, p)
      PROVE  TableInv'
  BY <1>6, TableFrame DEF Requote, table
<1>7. ASSUME NEW g \in Gaps, Load(g)
      PROVE  TableInv'
  BY <1>7, TableFrame DEF Load, table
<1> QED
  BY <1>1, <1>2, <1>3, <1>4, <1>5, <1>6, <1>7 DEF Next, Step

\* For every number of methods, nodes and responses in flight, a method whose responses never
\* overlapped has the maximum of its nodes' prices whenever no response for it is processed.
THEOREM PriceIsExact == Spec => []ExactUnlessOverlapped
<1>1. Init => TypeInv /\ TableInv
  BY TypeInit, TableInit
<1>2. TypeInv /\ TableInv /\ [Next]_vars => (TypeInv /\ TableInv)'
  BY TypeStep, TableStep
<1>3. TableInv => ExactUnlessOverlapped
  BY DEF TableInv
<1> QED
  BY <1>1, <1>2, <1>3, PTL DEF Spec
-----------------------------------------------------------------------------
(* Shedding.                                                                *)

LEMMA PeakInit == Init => PeakInv
BY DEF Init, PeakInv

\* What a call's step records of the price, whatever the rest of the system does with it.
LEMMA PeakWatch ==
  ASSUME TypeInv, TypeInv', Watch, NEW r \in Requests, rpc'[r] \in {"own", "ds"}
  PROVE  peak'[r] \in Int /\ Total(own, call[r].method)' <= peak'[r] /\ peak[r] <= peak'[r]
<1>1. Total(own, call[r].method)' \in Int
  BY TotalTypeNext DEF TypeInv, TypeOK, BaseInv
<1>2. peak[r] \in Int
  BY DEF TypeInv, TypeOK
<1>3. peak'[r] = Max2(peak[r], Total(own, call[r].method)')
  BY DEF Watch
<1> QED
  BY <1>1, <1>2, <1>3 DEF Max2

LEMMA PeakStep == TypeInv /\ TypeInv' /\ PeakInv /\ [Next]_vars => PeakInv'
<1> SUFFICES ASSUME TypeInv, TypeInv', PeakInv, [Next]_vars, NEW r \in Requests
             PROVE  /\ rpc'[r] \in {"own", "ds"} => Total(own, call[r].method)' <= peak'[r]
                    /\ rpc'[r] = "ds" => ownSeen'[r] <= peak'[r]
                    /\ rpc'[r] = "shed" => call'[r].tokens < peak'[r]
  BY DEF PeakInv
<1>0. rpc \in [Requests -> RPCs] /\ call \in [Requests -> Calls \union {Nothing}] /\ ownSeen \in [Requests -> Nat]
      /\ ds \in [Methods -> Prices \union {NoPrice}] /\ own \in Nat /\ peak \in [Requests -> Int]
  BY DEF TypeInv, TypeOK
<1>1. CASE UNCHANGED vars
  BY <1>1 DEF vars, table, reqVars, PeakInv, Total, DSPrice
<1>2. CASE Next
  <2>1. Watch /\ Step
    BY <1>2 DEF Next
  <2>2. rpc'[r] \in {"own", "ds"} =>
          peak'[r] \in Int /\ Total(own, call[r].method)' <= peak'[r] /\ peak[r] <= peak'[r]
    BY <2>1, PeakWatch
  <2>3. rpc'[r] = "shed" => peak'[r] = peak[r]
    BY <2>1 DEF Watch
  <2>4. CASE rpc'[r] = rpc[r] /\ call'[r] = call[r] /\ ownSeen'[r] = ownSeen[r]
    BY <1>0, <2>2, <2>3, <2>4 DEF PeakInv
  <2>5. CASE \E m \in Methods, t \in Tokens : Arrive(r, m, t)
    BY <1>0, <2>2, <2>5 DEF Arrive
  <2>6. CASE LoadOwn(r)
    <3>1. rpc'[r] = "ds" /\ ownSeen'[r] = own /\ call' = call /\ own' = own /\ ds' = ds
      BY <1>0, <2>6 DEF LoadOwn, table
    <3>2. call[r].method \in Methods
      BY <2>6 DEF LoadOwn, TypeInv, SlotsInv, Calls
    <3>3. ds[call[r].method] \in Int
      BY <1>0, <3>2, PriceTypes
    <3>4. Total(own, call[r].method)' = Total(own, call[r].method)
      BY <3>1 DEF Total, DSPrice
    <3>5. own <= Total(own, call[r].method)
      BY <1>0, <3>3 DEF Total, Max2, DSPrice
    <3>6. Total(own, call[r].method) \in Int
      BY <1>0, <3>3 DEF Total, Max2, DSPrice
    <3> QED
      BY <1>0, <2>2, <3>1, <3>4, <3>5, <3>6
  <2>7. CASE Decide(r)
    <3>1. /\ rpc[r] = "ds" /\ call' = call /\ ownSeen' = ownSeen
          /\ rpc'[r] \in {"shed", "serve"}
          /\ rpc'[r] = "shed" => call[r].tokens < Total(ownSeen[r], call[r].method)
      BY <1>0, <2>7 DEF Decide
    <3>2. call[r].method \in Methods /\ call[r].tokens \in Nat
      BY <3>1, PricesAssumption DEF TypeInv, SlotsInv, Calls, PricesAssumption
    <3>3. DSPrice(call[r].method) \in Int
      <4>1. ds[call[r].method] \in Int
        BY <1>0, <3>2, PriceTypes
      <4> QED
        BY <4>1 DEF DSPrice
    <3>4. Total(own, call[r].method) <= peak[r] /\ ownSeen[r] <= peak[r]
      BY <3>1 DEF PeakInv
    <3>5. DSPrice(call[r].method) <= peak[r]
      BY <1>0, <3>3, <3>4 DEF Total, Max2
    <3>6. Total(ownSeen[r], call[r].method) <= peak[r] /\ Total(ownSeen[r], call[r].method) \in Int
      BY <1>0, <3>3, <3>4, <3>5 DEF Total, Max2
    <3> QED
      BY <1>0, <2>3, <3>1, <3>2, <3>6
  <2>8. CASE Return(r)
    BY <1>0, <2>8 DEF Return
  <2>9. \/ rpc'[r] = rpc[r] /\ call'[r] = call[r] /\ ownSeen'[r] = ownSeen[r]
        \/ \E m \in Methods, t \in Tokens : Arrive(r, m, t)
        \/ LoadOwn(r) \/ Decide(r) \/ Return(r)
    <3>1. ASSUME NEW q \in Requests, q # r,
                 (\E m \in Methods, t \in Tokens : Arrive(q, m, t)) \/ LoadOwn(q) \/ Decide(q) \/ Return(q)
          PROVE  rpc'[r] = rpc[r] /\ call'[r] = call[r] /\ ownSeen'[r] = ownSeen[r]
      BY <1>0, <3>1 DEF Arrive, LoadOwn, Decide, Return
    <3>2. ASSUME \/ \E u \in Updates, m \in Methods, n \in Nodes : Reply(u, m, n)
                 \/ \E u \in Updates : Update(u)
                 \/ Tick
                 \/ \E n \in Nodes, p \in Prices : Requote(n, p)
                 \/ \E g \in Gaps : Load(g)
          PROVE  UNCHANGED reqVars
      BY <3>2 DEF Reply, Update, StorePair, Above, Raise, NotAbove, StoreMax, Scan, Tick,
                  Requote, Load, reqVars
    <3> QED
      BY <2>1, <3>1, <3>2 DEF Step, reqVars
  <2> QED
    BY <2>4, <2>5, <2>6, <2>7, <2>8, <2>9
<1> QED
  BY <1>1, <1>2

\* A call is shed only if some total price in force while it was judged was above its tokens,
\* whatever updates, ticks and other calls do between its two loads.
THEOREM ShedIsJustified == Spec => []ShedJustified
<1>1. Init => TypeInv /\ PeakInv
  BY TypeInit, PeakInit
<1>2. TypeInv /\ PeakInv /\ [Next]_vars => (TypeInv /\ PeakInv)'
  BY TypeStep, PeakStep
<1>3. PeakInv => ShedJustified
  BY DEF PeakInv, ShedJustified
<1> QED
  BY <1>1, <1>2, <1>3, PTL DEF Spec
-----------------------------------------------------------------------------
(* The end user, whose tokens share nothing with the price table of a server.     *)

TokenTypes ==
  /\ tokensLeft \in Int /\ tokensLeft <= Cap
  /\ pc \in [UserCalls -> PCs]
  /\ tok \in [UserCalls -> Int] /\ loaded \in [UserCalls -> Int]
  /\ refill \in {"tick", "store", "wake"} /\ added \in Int
  /\ crossed \in BOOLEAN

Deducting == {"take", "store"}

\* A call in DeductTokens: what it compared or read is still there, if not more.
Covered(c) ==
  /\ tok[c] >= 0
  /\ pc[c] = "take" => tok[c] <= tokensLeft
  /\ pc[c] = "store" => tok[c] <= loaded[c] /\ loaded[c] <= tokensLeft

\* What the refill is about to store undoes no more than it adds.
RefillCovered ==
  refill = "store" => /\ added >= tokensLeft
                      /\ \A c \in UserCalls : pc[c] = "store" => added >= loaded[c] - tok[c]

\* What holds while deductions come one after the other.
InTurn ==
  /\ tokensLeft >= 0
  /\ \A c \in UserCalls : Covered(c)
  /\ \A c, d \in UserCalls : pc[c] \in Deducting /\ pc[d] \in Deducting => c = d
  /\ RefillCovered

TokensInv == TokenTypes /\ (~crossed => InTurn)

LEMMA TokensInit ==
  ASSUME UserInit
  PROVE  TokensInv
<1>1. InitTokens \in Int /\ 0 <= InitTokens /\ InitTokens <= Cap
  BY TokensAssumption DEF TokensAssumption
<1>2. TokenTypes
  <2>1. "idle" \in PCs
    BY DEF PCs
  <2>2. /\ pc \in [UserCalls -> PCs]
        /\ tok \in [UserCalls -> Int] /\ loaded \in [UserCalls -> Int]
    BY <2>1 DEF UserInit
  <2>3. tokensLeft \in Int /\ tokensLeft <= Cap
    BY <1>1 DEF UserInit
  <2>4. refill \in {"tick", "store", "wake"} /\ added \in Int
    BY DEF UserInit
  <2>5. crossed \in BOOLEAN
    BY Zenon DEF UserInit
  <2> QED
    BY <2>2, <2>3, <2>4, <2>5 DEF TokenTypes
<1>3. InTurn
  BY <1>1 DEF UserInit, InTurn, Covered, RefillCovered, Deducting
<1> QED
  BY <1>2, <1>3 DEF TokensInv

\* A step of one call that leaves the tokens and the refill alone, and what the call has
\* compared or read with them, unless it leaves DeductTokens.
LEMMA AsideStep ==
  ASSUME TokensInv, NEW c \in UserCalls, UNCHANGED <<tokensLeft, refill, added, crossed>>,
         pc' \in [UserCalls -> PCs], tok' \in [UserCalls -> Int], loaded' \in [UserCalls -> Int],
         \A d \in UserCalls \ {c} : pc'[d] = pc[d] /\ tok'[d] = tok[d] /\ loaded'[d] = loaded[d],
         pc'[c] \notin Deducting, ~crossed => tok'[c] >= 0
  PROVE  TokensInv'
<1>1. TokenTypes'
  BY DEF TokensInv, TokenTypes
<1>2. ASSUME ~crossed PROVE InTurn'
  <2>1. InTurn
    BY <1>2 DEF TokensInv
  <2>2. \A d \in UserCalls : Covered(d)'
    BY <1>2, <2>1 DEF InTurn, Covered, Deducting
  <2>3. RefillCovered'
    BY <2>1 DEF InTurn, RefillCovered, Deducting
  <2>4. \A d, e \in UserCalls : pc'[d] \in Deducting /\ pc'[e] \in Deducting => d = e
    BY <2>1 DEF InTurn
  <2> QED
    BY <2>1, <2>2, <2>3, <2>4 DEF InTurn
<1> QED
  BY <1>1, <1>2 DEF TokensInv

\* Every way of leaving the loop.
LEMMA LeaveStep ==
  ASSUME TokensInv, NEW c \in UserCalls, NEW step \in PCs \ Deducting, Leave(c, step),
         UNCHANGED <<tokensLeft, refill, added, crossed>>
  PROVE  TokensInv'
<1>1. pc' \in [UserCalls -> PCs] /\ tok' \in [UserCalls -> Int] /\ loaded' \in [UserCalls -> Int]
  BY DEF Leave, TokensInv, TokenTypes
<1>2. \A d \in UserCalls \ {c} : pc'[d] = pc[d] /\ tok'[d] = tok[d] /\ loaded'[d] = loaded[d]
  BY DEF Leave, TokensInv, TokenTypes
<1>3. pc'[c] \notin Deducting /\ tok'[c] = 0
  BY DEF Leave, TokensInv, TokenTypes
<1> QED
  BY <1>1, <1>2, <1>3, AsideStep

LEMMA LookStep ==
  ASSUME TokensInv, NEW c \in UserCalls, Look(c)
  PROVE  TokensInv'
<1>1. PICK t \in Int : tok' = [tok EXCEPT ![c] = t] /\ (tokensLeft >= 0 => t >= 0)
  <2>1. \A t : t \in (IF options.uniform /\ tokensLeft > 0 THEN 0 .. tokensLeft - 1 ELSE {tokensLeft})
                 => t \in Int /\ (tokensLeft >= 0 => t >= 0)
    BY DEF TokensInv, TokenTypes
  <2> QED
    BY <2>1 DEF Look
<1>2. /\ pc' \in [UserCalls -> PCs] /\ pc'[c] \notin Deducting
      /\ tok' \in [UserCalls -> Int]
      /\ \A d \in UserCalls \ {c} : pc'[d] = pc[d] /\ tok'[d] = tok[d]
      /\ UNCHANGED <<tokensLeft, refill, added, crossed, loaded>>
  BY <1>1 DEF Look, Goto, TokensInv, TokenTypes, PCs, Deducting, shared, refillVars
<1>3. ~crossed => tok'[c] >= 0
  BY <1>1 DEF TokensInv, InTurn, TokenTypes
<1> QED
  BY <1>2, <1>3, AsideStep DEF TokensInv, TokenTypes

\* A call that only moves on, neither into DeductTokens nor within it.
LEMMA MoveStep ==
  ASSUME TokensInv, NEW c \in UserCalls, NEW from, NEW to \in PCs \ Deducting, Goto(c, from, to),
         UNCHANGED <<tokensLeft, refill, added, crossed, tok, loaded>>
  PROVE  TokensInv'
<1>1. pc' \in [UserCalls -> PCs] /\ pc'[c] = to /\ \A d \in UserCalls \ {c} : pc'[d] = pc[d]
  BY DEF Goto, TokensInv, TokenTypes
<1>2. ~crossed => tok[c] >= 0
  BY DEF TokensInv, InTurn, Covered
<1> QED
  BY <1>1, <1>2, AsideStep DEF TokensInv, TokenTypes

LEMMA CompareStep ==
  ASSUME TokensInv, NEW c \in UserCalls, TakeCompare(c)
  PROVE  TokensInv'
<1>1. /\ pc' = [pc EXCEPT ![c] = "take"] /\ tok[c] <= tokensLeft
      /\ UNCHANGED <<tokensLeft, tok, loaded, refill, added>>
      /\ crossed' = (crossed \/ \E d \in UserCalls : pc[d] \in Deducting)
  BY DEF TakeCompare, Goto, shared, refillVars, Deducting, TokensInv, TokenTypes
<1>2. TokenTypes'
  BY <1>1 DEF TokensInv, TokenTypes, PCs
<1>3. ASSUME ~crossed' PROVE InTurn'
  <2>1. InTurn /\ \A d \in UserCalls : pc[d] \notin Deducting
    BY <1>1, <1>3 DEF TokensInv
  <2>2. pc'[c] = "take" /\ \A d \in UserCalls \ {c} : pc'[d] \notin Deducting
    BY <1>1, <2>1 DEF TokensInv, TokenTypes
  <2>3. \A d \in UserCalls : Covered(d)'
    BY <1>1, <2>1, <2>2 DEF InTurn, Covered, Deducting
  <2>4. RefillCovered'
    BY <1>1, <2>1, <2>2 DEF InTurn, RefillCovered, Deducting
  <2> QED
    BY <1>1, <2>1, <2>2, <2>3, <2>4 DEF InTurn
<1> QED
  BY <1>2, <1>3 DEF TokensInv

LEMMA LoadStep ==
  ASSUME TokensInv, NEW c \in UserCalls, TakeLoad(c)
  PROVE  TokensInv'
<1>1. /\ pc[c] = "take" /\ pc' = [pc EXCEPT ![c] = "store"]
      /\ loaded' = [loaded EXCEPT ![c] = tokensLeft]
      /\ UNCHANGED <<tokensLeft, tok, refill, added, crossed>>
  BY DEF TakeLoad, Goto, shared, refillVars
<1>2. TokenTypes'
  BY <1>1 DEF TokensInv, TokenTypes, PCs
<1>3. ASSUME ~crossed PROVE InTurn'
  <2>1. InTurn /\ TokenTypes
    BY <1>3 DEF TokensInv
  <2>2. \A d \in UserCalls : Covered(d)'
    BY <1>1, <2>1 DEF InTurn, Covered, TokenTypes
  <2>3. \A d, e \in UserCalls : pc'[d] \in Deducting /\ pc'[e] \in Deducting => d = e
    BY <1>1, <2>1 DEF InTurn, TokenTypes, Deducting
  <2>4. RefillCovered'
    <3>1. added >= tokensLeft /\ tok[c] >= 0 => added >= tokensLeft - tok[c]
      BY <2>1 DEF TokenTypes
    <3> QED
      BY <1>1, <2>1, <3>1 DEF InTurn, RefillCovered, Covered, TokenTypes
  <2> QED
    BY <1>1, <2>1, <2>2, <2>3, <2>4 DEF InTurn
<1> QED
  BY <1>1, <1>2, <1>3 DEF TokensInv

\* The one call in DeductTokens stores no more than there is, and no less than nothing.
LEMMA StoreStep ==
  ASSUME TokensInv, NEW c \in UserCalls, TakeStore(c)
  PROVE  TokensInv'
<1> DEFINE left == loaded[c] - tok[c]
<1>1. /\ pc[c] = "store" /\ tokensLeft' = Bounded(left) /\ UNCHANGED <<refill, added, crossed>>
      /\ pc' = [pc EXCEPT ![c] = "sent"] /\ tok' = [tok EXCEPT ![c] = 0]
      /\ loaded' = [loaded EXCEPT ![c] = 0]
  BY DEF TakeStore, Leave, refillVars
<1>2. left \in Int /\ Cap \in Nat /\ Floor \in Nat
  BY TokensAssumption DEF TokensAssumption, TokensInv, TokenTypes
<1>3. TokenTypes'
  <2>1. Bounded(left) \in Int /\ Bounded(left) <= Cap
    BY <1>2 DEF Bounded
  <2> QED
    BY <1>1, <2>1 DEF TokensInv, TokenTypes, PCs
<1>4. ASSUME ~crossed PROVE InTurn'
  <2>1. InTurn /\ TokenTypes
    BY <1>4 DEF TokensInv
  <2>2. tok[c] >= 0 /\ tok[c] <= loaded[c] /\ loaded[c] <= tokensLeft /\ tokensLeft <= Cap
    BY <1>1, <2>1 DEF InTurn, Covered, TokenTypes
  <2>3. 0 <= left /\ left <= tokensLeft /\ left <= Cap
    <3>1. tok[c] \in Int /\ loaded[c] \in Int /\ tokensLeft \in Int /\ Cap \in Int
      BY <1>2, <2>1 DEF TokenTypes
    <3> QED
      BY ONLY <2>2, <3>1
  <2> HIDE DEF left
  <2>4. tokensLeft' = left
    BY <1>1, <1>2, <2>3 DEF Bounded
  <2>5. \A d \in UserCalls : pc'[d] \notin Deducting
    BY <1>1, <2>1 DEF InTurn, TokenTypes, Deducting
  <2>6. \A d \in UserCalls : tok'[d] >= 0
    BY <1>1, <2>1 DEF InTurn, Covered, TokenTypes
  <2>7. \A d \in UserCalls : Covered(d)'
    BY <2>5, <2>6 DEF Covered, Deducting
  <2>8. RefillCovered'
    <3>1. refill = "store" => added >= tokensLeft
      BY <2>1 DEF InTurn, RefillCovered
    <3>2. refill = "store" => added >= left
      BY <1>2, <2>1, <2>3, <3>1 DEF TokenTypes
    <3> QED
      BY <1>1, <2>4, <2>5, <3>2 DEF RefillCovered, Deducting
  <2> QED
    BY <2>3, <2>4, <2>5, <2>7, <2>8 DEF InTurn
<1> QED
  BY <1>1, <1>3, <1>4 DEF TokensInv

LEMMA UserRunStep ==
  ASSUME TokensInv, NEW c \in UserCalls, Run(c)
  PROVE  TokensInv'
<1> USE DEF shared, refillVars
<1>0. {"idle", "loop", "price", "limited", "wait", "deduct", "requeue", "sent"} \subseteq PCs \ Deducting
  BY DEF PCs, Deducting
<1>1. CASE TimeOut(c)
  BY <1>0, <1>1, LeaveStep DEF TimeOut, Finish
<1>2. CASE Look(c)
  BY <1>2, LookStep
<1>3. CASE GoUnlimited(c) \/ Pay(c)
  BY <1>0, <1>3, LeaveStep DEF GoUnlimited, Pay
<1>4. CASE BeLimited(c)
  BY <1>0, <1>4, MoveStep DEF BeLimited
<1>5. CASE Drop(c)
  BY <1>0, <1>5, LeaveStep DEF Drop, Finish
<1>6. CASE Wait(c)
  BY <1>0, <1>6, MoveStep DEF Wait
<1>7. CASE TakeCompare(c)
  BY <1>7, CompareStep
<1>8. CASE TakeLoad(c)
  BY <1>8, LoadStep
<1>9. CASE TakeStore(c)
  BY <1>9, StoreStep
<1>10. CASE TakeNone(c)
  BY <1>0, <1>10, MoveStep DEF TakeNone
<1>11. CASE Receive(c)
  BY <1>0, <1>11, LeaveStep DEF Receive, Finish
<1> QED
  BY <1>1, <1>2, <1>3, <1>4, <1>5, <1>6, <1>7, <1>8, <1>9, <1>10, <1>11 DEF Run

\* The refill reads and writes in two steps, so it may undo a deduction but not a token.
LEMMA RefillKeepsTokens ==
  ASSUME TokensInv, Refill
  PROVE  TokensInv'
<1> USE DEF shared, callVars
<1>0. RefillStep \in Nat /\ Cap \in Nat /\ Floor \in Nat
  BY TokensAssumption DEF TokensAssumption
<1>1. CASE AddLoad
  <2>1. /\ added' = tokensLeft + RefillStep
        /\ UNCHANGED <<tokensLeft, pc, tok, loaded, crossed>>
    BY <1>1 DEF AddLoad
  <2>2. TokenTypes'
    BY <1>0, <1>1, <2>1 DEF AddLoad, TokensInv, TokenTypes
  <2>3. ASSUME ~crossed PROVE InTurn'
    <3>1. InTurn /\ TokenTypes
      BY <2>3 DEF TokensInv
    <3>2. ASSUME NEW c \in UserCalls, pc[c] = "store"
          PROVE  tokensLeft + RefillStep >= loaded[c] - tok[c]
      BY <1>0, <3>1, <3>2 DEF InTurn, Covered, TokenTypes
    <3>3. tokensLeft + RefillStep >= tokensLeft
      BY <1>0, <3>1 DEF TokenTypes
    <3>4. RefillCovered'
      BY <2>1, <3>2, <3>3 DEF RefillCovered
    <3> QED
      BY <2>1, <3>1, <3>4 DEF InTurn, Covered
  <2> QED
    BY <2>1, <2>2, <2>3 DEF TokensInv
<1>2. CASE AddStore
  <2>1. /\ refill = "store" /\ refill' = "wake" /\ tokensLeft' = Bounded(added) /\ added' = 0
        /\ UNCHANGED <<pc, tok, loaded, crossed>>
    BY <1>2 DEF AddStore
  <2>2. TokenTypes'
    <3>1. Bounded(added) \in Int /\ Bounded(added) <= Cap
      BY <1>0 DEF Bounded, TokensInv, TokenTypes
    <3> QED
      BY <2>1, <3>1 DEF TokensInv, TokenTypes
  <2>3. ASSUME ~crossed PROVE InTurn'
    <3>1. InTurn /\ TokenTypes
      BY <2>3 DEF TokensInv
    <3>2. added >= tokensLeft /\ tokensLeft >= 0 /\ tokensLeft <= Cap
      BY <2>1, <3>1 DEF InTurn, RefillCovered, TokenTypes
    <3>3. tokensLeft' >= tokensLeft /\ tokensLeft' \in Int
      BY <1>0, <2>1, <3>1, <3>2 DEF Bounded, TokenTypes
    <3>4. \A c \in UserCalls : Covered(c)'
      BY <2>1, <3>1, <3>3 DEF InTurn, Covered, TokenTypes
    <3>5. tokensLeft' >= 0
      BY <3>1, <3>2, <3>3 DEF TokenTypes
    <3> QED
      BY <2>1, <3>1, <3>4, <3>5 DEF InTurn, RefillCovered
  <2> QED
    BY <2>1, <2>2, <2>3 DEF TokensInv
<1>3. CASE Unblock
  BY <1>3 DEF Unblock, TokensInv, TokenTypes, InTurn, Covered, RefillCovered
<1> QED
  BY <1>1, <1>2, <1>3 DEF Refill

LEMMA TokensStep ==
  ASSUME TokensInv, [UserNext]_userVars
  PROVE  TokensInv'
<1> USE DEF shared, refillVars
<1>0. {"loop", "deduct"} \subseteq PCs \ Deducting
  BY DEF PCs, Deducting
<1>1. ASSUME UNCHANGED <<tokensLeft, pc, tok, loaded, refill, added, crossed>> PROVE TokensInv'
  BY <1>1 DEF TokensInv, TokenTypes, InTurn, Covered, RefillCovered
<1>2. ASSUME NEW c \in UserCalls, Call(c) PROVE TokensInv'
  BY <1>0, <1>2, MoveStep DEF Call
<1>3. ASSUME NEW c \in UserCalls, Run(c) PROVE TokensInv'
  BY <1>3, UserRunStep
<1>4. ASSUME NEW c \in UserCalls, Woken(c) PROVE TokensInv'
  BY <1>0, <1>4, MoveStep DEF Woken
<1>5. ASSUME NEW c \in UserCalls, WokenAgain(c) PROVE TokensInv'
  BY <1>0, <1>5, MoveStep DEF WokenAgain
<1>6. ASSUME NEW c \in UserCalls, Expire(c) PROVE TokensInv'
  BY <1>1, <1>6 DEF Expire
<1>7. CASE Refill
  BY <1>7, RefillKeepsTokens
<1>8. CASE EndBackoff
  BY <1>1, <1>8 DEF EndBackoff, callVars
<1>9. CASE UNCHANGED userVars
  BY <1>1, <1>9 DEF userVars, callVars
<1> QED
  BY <1>2, <1>3, <1>4, <1>5, <1>6, <1>7, <1>8, <1>9 DEF UserNext

\* DeductTokens, called one at a time, and the refill, which races it, never take tokensLeft
\* below zero, for any number of calls: a debt is always the work of two overlapping calls.
THEOREM SoleDeductionHolds == UserSpec => []SoleDeduction
<1>1. TokensInv => SoleDeduction
  BY DEF TokensInv, TokenTypes, InTurn, SoleDeduction
<1>2. UserInit => TokensInv
  BY TokensInit
<1>3. TokensInv /\ [UserNext]_userVars => TokensInv'
  BY TokensStep
<1> QED
  BY <1>1, <1>2, <1>3, PTL DEF UserSpec
=============================================================================
