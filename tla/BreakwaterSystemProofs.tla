----------------------- MODULE BreakwaterSystemProofs -----------------------
(***************************************************************************)
(* RegisterClient looks a client up and stores its Connection in two       *)
(* steps, with nothing that keeps a second call of the client out.  What   *)
(* does is the client: it starts with one credit.  The proof joins the     *)
(* two sides, for any number of calls and updaters, any queue length and   *)
(* any parameters of the server, and whatever the network delays.  The     *)
(* second half shows that the client meets the assumption under which the  *)
(* theorems of BreakwaterServerProofs hold, and carries them over.         *)
(***************************************************************************)
EXTENDS BreakwaterSystem, FiniteSetTheorems, TLAPS

\* Where a call is for the client, on the way and for the server.
Places == {"none", "request", "server", "response", "error"}
\* The steps of a call whose client is in clientMap, and those that work on its Connection.
Registering == {"count"}
Holding == {"lock", "reload", "take", "overcommit", "decide", "higher", "put"}
Past == Registering \union Holding \union {"add", "unlock", "stamp", "handle"}

TypeInv ==
  /\ cpc \in [Requests -> C!PCs]
  /\ net \in [Requests -> Places]
  /\ pc \in [Requests -> S!ReqPCs]
  /\ cl \in [Requests -> {Me, NoClient}]
  /\ held \in [Requests -> Requests \union {NoConn}]
  /\ connOf \in [{Me} -> Requests \union {NoConn}]

\* The three agree on where a call is, and the server knows whose it is.
Placed ==
  \A r \in Requests :
    /\ net[r] = "server" <=> pc[r] # "idle"
    /\ net[r] # "none" <=> cpc[r] = "sent"
    /\ pc[r] # "idle" => cl[r] = Me

\* The one credit the client starts with is in its balance or with one of its calls.
OneCredit ==
  /\ credits \in {0, 1}
  /\ \A r \in Requests : C!Spending(r) => credits = 0
  /\ \A r, q \in Requests : C!Spending(r) /\ C!Spending(q) => r = q

\* Until the timer fires: the client has one credit until it is answered, an answer comes from
\* a server that has registered it, a call about to store a Connection found none, and the
\* calls past that point hold the Connection that is stored.
Protocol ==
  /\ ~answered => OneCredit
  /\ answered => S!Registered(Me)
  /\ \A r \in Requests :
       /\ net[r] = "response" => S!Registered(Me)
       /\ pc[r] = "register" => ~S!Registered(Me)
       /\ pc[r] \in Past => S!Registered(Me)
       /\ pc[r] \in Holding => held[r] = connOf[Me]

SystemInv == TypeInv /\ Placed /\ (timer = "armed" => Protocol)

-----------------------------------------------------------------------------
LEMMA SystemInit == Init => SystemInv
<1> SUFFICES ASSUME Init PROVE SystemInv
  OBVIOUS
<1> USE DEF Init, S!Init, C!Init
<1>1. TypeInv
  BY DEF TypeInv, C!PCs, S!ReqPCs, Places
<1>2. Placed
  BY DEF Placed
<1>3. Protocol
  BY DEF Protocol, OneCredit, C!Spending, Past, Registering, Holding
<1> QED
  BY <1>1, <1>2, <1>3 DEF SystemInv

\* A step of the client that sends nothing and leaves the credits alone changes none of it.
LEMMA ClientQuiet ==
  ASSUME SystemInv, NEW r \in Requests, NEW to \in C!PCs \ {"sent"},
         cpc[r] # "sent", cpc' = [cpc EXCEPT ![r] = to],
         to \in {"pass", "measure", "depart"} => C!Spending(r),
         UNCHANGED <<credits, answered, timer, net, pc, cl, held, connOf>>
  PROVE  SystemInv'
<1> USE DEF SystemInv
<1>1. TypeInv'
  BY DEF TypeInv
<1>2. Placed'
  BY DEF TypeInv, Placed
<1>3. \A q \in Requests : C!Spending(q)' => C!Spending(q)
  BY DEF TypeInv, C!Spending
<1>4. OneCredit => OneCredit'
  BY <1>3 DEF OneCredit
<1>5. timer' = "armed" => Protocol'
  BY <1>4 DEF Protocol, S!Registered
<1> QED
  BY <1>1, <1>2, <1>5

LEMMA ClientKeeps ==
  ASSUME SystemInv, NEW r \in Requests, C!Call(r) \/ C!Wake(r) \/ C!Run(r),
         net' = IF C!Depart(r) THEN [net EXCEPT ![r] = "request"] ELSE net,
         UNCHANGED <<pc, cl, held, connOf>>
  PROVE  SystemInv'
<1> USE DEF SystemInv
<1>1. CASE C!Depart(r)
  <2>1. /\ cpc[r] = "depart" /\ cpc' = [cpc EXCEPT ![r] = "sent"]
        /\ net' = [net EXCEPT ![r] = "request"]
        /\ UNCHANGED <<credits, answered, timer>>
    BY <1>1 DEF C!Depart, C!Goto
  <2>2. TypeInv'
    BY <2>1 DEF TypeInv, Places, C!PCs
  <2>3. Placed'
    BY <2>1 DEF TypeInv, Placed, Places
  <2>4. \A q \in Requests : C!Spending(q)' <=> C!Spending(q)
    BY <2>1 DEF TypeInv, C!Spending
  <2>5. OneCredit => OneCredit'
    BY <2>1, <2>4 DEF OneCredit
  <2>6. timer' = "armed" => Protocol'
    BY <2>1, <2>5 DEF Protocol, TypeInv, S!Registered
  <2> QED
    BY <2>2, <2>3, <2>6
<1>2. CASE C!Spend(r)
  <2>1. /\ cpc[r] = "credit" /\ credits > 0 /\ credits' = credits - 1
        /\ UNCHANGED <<net, answered, timer>>
    BY <1>2 DEF C!Spend, C!Goto, C!Depart
  <2>2. PICK to \in {"pass", "measure"} : cpc' = [cpc EXCEPT ![r] = to]
    BY <1>2 DEF C!Spend, C!Goto
  <2>3. TypeInv'
    BY <2>1, <2>2 DEF TypeInv, C!PCs
  <2>4. Placed'
    BY <2>1, <2>2 DEF TypeInv, Placed
  <2>5. \A q \in Requests : C!Spending(q)' <=> q = r \/ C!Spending(q)
    BY <2>2 DEF TypeInv, C!Spending
  <2>6. OneCredit => OneCredit'
    BY <2>1, <2>5 DEF OneCredit
  <2>7. timer' = "armed" => Protocol'
    BY <2>1, <2>6 DEF Protocol, S!Registered
  <2> QED
    BY <2>3, <2>4, <2>7
<1>3. CASE C!NoCredit(r)
  <2>1. /\ cpc[r] = "credit" /\ cpc' = [cpc EXCEPT ![r] = "wait"] /\ credits' = 0
        /\ UNCHANGED <<net, answered, timer>>
    BY <1>3 DEF C!NoCredit, C!Goto, C!Depart
  <2>2. TypeInv'
    BY <2>1 DEF TypeInv, C!PCs
  <2>3. Placed'
    BY <2>1 DEF TypeInv, Placed
  <2>4. \A q \in Requests : C!Spending(q)' <=> C!Spending(q)
    BY <2>1 DEF TypeInv, C!Spending
  <2>5. OneCredit => OneCredit'
    BY <2>1, <2>4 DEF OneCredit
  <2>6. timer' = "armed" => Protocol'
    BY <2>1, <2>5 DEF Protocol, S!Registered
  <2> QED
    BY <2>2, <2>3, <2>6
<1>4. CASE ~C!Depart(r) /\ ~C!Spend(r) /\ ~C!NoCredit(r)
  <2>1. UNCHANGED <<credits, answered, timer, net>>
    BY <1>4 DEF C!Call, C!Wake, C!Run, C!Expire, C!InTime, C!ExpiredUnblock, C!Leave, C!PassOn,
                C!Measure, C!Notify
  <2>2. PICK to \in C!PCs \ {"sent"} :
          /\ cpc[r] # "sent" /\ cpc' = [cpc EXCEPT ![r] = to]
          /\ to \in {"pass", "measure", "depart"} => C!Spending(r)
    BY <1>4 DEF C!Call, C!Wake, C!Run, C!Expire, C!InTime, C!ExpiredUnblock, C!Leave, C!PassOn,
                C!Measure, C!Notify, C!Goto, C!PCs, C!Spending
  <2> QED
    BY <2>1, <2>2, ClientQuiet
<1> QED
  BY <1>1, <1>2, <1>3, <1>4

-----------------------------------------------------------------------------
LEMMA TimerKeeps ==
  ASSUME SystemInv, TimerStep
  PROVE  SystemInv'
<1>1. timer' # "armed" /\ UNCHANGED <<cpc, net, pc, cl, held, connOf>>
  BY DEF TimerStep, C!TimerFires, C!TimerUnblocks, serverVars
<1> QED
  BY <1>1 DEF SystemInv, TypeInv, Placed

LEMMA DeliverKeeps ==
  ASSUME SystemInv, NEW r \in Requests, Deliver(r)
  PROVE  SystemInv'
<1> USE DEF SystemInv
<1>1. /\ net[r] = "request" /\ net' = [net EXCEPT ![r] = "server"]
      /\ pc[r] = "idle" /\ cl' = [cl EXCEPT ![r] = Me]
      /\ UNCHANGED <<credits, answered, timer, cpc, held, connOf>>
  BY DEF Deliver, S!Arrive, S!Goto, S!connVars, clientVars
<1>2. PICK to \in {"aqm", "lookup"} : pc' = [pc EXCEPT ![r] = to]
  BY DEF Deliver, S!Arrive, S!Goto, S!Admitted
<1>3. TypeInv'
  BY <1>1, <1>2 DEF TypeInv, Places, S!ReqPCs
<1>4. Placed'
  BY <1>1, <1>2 DEF TypeInv, Placed
<1>5. OneCredit => OneCredit'
  BY <1>1 DEF OneCredit, C!Spending
<1>6. timer' = "armed" => Protocol'
  BY <1>1, <1>2, <1>5 DEF Protocol, TypeInv, S!Registered, Past, Registering, Holding
<1> QED
  BY <1>3, <1>4, <1>6

\* A step of a call in the server that leaves the stored Connection alone.
LEMMA ServerQuiet ==
  ASSUME SystemInv, NEW r \in Requests, NEW to \in S!ReqPCs \ {"idle"},
         pc[r] # "idle", pc' = [pc EXCEPT ![r] = to],
         held' \in {held, [held EXCEPT ![r] = connOf[Me]]},
         UNCHANGED <<cl, connOf, clientVars, net>>,
         to = "register" => ~S!Registered(Me),
         to \in Past => pc[r] \in Past \/ S!Registered(Me),
         to \in Holding => pc[r] \in Holding \/ held' = [held EXCEPT ![r] = connOf[Me]]
  PROVE  SystemInv'
<1> USE DEF SystemInv, clientVars
<1>1. TypeInv'
  BY DEF TypeInv
<1>2. Placed'
  BY DEF TypeInv, Placed
<1>3. OneCredit => OneCredit'
  BY DEF OneCredit, C!Spending
<1>4. ASSUME timer = "armed", NEW q \in Requests
      PROVE  /\ pc'[q] = "register" => ~S!Registered(Me)
             /\ pc'[q] \in Past => S!Registered(Me)
             /\ pc'[q] \in Holding => held'[q] = connOf[Me]
  <2>1. Protocol
    BY <1>4
  <2>2. CASE q = r
    BY <1>4, <2>1, <2>2 DEF Protocol, TypeInv
  <2>3. CASE q # r
    BY <1>4, <2>1, <2>3 DEF Protocol, TypeInv
  <2> QED
    BY <2>2, <2>3
<1>5. timer' = "armed" => Protocol'
  BY <1>3, <1>4 DEF Protocol, S!Registered
<1> QED
  BY <1>1, <1>2, <1>5

\* The call that stores the Connection is the only one there can be: another would have to be
\* with the server too, on the one credit of a client that nobody has answered.
LEMMA RegisterKeeps ==
  ASSUME SystemInv, NEW r \in Requests, S!Register(r), UNCHANGED <<clientVars, net>>
  PROVE  SystemInv' /\ (timer = "armed" => ~S!Registered(Me))
<1> USE DEF SystemInv, clientVars
<1>1. /\ pc[r] = "register" /\ pc' = [pc EXCEPT ![r] = "count"]
      /\ cl[r] = Me /\ connOf' = [connOf EXCEPT ![Me] = r]
      /\ UNCHANGED <<cl, held>>
  BY DEF S!Register, S!Goto, S!reqLocal, Placed
<1>2. TypeInv' /\ S!Registered(Me)'
  BY <1>1, SystemAssumption DEF TypeInv, S!ReqPCs, S!Registered, SystemAssumption
<1>3. Placed'
  BY <1>1 DEF TypeInv, Placed
<1>4. ASSUME timer = "armed"
      PROVE  /\ ~S!Registered(Me) /\ ~answered
             /\ \A q \in Requests : pc[q] # "idle" => q = r
  <2>1. Protocol /\ ~S!Registered(Me) /\ ~answered
    BY <1>1, <1>4 DEF Protocol
  <2>2. \A q \in Requests : pc[q] # "idle" => C!Spending(q)
    BY DEF Placed, C!Spending
  <2> QED
    BY <1>1, <2>1, <2>2 DEF Protocol, OneCredit
<1>5. OneCredit => OneCredit'
  BY DEF OneCredit, C!Spending
<1>6. timer' = "armed" => Protocol'
  <2> SUFFICES ASSUME timer' = "armed" PROVE Protocol'
    OBVIOUS
  <2>1. \A q \in Requests : pc'[q] \notin Holding /\ pc'[q] # "register"
    BY <1>1, <1>4 DEF TypeInv, Holding
  <2> QED
    BY <1>2, <1>5, <2>1 DEF Protocol
<1> QED
  BY <1>2, <1>3, <1>4, <1>6

\* The credits are stored with the Connection the call holds: the one that is stored.
LEMMA PutKeeps ==
  ASSUME SystemInv, NEW r \in Requests, S!PutIssued(r), UNCHANGED <<clientVars, net>>
  PROVE  SystemInv' /\ (timer = "armed" => UNCHANGED connOf)
<1> USE DEF SystemInv, clientVars
<1>1. /\ pc[r] = "put" /\ pc' = [pc EXCEPT ![r] = "add"]
      /\ cl[r] = Me /\ connOf' = [connOf EXCEPT ![Me] = held[r]]
      /\ UNCHANGED <<cl, held>>
  BY DEF S!PutIssued, S!Goto, S!reqLocal, Placed
<1>2. TypeInv'
  BY <1>1 DEF TypeInv, S!ReqPCs
<1>3. Placed'
  BY <1>1 DEF TypeInv, Placed
<1>4. timer = "armed" => UNCHANGED connOf
  BY <1>1 DEF Protocol, TypeInv, Holding
<1>5. CASE timer = "armed"
  <2>1. UNCHANGED connOf
    BY <1>4, <1>5
  <2> QED
    BY <1>1, <2>1, ServerQuiet DEF S!ReqPCs, Past, Holding
<1>6. CASE timer # "armed"
  BY <1>2, <1>3, <1>6
<1> QED
  BY <1>4, <1>5, <1>6

\* The steps that read the stored Connection hold it from then on.
LEMMA ReadKeeps ==
  ASSUME SystemInv, NEW r \in Requests,
         S!Lookup(r) \/ S!CountClient(r) \/ S!Reload(r),
         UNCHANGED <<clientVars, net>>
  PROVE  SystemInv' /\ UNCHANGED connOf
<1>1. /\ cl[r] = Me /\ UNCHANGED <<cl, connOf>>
      /\ held' = [held EXCEPT ![r] = connOf[Me]]
  BY DEF SystemInv, Placed, S!Lookup, S!CountClient, S!Reload, S!Goto, S!connVars
<1>2. CASE S!Lookup(r)
  <2>1. PICK to \in {"lock", "register"} :
          /\ pc' = [pc EXCEPT ![r] = to]
          /\ to = "register" <=> ~S!Registered(Me)
    BY <1>1, <1>2 DEF S!Lookup, S!Goto
  <2>2. pc[r] # "idle"
    BY <1>2 DEF S!Lookup, S!Goto
  <2> QED
    BY <1>1, <2>1, <2>2, ServerQuiet DEF S!ReqPCs, Past, Registering, Holding
<1>3. CASE S!CountClient(r) \/ S!Reload(r)
  <2>1. PICK to \in {"lock", "take"} : pc' = [pc EXCEPT ![r] = to]
    BY <1>3 DEF S!CountClient, S!Reload, S!Goto
  <2>2. pc[r] \in {"count", "reload"}
    BY <1>3 DEF S!CountClient, S!Reload, S!Goto
  <2> QED
    BY <1>1, <2>1, <2>2, ServerQuiet DEF S!ReqPCs, Past, Registering, Holding
<1> QED
  BY <1>1, <1>2, <1>3

LEMMA CreditKeeps ==
  ASSUME SystemInv, NEW r \in Requests, S!Pass(r) \/ S!Credit(r),
         UNCHANGED <<clientVars, net>>
  PROVE  /\ SystemInv'
         /\ timer = "armed" /\ S!Registered(Me) => connOf'[Me] = connOf[Me]
<1>1. CASE S!Register(r)
  BY <1>1, RegisterKeeps
<1>2. CASE S!PutIssued(r)
  BY <1>2, PutKeeps
<1>3. CASE S!Lookup(r) \/ S!CountClient(r) \/ S!Reload(r)
  BY <1>3, ReadKeeps
<1>4. CASE S!Pass(r)
  <2>1. /\ pc[r] = "aqm" /\ pc' = [pc EXCEPT ![r] = "lookup"]
        /\ UNCHANGED <<cl, connOf, held>>
    BY <1>4, SystemAssumption
       DEF S!Pass, S!Goto, S!reqLocal, S!connVars, SystemInv, Placed, SystemAssumption
  <2> QED
    BY <2>1, ServerQuiet DEF S!ReqPCs, Past, Registering, Holding
<1>5. CASE \/ S!Lock(r) \/ S!TakeStamp(r) \/ S!Overcommit(r) \/ S!DecideHigher(r)
           \/ S!DecideLower(r) \/ S!Higher(r) \/ S!AddIssued(r) \/ S!Unlock(r) \/ S!Stamp(r)
  <2>1. UNCHANGED <<cl, connOf, held>>
    BY <1>5 DEF S!Lock, S!TakeStamp, S!Overcommit, S!DecideHigher, S!DecideLower, S!Higher,
                S!AddIssued, S!Unlock, S!Stamp, S!reqLocal, S!connVars
  <2>2. PICK to \in Past :
          /\ pc' = [pc EXCEPT ![r] = to] /\ pc[r] \in Past
          /\ to \in Holding => pc[r] \in Holding
    BY <1>5 DEF S!Lock, S!TakeStamp, S!Overcommit, S!DecideHigher, S!DecideLower, S!Higher,
                S!AddIssued, S!Unlock, S!Stamp, S!Goto, Past, Registering, Holding
  <2> QED
    BY <2>1, <2>2, ServerQuiet DEF S!ReqPCs, Past, Registering, Holding
<1> QED
  BY <1>1, <1>2, <1>3, <1>4, <1>5 DEF S!Credit

\* What the server does apart from its calls: time, latencies and rttUpdate.
LEMMA BackgroundKeeps ==
  ASSUME SystemInv,
         \/ S!Elapse
         \/ \E d \in Latencies : S!Latency(d)
         \/ \E u \in Updaters : S!Update(u),
         UNCHANGED <<clientVars, net>>
  PROVE  SystemInv' /\ UNCHANGED connOf
<1>1. UNCHANGED <<pc, cl, held, connOf>>
  BY DEF S!Elapse, S!Latency, S!Update, S!CheckTime, S!TryRttLock, S!ReportDelay, S!BeginUpdate,
         S!RangeVisit, S!SetIssued, S!UpdateTotal, S!connVars, S!reqLocal
<1> QED
  BY <1>1 DEF clientVars, SystemInv, TypeInv, Placed, Protocol, OneCredit, C!Spending,
              S!Registered

\* A call leaves the server, with an answer only if its client is registered by then.
LEMMA LeaveKeeps ==
  ASSUME SystemInv, NEW r \in Requests, pc[r] # "idle", pc' = [pc EXCEPT ![r] = "idle"],
         cl' = [cl EXCEPT ![r] = NoClient], held' = [held EXCEPT ![r] = NoConn],
         NEW answer \in {"response", "error"}, net' = [net EXCEPT ![r] = answer],
         answer = "response" => pc[r] \in Past,
         UNCHANGED <<clientVars, connOf>>
  PROVE  SystemInv'
<1> USE DEF SystemInv, clientVars
<1>1. TypeInv'
  BY DEF TypeInv, Places, S!ReqPCs
<1>2. Placed'
  BY DEF TypeInv, Placed
<1>3. OneCredit => OneCredit'
  BY DEF OneCredit, C!Spending
<1>4. timer' = "armed" => Protocol'
  BY <1>3 DEF Protocol, TypeInv, S!Registered, Past, Registering, Holding
<1> QED
  BY <1>1, <1>2, <1>4

LEMMA ShedKeeps ==
  ASSUME SystemInv, NEW r \in Requests, ShedCall(r)
  PROVE  SystemInv' /\ UNCHANGED connOf
<1>1. /\ pc[r] = "aqm" /\ pc' = [pc EXCEPT ![r] = "idle"]
      /\ cl' = [cl EXCEPT ![r] = NoClient] /\ held' = [held EXCEPT ![r] = NoConn]
      /\ net' = [net EXCEPT ![r] = "error"]
      /\ UNCHANGED <<clientVars, connOf>>
  BY DEF ShedCall, S!Shed, S!Goto, S!Forget, S!connVars
<1> QED
  BY <1>1, LeaveKeeps

LEMMA ReplyKeeps ==
  ASSUME SystemInv, NEW r \in Requests, Reply(r)
  PROVE  SystemInv' /\ UNCHANGED connOf
<1>1. /\ pc[r] = "handle" /\ pc' = [pc EXCEPT ![r] = "idle"]
      /\ cl' = [cl EXCEPT ![r] = NoClient] /\ held' = [held EXCEPT ![r] = NoConn]
      /\ UNCHANGED <<clientVars, connOf>>
  BY DEF Reply, S!Handle, S!Goto, S!Forget, S!connVars
<1>2. PICK answer \in {"response", "error"} : net' = [net EXCEPT ![r] = answer]
  BY DEF Reply
<1>3. pc[r] \in Past
  BY <1>1 DEF Past
<1> QED
  BY <1>1, <1>2, <1>3, LeaveKeeps

LEMMA ReceiveKeeps ==
  ASSUME SystemInv, NEW r \in Requests, Receive(r)
  PROVE  SystemInv'
<1> USE DEF SystemInv
<1>1. /\ net' = [net EXCEPT ![r] = "none"] /\ cpc[r] = "sent" /\ pc[r] = "idle"
      /\ UNCHANGED <<timer, pc, cl, held, connOf>>
  BY DEF Receive, C!ReturnCredits, C!Fail, C!Goto, serverVars, Placed
<1>2. PICK to \in {"notify", "idle"} : cpc' = [cpc EXCEPT ![r] = to]
  BY DEF Receive, C!ReturnCredits, C!Fail, C!Goto
<1>3. TypeInv'
  BY <1>1, <1>2 DEF TypeInv, Places, C!PCs
<1>4. Placed'
  BY <1>1, <1>2 DEF TypeInv, Placed
<1>5. CASE net[r] = "response" /\ answered'
  BY <1>1, <1>3, <1>4, <1>5 DEF Protocol, TypeInv, S!Registered
<1>6. CASE UNCHANGED <<credits, answered>>
  <2>1. \A q \in Requests : C!Spending(q)' => C!Spending(q)
    BY <1>1, <1>2 DEF TypeInv, C!Spending
  <2>2. OneCredit => OneCredit'
    BY <1>6, <2>1 DEF OneCredit
  <2>3. timer' = "armed" => Protocol'
    BY <1>1, <1>6, <2>2 DEF Protocol, TypeInv, S!Registered
  <2> QED
    BY <1>3, <1>4, <2>3
<1> QED
  BY <1>5, <1>6 DEF Receive, C!ReturnCredits, C!Fail
-----------------------------------------------------------------------------
LEMMA SystemStep ==
  ASSUME SystemInv, [Next]_vars
  PROVE  /\ SystemInv'
         /\ timer = "armed" /\ S!Registered(Me) => connOf'[Me] = connOf[Me]
<1>1. CASE ClientStep
  <2>1. UNCHANGED <<pc, cl, held, connOf>>
    BY <1>1 DEF ClientStep, serverVars
  <2> QED
    BY <1>1, <2>1, ClientKeeps DEF ClientStep
<1>2. CASE TimerStep
  BY <1>2, TimerKeeps DEF TimerStep, serverVars
<1>3. CASE ServerStep
  <2>1. UNCHANGED <<clientVars, net>>
    BY <1>3 DEF ServerStep
  <2> QED
    BY <1>3, <2>1, CreditKeeps, BackgroundKeeps DEF ServerStep
<1>4. ASSUME NEW r \in Requests, Travel(r)
      PROVE  SystemInv' /\ UNCHANGED connOf
  <2>1. CASE Deliver(r)
    BY <2>1, DeliverKeeps DEF Deliver, S!Arrive, S!connVars
  <2>2. CASE ShedCall(r)
    BY <2>2, ShedKeeps
  <2>3. CASE Reply(r)
    BY <2>3, ReplyKeeps
  <2>4. CASE Receive(r)
    BY <2>4, ReceiveKeeps DEF Receive, serverVars
  <2> QED
    BY <1>4, <2>1, <2>2, <2>3, <2>4 DEF Travel
<1>5. CASE UNCHANGED vars
  BY <1>5 DEF vars, serverVars, clientVars, SystemInv, TypeInv, Placed, Protocol, OneCredit,
              C!Spending, S!Registered
<1> QED
  BY <1>1, <1>2, <1>3, <1>4, <1>5 DEF Next

\* No two calls register the client before its timer fires: the stored Connection stays.
THEOREM RegistersOnce == Spec => RegisteredOnce
<1>1. Init => SystemInv
  BY SystemInit
<1>2. SystemInv /\ [Next]_vars => SystemInv'
  BY SystemStep
<1>3. SystemInv /\ [Next]_vars
        => [timer = "armed" /\ S!Registered(Me) => connOf'[Me] = connOf[Me]]_vars
  BY SystemStep
<1> QED
  BY <1>1, <1>2, <1>3, PTL DEF Spec, RegisteredOnce

-----------------------------------------------------------------------------
(* What the wiring gives the server.  The theorems about the server alone  *)
(* assume paced clients; here the client does the pacing, until its timer  *)
(* fires.  P is the server with that assumption.                           *)
P == INSTANCE BreakwaterServerProofs WITH
       Clients <- {Me}, Demands <- 0..MaxQLength, Paced <- TRUE

\* The demands are lengths of the queue, an answered client is known to the server, and a slot
\* of the server that holds no call names no client.
Wired ==
  /\ pending \in 0..MaxQLength
  /\ demand \in [Requests -> 0..MaxQLength]
  /\ answered => Me \in known
  /\ \A r \in Requests :
       /\ net[r] = "response" => Me \in known
       /\ pc[r] = "idle" => cl[r] = NoClient

LEMMA WiredInit == Init => Wired
BY SystemAssumption DEF Init, S!Init, C!Init, Wired, SystemAssumption

LEMMA WiredClient ==
  ASSUME SystemInv, Wired, ClientStep \/ TimerStep
  PROVE  Wired'
<1> USE SystemAssumption DEF Wired, SystemAssumption
<1>1. CASE TimerStep
  BY <1>1 DEF TimerStep, serverVars, C!TimerFires, C!TimerUnblocks
<1>2. ASSUME NEW r \in Requests, C!Call(r) \/ C!Wake(r) \/ C!Run(r),
             net' = IF C!Depart(r) THEN [net EXCEPT ![r] = "request"] ELSE net,
             UNCHANGED <<serverVars, carried>>
      PROVE  Wired'
  <2>1. /\ answered' = answered
        /\ pending' \in {pending} \union (IF pending > 0 THEN {pending - 1} ELSE {0})
                          \union (IF pending < MaxQLength THEN {pending + 1} ELSE {})
        /\ demand' \in {demand, [demand EXCEPT ![r] = pending]}
    BY <1>2 DEF C!Call, C!Wake, C!Run, C!Expire, C!InTime, C!ExpiredUnblock, C!Leave, C!Spend,
                C!NoCredit, C!PassOn, C!Measure, C!Depart, C!Notify, C!DequeueOne
  <2>2. pending' \in 0..MaxQLength /\ demand' \in [Requests -> 0..MaxQLength]
    BY <2>1
  <2> QED
    BY <1>2, <2>1, <2>2 DEF serverVars, SystemInv, TypeInv
<1> QED
  BY <1>1, <1>2 DEF ClientStep

\* The steps of the server alone leave the client's side and the way alone.
LEMMA WiredServer ==
  ASSUME SystemInv, Wired, ServerStep
  PROVE  Wired'
<1>1. UNCHANGED <<clientVars, net, known, cl>>
  BY DEF ServerStep, S!Elapse, S!Latency, S!Update, S!CheckTime, S!TryRttLock, S!ReportDelay,
         S!BeginUpdate, S!RangeVisit, S!SetIssued, S!UpdateTotal, S!Pass, S!Credit, S!Lookup,
         S!Register, S!CountClient, S!Lock, S!Reload, S!TakeStamp, S!Overcommit,
         S!DecideHigher, S!DecideLower, S!Higher, S!PutIssued, S!AddIssued, S!Unlock, S!Stamp,
         S!reqLocal
<1>2. \A q \in Requests : pc'[q] = "idle" => pc[q] = "idle"
  <2>1. CASE UNCHANGED pc
    BY <2>1
  <2>2. ASSUME NEW r \in Requests, S!Pass(r) \/ S!Credit(r)
        PROVE  \E to \in S!ReqPCs \ {"idle"} : pc' = [pc EXCEPT ![r] = to]
    BY <2>2
       DEF S!Pass, S!Credit, S!Lookup, S!Register, S!CountClient, S!Lock, S!Reload, S!TakeStamp,
           S!Overcommit, S!DecideHigher, S!DecideLower, S!Higher, S!PutIssued, S!AddIssued,
           S!Unlock, S!Stamp, S!Goto, S!ReqPCs
  <2>3. UNCHANGED pc \/ \E r \in Requests : S!Pass(r) \/ S!Credit(r)
    BY DEF ServerStep, S!Elapse, S!Latency, S!Update, S!CheckTime, S!TryRttLock, S!ReportDelay,
           S!BeginUpdate, S!RangeVisit, S!SetIssued, S!UpdateTotal
  <2> QED
    BY <2>1, <2>2, <2>3 DEF SystemInv, TypeInv
<1> QED
  BY <1>1, <1>2 DEF clientVars, Wired

LEMMA WiredTravel ==
  ASSUME SystemInv, Wired, NEW r \in Requests, Travel(r)
  PROVE  Wired'
<1> USE DEF SystemInv, TypeInv, Wired
<1>1. CASE Deliver(r)
  BY <1>1, SystemAssumption
     DEF Deliver, S!Arrive, S!Goto, S!Admitted, clientVars, SystemAssumption
<1>2. CASE ShedCall(r)
  BY <1>2 DEF ShedCall, S!Shed, S!Goto, S!Forget, clientVars
<1>3. CASE Reply(r)
  <2>1. /\ pc[r] = "handle" /\ pc' = [pc EXCEPT ![r] = "idle"]
        /\ cl' = [cl EXCEPT ![r] = NoClient] /\ known' = known \union ({cl[r]} \ {NoClient})
        /\ UNCHANGED clientVars
    BY <1>3 DEF Reply, S!Handle, S!Goto, S!Forget
  <2>2. Me \in known'
    BY <2>1, SystemAssumption DEF Placed, SystemAssumption
  <2> QED
    BY <2>1, <2>2 DEF clientVars
<1>4. CASE Receive(r)
  <2>1. /\ net' = [net EXCEPT ![r] = "none"] /\ UNCHANGED <<pc, cl, known, pending>>
        /\ demand' = [demand EXCEPT ![r] = 0]
        /\ answered' => answered \/ net[r] = "response"
    BY <1>4 DEF Receive, C!ReturnCredits, C!Fail, serverVars
  <2> QED
    BY <2>1, SystemAssumption DEF SystemAssumption
<1> QED
  BY <1>1, <1>2, <1>3, <1>4 DEF Travel

LEMMA WiredStep ==
  ASSUME SystemInv, Wired, [Next]_vars
  PROVE  Wired'
<1>1. CASE UNCHANGED vars
  BY <1>1 DEF vars, serverVars, clientVars, Wired
<1> QED
  BY <1>1, WiredClient, WiredServer, WiredTravel DEF Next

\* Word for word the steps of the two instances are the same, apart from a call's arrival.
LEMMA SameServer ==
  /\ S!Elapse => P!Elapse
  /\ \A d \in Latencies : S!Latency(d) => P!Latency(d)
  /\ \A r \in Requests : S!Pass(r) \/ S!Credit(r) \/ S!Shed(r) => P!Serve(r)
  /\ \A r \in Requests, u \in Updaters : S!Handle(r, u) => P!Serve(r)
  /\ \A u \in Updaters : S!Update(u) => P!Update(u)
<1> USE DEF S!Goto, P!Goto, S!Registered, P!Registered, S!conn, P!conn, S!Forget, P!Forget,
            S!connVars, P!connVars, S!poolVars, P!poolVars, S!timeVars, P!timeVars,
            S!reqLocal, P!reqLocal, S!updVars, P!updVars, S!Max2, P!Max2, S!Min2, P!Min2
<1>1. S!Elapse => P!Elapse
  BY DEF S!Elapse, P!Elapse
<1>2. \A d \in Latencies : S!Latency(d) => P!Latency(d)
  BY DEF S!Latency, P!Latency
<1>3. ASSUME NEW r \in Requests
      PROVE  S!Pass(r) \/ S!Credit(r) \/ S!Shed(r) => P!Serve(r)
  <2>1. /\ S!Pass(r) => P!Pass(r)
        /\ S!Shed(r) => P!Shed(r)
    BY DEF S!Pass, P!Pass, S!Shed, P!Shed
  <2>2. /\ S!Lookup(r) => P!Lookup(r)
        /\ S!Register(r) => P!Register(r)
        /\ S!CountClient(r) => P!CountClient(r)
    BY DEF S!Lookup, P!Lookup, S!Register, P!Register, S!CountClient, P!CountClient
  <2>3. /\ S!Lock(r) => P!Lock(r)
        /\ S!Reload(r) => P!Reload(r)
        /\ S!TakeStamp(r) => P!TakeStamp(r)
    BY DEF S!Lock, P!Lock, S!Reload, P!Reload, S!TakeStamp, P!TakeStamp
  <2>4. S!Overcommit(r) => P!Overcommit(r)
    BY DEF S!Overcommit, P!Overcommit, S!CreditsToOvercommit, P!CreditsToOvercommit, S!IntMin,
           P!IntMin, S!RoundDiv, P!RoundDiv
  <2>5. /\ S!DecideHigher(r) => P!DecideHigher(r)
        /\ S!DecideLower(r) => P!DecideLower(r)
        /\ S!Higher(r) => P!Higher(r)
    BY DEF S!DecideHigher, P!DecideHigher, S!DecideLower, P!DecideLower, S!Higher, P!Higher,
           S!LowerCredits, P!LowerCredits, S!HigherCredits, P!HigherCredits
  <2>6. /\ S!PutIssued(r) => P!PutIssued(r)
        /\ S!AddIssued(r) => P!AddIssued(r)
    BY DEF S!PutIssued, P!PutIssued, S!AddIssued, P!AddIssued
  <2>7. /\ S!Unlock(r) => P!Unlock(r)
        /\ S!Stamp(r) => P!Stamp(r)
    BY DEF S!Unlock, P!Unlock, S!Stamp, P!Stamp
  <2> QED
    BY <2>1, <2>2, <2>3, <2>4, <2>5, <2>6, <2>7 DEF S!Credit, P!Credit, P!Serve
<1>4. ASSUME NEW r \in Requests, NEW u \in Updaters
      PROVE  S!Handle(r, u) => P!Serve(r)
  BY DEF S!Handle, P!Handle, S!UGoto, P!UGoto, P!Serve
<1>5. ASSUME NEW u \in Updaters
      PROVE  S!Update(u) => P!Update(u)
  <2> USE DEF S!UGoto, P!UGoto, S!GetDelay, P!GetDelay
  <2>1. /\ S!CheckTime(u) => P!CheckTime(u)
        /\ S!TryRttLock(u) => P!TryRttLock(u)
        /\ S!ReportDelay(u) => P!ReportDelay(u)
    BY DEF S!CheckTime, P!CheckTime, S!TryRttLock, P!TryRttLock, S!ReportDelay, P!ReportDelay
  <2>2. /\ S!BeginUpdate(u) => P!BeginUpdate(u)
        /\ \A c \in {Me} : S!RangeVisit(u, c) => P!RangeVisit(u, c)
        /\ S!SetIssued(u) => P!SetIssued(u)
    BY DEF S!BeginUpdate, P!BeginUpdate, S!RangeVisit, P!RangeVisit, S!SetIssued, P!SetIssued
  <2>3. S!UpdateTotal(u) => P!UpdateTotal(u)
    BY DEF S!UpdateTotal, P!UpdateTotal, S!UpdatedTotal, P!UpdatedTotal, S!AdditiveFactor,
           P!AdditiveFactor, S!MultiplicativePercent, P!MultiplicativePercent, S!RoundDiv,
           P!RoundDiv
  <2> QED
    BY <2>1, <2>2, <2>3 DEF S!Update, P!Update
<1> QED
  BY <1>1, <1>2, <1>3, <1>4, <1>5

\* A call reaches the server while nobody has answered the client only if it is the one the
\* first credit paid for: the server holds no other.
LEMMA PacedArrival ==
  ASSUME SystemInv, Wired, timer = "armed", NEW r \in Requests, Deliver(r)
  PROVE  P!Arrive(r, Me, demand[r])
<1>1. net[r] = "request" /\ pc[r] = "idle" /\ S!Arrive(r, Me, demand[r])
  BY DEF Deliver, S!Arrive, S!Goto
<1>2. ASSUME Me \notin known, NEW q \in Requests
      PROVE  cl[q] # Me
  <2>1. ~answered /\ OneCredit
    BY <1>2 DEF SystemInv, Protocol, Wired
  <2>2. C!Spending(r) /\ (pc[q] # "idle" => C!Spending(q))
    BY <1>1 DEF SystemInv, Placed, C!Spending
  <2>3. pc[q] = "idle"
    BY <1>1, <2>1, <2>2 DEF OneCredit
  <2> QED
    BY <2>3, SystemAssumption DEF Wired, SystemAssumption
<1> QED
  BY <1>1, <1>2
     DEF S!Arrive, P!Arrive, S!Goto, P!Goto, S!Admitted, P!Admitted, S!connVars, P!connVars,
         S!poolVars, P!poolVars, S!timeVars, P!timeVars, S!updVars, P!updVars

\* Until the timer fires a step of the system is a step of the paced server or none of its.
LEMMA PacedStep ==
  ASSUME SystemInv, Wired, timer = "armed", [Next]_vars
  PROVE  [P!Next]_serverVars
<1>1. CASE ClientStep \/ TimerStep \/ UNCHANGED vars
  BY <1>1 DEF ClientStep, TimerStep, vars
<1>2. CASE ServerStep
  BY <1>2, SameServer DEF ServerStep, P!Next
<1>3. ASSUME NEW r \in Requests, Travel(r)
      PROVE  [P!Next]_serverVars
  <2>1. CASE Deliver(r)
    <3>1. P!Arrive(r, Me, demand[r]) /\ demand[r] \in 0..MaxQLength
      BY <2>1, PacedArrival DEF Wired
    <3> QED
      BY <3>1 DEF P!Next, P!Load
  <2>2. CASE ShedCall(r) \/ Reply(r)
    BY <2>2, SameServer DEF ShedCall, Reply, P!Next
  <2>3. CASE Receive(r)
    BY <2>3 DEF Receive
  <2> QED
    BY <1>3, <2>1, <2>2, <2>3 DEF Travel
<1> QED
  BY <1>1, <1>2, <1>3 DEF Next

\* The one client keeps to its pace by itself: until its timer fires, whatever the network
\* delays, the server takes only steps of a server whose clients are paced.
ServerIsPaced == [][timer = "armed" => [P!Next]_serverVars]_vars

THEOREM ClientPacesServer == Spec => ServerIsPaced
<1>1. SystemInv /\ Wired /\ [Next]_vars => SystemInv' /\ Wired'
  BY SystemStep, WiredStep
<1>2. SystemInv /\ Wired /\ [Next]_vars => [timer = "armed" => [P!Next]_serverVars]_vars
  BY PacedStep
<1> QED
  BY <1>1, <1>2, SystemInit, WiredInit, PTL DEF Spec, ServerIsPaced

LEMMA Fits ==
  /\ NoClient \notin {Me}
  /\ NoConn \notin Requests
  /\ P!IsFiniteSet({Me}) /\ P!IsFiniteSet(Requests)
  /\ 0..MaxQLength \subseteq Nat
  /\ LoadShedding \in BOOLEAN
  /\ TRUE \in BOOLEAN
  /\ Warm \in BOOLEAN
  /\ InitialCredits \in Nat \ {0}
  /\ APercent \in Nat
  /\ BPercent \in Nat
  /\ Latencies \subseteq Nat \ {0}
  /\ MaxTicks \in Nat
<1>1. IsFiniteSet({Me})
  BY FS_Singleton
<1>2. P!IsFiniteSet({Me}) /\ P!IsFiniteSet(Requests)
  BY <1>1, SystemAssumption DEF SystemAssumption, IsFiniteSet, P!IsFiniteSet
<1> QED
  BY <1>2, SystemAssumption DEF SystemAssumption

\* The invariant of the paced server, from its own proofs.
ServerInv == P!TypeInv /\ P!LockInv /\ P!CountInv

LEMMA ServerInit == Init => ServerInv
<1>1. S!Init => P!Init
  BY DEF S!Init, P!Init, S!AdditiveFactor, P!AdditiveFactor, S!RoundDiv, P!RoundDiv, S!Max2,
         P!Max2
<1>2. P!Init => P!TypeInv
  BY Fits, P!TypeInit
<1>3. P!Init => P!LockInv
  BY Fits, P!LockInit
<1>4. P!Init => P!CountInv
  BY Fits, P!CountInit
<1> QED
  BY <1>1, <1>2, <1>3, <1>4 DEF Init, ServerInv

LEMMA ServerStepKeeps ==
  ASSUME ServerInv, [P!Next]_serverVars
  PROVE  ServerInv'
<1>1. [P!Next]_P!vars
  BY DEF serverVars, P!vars, P!connVars, P!poolVars, P!timeVars, P!reqLocal, P!updVars
<1>2. P!TypeInv'
  BY <1>1, Fits, P!TypeStep DEF ServerInv
<1>3. P!LockInv'
  BY <1>1, Fits, P!LockStep DEF ServerInv
<1>4. P!CountInv'
  BY <1>1, Fits, P!CountStep DEF ServerInv
<1> QED
  BY <1>2, <1>3, <1>4 DEF ServerInv

\* A system whose timer has not fired has a server that keeps what it promises paced clients.
Promised ==
  timer = "armed" =>
    S!ConnMutex /\ S!IssueIsCurrent /\ S!SendsNeverBlock /\ S!ClientsCounted

LEMMA ServerPromises ==
  ServerInv => P!ConnMutex /\ P!IssueIsCurrent /\ P!SendsNeverBlock /\ P!ClientsCounted
<1>1. P!LockInv => P!ConnMutex /\ P!IssueIsCurrent /\ P!SendsNeverBlock
  BY DEF P!LockInv, P!Owned, P!SendsNeverBlock, P!InCritical, P!Stamping
<1>2. P!CountInv => P!ClientsCounted
  BY DEF P!CountInv, P!ClientsCounted, P!Counting, P!Stocked, P!Holding
<1> QED
  BY <1>1, <1>2 DEF ServerInv

LEMMA SamePromises ==
  /\ P!ConnMutex => S!ConnMutex
  /\ P!IssueIsCurrent => S!IssueIsCurrent
  /\ P!SendsNeverBlock => S!SendsNeverBlock
  /\ P!ClientsCounted => S!ClientsCounted
<1>1. /\ P!ConnMutex => S!ConnMutex
      /\ P!IssueIsCurrent => S!IssueIsCurrent
      /\ P!SendsNeverBlock => S!SendsNeverBlock
  BY DEF P!ConnMutex, S!ConnMutex, P!IssueIsCurrent, S!IssueIsCurrent, P!SendsNeverBlock,
         S!SendsNeverBlock, P!InCritical, S!InCritical, P!conn, S!conn
<1>2. \A X : P!Cardinality(X) = S!Cardinality(X)
  BY Zenon DEF P!Cardinality, S!Cardinality
<1>3. P!ClientsCounted => S!ClientsCounted
  BY <1>2 DEF P!ClientsCounted, S!ClientsCounted, P!Registered, S!Registered
<1> QED
  BY <1>1, <1>3

LEMMA TimerStaysFired == ASSUME [Next]_vars, timer' = "armed" PROVE timer = "armed"
BY DEF Next, ClientStep, TimerStep, ServerStep, Travel, Deliver, ShedCall, Reply, Receive,
       C!TimerFires, C!TimerUnblocks, C!Call, C!Wake, C!Run, C!Expire, C!InTime,
       C!ExpiredUnblock, C!Leave, C!Spend, C!NoCredit, C!PassOn, C!Measure, C!Depart, C!Notify,
       C!ReturnCredits, C!Fail, clientVars, vars

\* Until its timer fires, one client alone gives the server what the theorems about the server
\* assume of it: its calls never share the critical section of its Connection, overwrite no
\* grant, never block on the two sends, and the overcommitment never divides by zero.
THEOREM PromisesHold == Spec => []Promised
<1> DEFINE Inv == SystemInv /\ Wired /\ (timer = "armed" => ServerInv)
<1>1. Init => Inv
  BY SystemInit, WiredInit, ServerInit
<1>2. Inv /\ [Next]_vars => Inv'
  <2> SUFFICES ASSUME Inv, [Next]_vars PROVE Inv'
    OBVIOUS
  <2>1. SystemInv' /\ Wired'
    BY SystemStep, WiredStep
  <2>2. ASSUME timer' = "armed" PROVE ServerInv'
    BY <2>2, TimerStaysFired, PacedStep, ServerStepKeeps
  <2> QED
    BY <2>1, <2>2
<1>3. Inv => Promised
  BY ServerPromises, SamePromises DEF Promised
<1> QED
  BY <1>1, <1>2, <1>3, PTL DEF Spec
=============================================================================
