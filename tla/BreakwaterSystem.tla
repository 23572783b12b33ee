-------------------------- MODULE BreakwaterSystem --------------------------
(***************************************************************************)
(* One Breakwater client and the server it calls: BreakwaterClient and     *)
(* BreakwaterServer joined by the calls that travel between them.  A call  *)
(* is a request until the server takes it, then with the server, then a    *)
(* response that carries the granted credits or an error; calls are        *)
(* independent of each other, so requests and responses overtake.          *)
(*                                                                         *)
(* The server runs without its own assumption on the clients (Paced is     *)
(* FALSE): what the client does decides which calls meet in RegisterClient.*)
(* This is the wiring of hotelApp's breakwaterd, InitializeBreakwaterd and *)
(* CreateGRPCConn, for one downstream service.                             *)
(***************************************************************************)
EXTENDS Integers, FiniteSets

CONSTANTS
  Me,             \* the client's id
  Requests, Updaters, NoClient, NoConn,
  LoadShedding, InitialCredits, Warm, APercent, BPercent, Latencies, MaxTicks,
  MaxQLength, TimerCredits, UseExpiration, UseQueueLength,
  MayFail         \* handlers may return an error

ASSUME SystemAssumption ==
  /\ Me # NoClient
  /\ NoConn \notin Requests
  /\ IsFiniteSet(Requests)
  /\ LoadShedding \in BOOLEAN /\ Warm \in BOOLEAN
  /\ InitialCredits \in Nat \ {0}
  /\ APercent \in Nat /\ BPercent \in Nat
  /\ Latencies \subseteq Nat \ {0}
  /\ MaxTicks \in Nat
  /\ MaxQLength \in Nat \ {0}

VARIABLES
  connOf, issued, lockIn, stampIn, fresh, numClients, cTotal, cIssued,
  queueingDelay, recent, primed, elapsed, ticks, known, pc, cl, dem, held, prev, oc, new,
  rttLock, upc, toVisit, total,                              \* the server
  blocker, credits, pending, timer, answered, cpc, demand,   \* the client
  net,    \* where a sent call is: "none", "request", "server", "response" or "error"
  carried \* the credits header of a response

S == INSTANCE BreakwaterServer WITH
       Clients <- {Me}, Demands <- 0..MaxQLength, Paced <- FALSE
C == INSTANCE BreakwaterClient WITH
       pc <- cpc, Grants <- Nat, MayFail <- TRUE

serverVars == <<connOf, issued, lockIn, stampIn, fresh, numClients, cTotal, cIssued,
                queueingDelay, recent, primed, elapsed, ticks, known, pc, cl, dem, held, prev,
                oc, new, rttLock, upc, toVisit, total>>
clientVars == <<blocker, credits, pending, timer, answered, cpc, demand>>
vars == <<serverVars, clientVars, net, carried>>

Init ==
  /\ S!Init
  /\ C!Init
  /\ net = [r \in Requests |-> "none"]
  /\ carried = [r \in Requests |-> 0]
-----------------------------------------------------------------------------
\* A step of the client; a call that departs becomes a request on the way.
ClientStep ==
  /\ \E r \in Requests :
       /\ C!Call(r) \/ C!Wake(r) \/ C!Run(r)
       /\ net' = IF C!Depart(r) THEN [net EXCEPT ![r] = "request"] ELSE net
  /\ UNCHANGED <<serverVars, carried>>

TimerStep ==
  /\ C!TimerFires \/ C!TimerUnblocks
  /\ UNCHANGED <<serverVars, net, carried>>

\* The interceptor starts with the id and the demand of the metadata.
Deliver(r) ==
  /\ net[r] = "request"
  /\ S!Arrive(r, Me, demand[r])
  /\ net' = [net EXCEPT ![r] = "server"]
  /\ UNCHANGED <<clientVars, carried>>

ServerStep ==
  /\ \/ S!Elapse
     \/ \E d \in Latencies : S!Latency(d)
     \/ \E r \in Requests : S!Pass(r) \/ S!Credit(r)
     \/ \E u \in Updaters : S!Update(u)
  /\ UNCHANGED <<clientVars, net, carried>>

\* AQM: the error leaves without credits.
ShedCall(r) ==
  /\ S!Shed(r)
  /\ net' = [net EXCEPT ![r] = "error"]
  /\ UNCHANGED <<clientVars, carried>>

\* The handler returns a result or an error; the header was set before it ran.
Reply(r) ==
  /\ \E u \in Updaters : S!Handle(r, u)
  /\ \E answer \in {"response"} \union (IF MayFail THEN {"error"} ELSE {}) :
       net' = [net EXCEPT ![r] = answer]
  /\ carried' = [carried EXCEPT ![r] = new[r]]
  /\ UNCHANGED clientVars

\* The client reads the header of a response and not that of an error.
Receive(r) ==
  /\ \/ net[r] = "response" /\ C!ReturnCredits(r, carried[r])
     \/ net[r] = "error" /\ C!Fail(r)
  /\ net' = [net EXCEPT ![r] = "none"]
  /\ carried' = [carried EXCEPT ![r] = 0]
  /\ UNCHANGED serverVars
-----------------------------------------------------------------------------
Travel(r) == Deliver(r) \/ ShedCall(r) \/ Reply(r) \/ Receive(r)

Next ==
  \/ ClientStep \/ TimerStep \/ ServerStep
  \/ \E r \in Requests : Travel(r)

Spec == Init /\ [][Next]_vars
-----------------------------------------------------------------------------
\* As long as the timer has not fired the client never makes two of its calls register it:
\* the stored Connection stays, although RegisterClient checks and stores in two steps.
RegisteredOnce == [][timer = "armed" /\ S!Registered(Me) => connOf'[Me] = connOf[Me]]_vars

=============================================================================
