# A TLA+ development of the experiments gateway

The repository runs benchmark applications (`hotelApp`: hotel and social
services over gRPC) behind four interchangeable overload controls, each a pair
of gRPC interceptors: Breakwater (`breakwater-grpc-main`), Dagor
(`dagor-grpc-main`), Rajomon (`rajomon-main`) and TopDown
(`topdown-grpc-main`). This directory models the controls and the
services: TLA+ modules translated from the Go source, TLC runs over small
instances, and proofs that TLAPS checks for every instance.

`PROJECT.json` lists components, runs, mutants, the source lines of every
definition, findings, hazards and theorems. This file explains them.

## 1. Inventory

### Breakwater (modelled)

*Server* (`server_interceptor.go`, `breakwater.go`). State: `clientMap`
(client id to `Connection`: issued credits and two capacity-one channels used
as locks, `issuedWriteLock` and `lastUpdated`), the one-place channels
`numClients`, `cIssued` and `rttLock`, the plain `cTotal` and `lastUpdateTime`, and the queueing
delay owned by `manageQueueingDelay`. Operations: `UnaryInterceptor` (shed when the
delay reaches `aqmDelay`, `RegisterClient`, `updateCreditsToIssue`, the
handler, `go rttUpdate()`), and `rttUpdate` (once per RTT: recompute `cIssued`
from the map, raise or lower `cTotal` by the delay). Every call is a goroutine, every
handled call starts another. Correct when: the credits of a client are
recomputed at most once per RTT and step down otherwise; the locks of a
connection exclude and never block their owner; the counters agree with the map; a
call is always answered.

*Client* (`client_interceptor.go`, `startTimeoutRoutine`). State: the wake-up
token `noCreditBlocker`, the balance `outgoingCredits`, the queue counter
`pendingOutgoing`, the 5-minute timer. Operations: queue, wait, expire, spend,
send, take the credits of the response. Correct when: a credit admits one call; no
wake-up is lost; the reported demand is the queue.

*Wiring* (`InitializeBreakwaterd`, `CreateGRPCConn`): one client instance per
downstream service. The server's registration is not atomic and relies on the
client sending its first call alone; only the composition shows whether it does.

### Dagor (modelled)

*Server*. State: `admissionLevel` (two atomics B and U), the histogram `N`,
`Nadm`, `C`/`CM`. Operations: compare a call with the level, count it in a
goroutine that outlives the decision, and every interval compute the level from the
histogram, clear it, swap the level. Nothing is locked. Correct when: the level
rests on the counts, every update ends, overload sheds, a node without
overload does not stay closed. *Entry service*: gives a call B from `businessMap` and
U from `userPriority`, a `sync.Map` that concurrent first calls of a user both miss and both
write. *Client*: a threshold table keyed by method, written from responses in whatever order they
return, that stops calls before they are sent. Correct when: a user keeps its priority; no response can make the
table stop every call of a method for good; what overload taught it is unlearned. *Probe*
(`queuingDelay.go`): runtime metrics, an input.

### Rajomon (end user and price table modelled; additive and mean aggregation planned)

*End user* (`UnaryInterceptorEnduser`, `tokenRefill`). State: `tokensLeft`, read and written by every call
and by the refill with plain loads and stores, the one-place channel `rateLimiter`, the price of each
method. Operations: look at the tokens, compare with the price, wait for the refill's
wake-up, deduct (compare, read again, write), send, take the price from the response. Correct when: tokens become
negative only if two calls deduct at once, and not for ever; every call ends; a call is held back while it cannot pay.

*Node* (`tokenAndPrice.go`, `LoadShedding`, `queuingCheck`). State: `priceTableMap`, a
`sync.Map` of the own price, the price of each method and of each method and node.
Operations: every response updates a method's price in several steps, a ticker moves the own price,
every call reads both and is served or shed. Correct when: the downstream price is
the maximum of the last prices, prices follow the downstream nodes and the load, a call is shed only for a
price that held. Hard: read-modify-write of the table by concurrent responses, two prices
loaded at different times, truncating arithmetic.

### TopDown (modelled)

State: per method of `sloMap` a token bucket (`Tokens`, `RefillRate`, `LastRefill`), the counters of the second in
progress (`GoodputCounter`, `LatencyHistory`) and the report (`CurrentGoodput`, `LastTailLatency95th`). Operations: `Allow` refills and
takes a token, `postProcess` counts a call that returned, a collector goroutine
makes the report in two steps, only the first under the mutex, and a learning agent reads reports and sets the rate over HTTP,
truncated to an integer. Correct when: no stretch of time lets in more than the rates allow and a bounded burst;
asking often does not cost a method its fraction of a token; a report's two numbers are of the same calls.

### hotelApp (services modelled)

*Hotel services.* State: a Redis each of `user`, `search` (the hotels of a location), `rate`, `reservation` (capacity
and reservations of a hotel), `profile`. Operations of the frontend, each a sequence of calls to the services:
`FrontendReservation` (log in, then read, check and write the availability), `StoreHotel` (four services in turn), `SearchHotels`
(the location's hotels, their rates, which have room, their profiles). Correct when: stored reservations fit in
together; a booking nobody interferes with is atomic; a listed hotel can be answered.

*Social services.* State: a Redis each of `poststorage`, `usertimeline`, `hometimeline` and `socialgraph` (both ends of
an edge, in two vertices). Operations: compose one or several posts (store, author's timeline, each follower's in turn), follow
(two read-modify-writes), read a timeline. Correct when: both ends of an edge agree; a post that was delivered is kept;
followers see nothing the author's timeline lacks; posts shown exist.

*State store* (`pkg/state`): get, set and bulk get and set on Redis, no transactions. *Invocation*: dispatch to generated
stubs. *Interceptor selection and metadata* (`overloadcontrol.go`, `forward.go`, `interceptors.go`), *configuration* and *mains*: start-up
code without a protocol.

### What is hard here

Channels used as locks and as variables, so every read-modify-write is several
steps; goroutines that outlive the call that started them; decisions taken on values read
before a lock; values that only a successful call refreshes; counters cleared one by
one; read-modify-write of lists in stores without transactions; sequences of calls that stop
half way and undo nothing. The 40 entries under `hazards` name the line of each and the properties aimed at it.

## 2. Modules

| module | what it is |
| --- | --- |
| `CreditLedger` | abstract: what the Breakwater server promises of the credits |
| `BreakwaterServer` | the server, one action per step between two channel operations |
| `BreakwaterServerProofs` | its theorems |
| `CreditGate` | abstract: what the Breakwater client promises of waiting calls |
| `BreakwaterClient` | the client interceptor and its timer |
| `BreakwaterClientProofs` | its theorems |
| `BreakwaterSystem` | one client and one server joined by the calls in flight |
| `BreakwaterSystemProofs` | its theorems: what the client guarantees the server |
| `DagorServer` | admission, histogram and level update of Dagor |
| `DagorEntry` | an entry service of Dagor: priorities of users, thresholds learned from responses |
| `DagorPriority` | what both share: the priorities and their order |
| `DagorProofs` | the theorems of both |
| `RajomonPrices` | the price table of a node: responses, ticks and calls |
| `RajomonTokens` | the end user's calls and the token refill |
| `RajomonProofs` | the theorems of both |
| `TokenBucket` | abstract: what a rate limiter promises |
| `TopDown` | buckets, measurements, collector and learning agent |
| `TopDownProofs` | its theorems |
| `StateStore` | operators: Redis as `pkg/state` uses it |
| `Hotel` | the hotel services and their frontend, any number of requests in flight |
| `HotelProofs` | its theorems |
| `Social` | the social services: graph, posts, timelines |
| `SocialProofs` | its theorems |
| `MC*` | symmetry sets and constants for TLC |

### How state and steps correspond to the code

*Channels.* A capacity-one channel used as a lock is "holds its token" (a
receive needs it, a send needs it absent and waits otherwise). `lockIn` and
`stampIn` are the sets of connections whose channels hold theirs. A channel used as a variable
(`numClients`, `cIssued`) is one atomic read or update: nobody can
see it between its receive and its send. `cTotal` is a plain `int64` that only the holder of `rttLock` writes; a
call's load of it is a step. Two reads of different
channels in one expression (`calculateCreditsToOvercommit`, and the credits
available in `getHigherCreditsIssued`) are one step.

*Goroutines.* A program counter per slot; a slot is reused when its call
or update has ended. The pc values are named for what comes next. In the server a call
goes `aqm` (when `LoadShedding`), `lookup`, `register`, `count`, `lock`, `reload`, `take`,
`overcommit`, `decide`, `higher`, `put`, `add`, `unlock`, `stamp`,
`handle`; an update goes `check`, `try`, `delay`, `begin`, `range`, `set`, `total`.

*Connections.* Two first calls may each store one, so a connection is named
by its client and the request slot that created it; `clientMap` is `connOf` (which one is
stored) and `issued`, since the code stores a copy of the whole struct.

*Time.* `elapsed` is the answer of `time.Since(lastUpdateTime) >
RTT_MICROSECOND`, `fresh` the connections whose `lastUpdated` is after
`lastUpdateTime`; `Elapse` lets a period pass. `recent` is the largest scheduling
latency since `prevHist` was taken, in units of `thresholdDelay`, so
that the two reads in one update share it as in the code.

*Arithmetic.* The credit formulas are the code's over integers, `math.Round` by
`RoundDiv`, factors in percent. A division by zero clients gives what
converting an infinity to `int64` gives on amd64 (`IntMin`); `ClientsCounted`
shows it is never reached with paced clients.

*Dagor.* Every atomic load, store and increment is a step: `LoadB`, `LoadU`,
`IncrementN`, `IncrementCell`, `IncrementNadm`, one `WalkDown` or `WalkUp` per cell, one
`ResetCell` per cell, `SwapB`, `SwapU`. `UseSyncMap` is FALSE as hotelApp sets it.

*Rajomon.* Each `Load`, `Store` and visit of `Range` on the `sync.Map` is a step: `StorePair`, `Above`
or `NotAbove`, `Raise`, one `Scan` per node, `StoreMax`. Only `queuingCheck` stores the own price, so its
tick is one step. Keys are pairs, where the code concatenates names and selects by prefix: no method name of
hotelApp extends another by a dash. `quote` is what each downstream node would answer and `gap` the delay the
next tick measures; both change `MaxMoves` times. `overlapped` and `peak` are history
that no action reads. `Decay` is `decayRate` to the power of the run of increases, in percent. In
`RajomonTokens` the load and the store of an unsynchronised update are two steps; `DeductTokens` is three, since it
reads `tokensLeft` to compare (`TakeCompare`) and again to subtract from (`TakeLoad`, `TakeStore`). `crossed` is history: two calls
have been past the comparison at once. The random
part of `uniform` is any number below `tokensLeft`, and `options` is chosen initially and never changes.

*Dagor entry.* A call goes `lookup`, `draw` (when the user is not in the map), `admit`, and for each service its
handler calls `send`, `serve`, `handle`; it ends as `limited` by the table, `failed` in the service, dropped, or done. The
levels of the nodes change by themselves, to any of `Levels`: `DagorServer` says how. `header` is the pair the service
compared the call with, which it attaches to the response. `raced` is history.

*TopDown.* Every critical section is one step; the collector's two are `CalculateTailLatency95th` and `SaveMetrics`. The clock ticks `Hz` times a second and
`since` counts from `LastRefill`, up to what fills any bucket. Rates arrive in tenths, so that truncation has something to
truncate.

*Hotel and Social.* A request is a record: `pc` names the access to a Redis that comes next, the other
fields what the code keeps in locals. One step is one access; `Fail` ends a request at any access, which stands for
a call the overload control refuses, an error of Redis and a missing key alike, and its effect, if it had one, stays. A read
whose error the code takes for a missing key may find nothing at any time, and a write whose error is ignored
may not happen. The history `stale` (and `torn`, `overwritten`) marks a write computed from a value that has been replaced meanwhile. In
`Hotel` a password stands for its salted hash, a date is a number; in `Social` an id is fresh when it is returned.

*Left out*: log lines; Rajomon's debugging aids (random drop, fake invoker); calls with malformed metadata (an error return that
changes nothing); `creditsOnFail`, which nothing sets; a Breakwater call its client
abandons while the server works on it; the constructors' parameters.

## 3. Runs

The bounds are: request slots (calls in flight), update slots, RTT periods (`MaxTicks`), the
latencies that occur, the queue's places, for Dagor the calls counted per interval
(`MaxN`), and for Rajomon the changes of the environment (`MaxMoves`), the own price
(`MaxOwn`) and the tokens (`Cap`, above which tokens pay every price, and `Floor`, the largest debt kept); for TopDown the latencies stored in a
second (`MaxHistory`), and for Social the ids (`Posts`), the follows and empty batches (`MaxAsked`) and all of them together (`FewSteps`: five, of
which the fifth runs with no other request). `Limit`, the
entries a list keeps, is 2 in `hotel` and 3 in `social` instead of 10, so that lists do fill. Calls themselves are unbounded: finished slots are reused.

| run | checks | instance and what it shows |
| --- | --- | --- |
| `bw_server` | `ConnMutex`, `IssueIsCurrent`, `SendsNeverBlock`, `ClientsCounted`, `RttSerial`, `LedgerSpec` | one client with two calls in flight (the locks are per client), two updates, two RTT periods; 1.2 million states |
| `bw_server_live` | `TypeOK`, `Answered` | shedding, the delay that starts it; two calls so that one can wait for the other's locks |
| `bw_client` | `TypeOK`, `NoLostWakeup`, `FirstAlone`, `PendingExact`, `GateSpec` | three calls on two places: one in the queue, one spending, one turned away; failures, expiry, timer |
| `bw_system` | `RegisteredOnce` | client and server joined, shedding, the timer, a queue of one place that turns calls away; 1.2 million states |
| `dagor` | `TypeOK`, `LevelReached`, `ClosedStays`, `UpdateDone` | 2x2 priorities, calls of the top class and of a lower one, any number of intervals |
| `rajomon_prices` | `TypeOK`, `ExactUnlessOverlapped`, `ShedJustified`, `Settles`, `Relaxes` | one method on two nodes, two responses at a time, one call being judged, the strategies `step` and `expdecay`, a delay above the threshold, one well below and one so close that the division yields zero; 0.4 million states |
| `rajomon_tokens` | `OverdraftEnds`, `Answered` | two calls and the refill; calls that wait, that back off with a random part of the tokens, and without rate limiting; two calls in `DeductTokens` at once that leave a debt, stores that undo each other; 0.2 million states |
| `dagor_entry` | `OnePriority`, `WithinReach`, `Reopens` | two users, one method whose handler calls one service twice, two calls in flight: draws that overlap, responses that overtake each other, errors that teach nothing, levels that everybody or only the top user reaches, and the initial one that nobody does |
| `topdown` | `TypeOK`, `MeasuredAlike`, `BucketSpec`, `NotStarved` | two calls, a bucket of two tokens, two ticks a second, limits of 0.5, 1 and 2 calls per second; calls that return between the collector's steps; 0.4 million states |
| `hotel` | `SerialReservations`, `AtomicUnlessOvertaken`, `ListedIsWhole` | two requests of any kind on one hotel of one or two rooms, stays of one and two days, lists of two entries: bookings that overtake each other, stores that overtake bookings, failures at every access; 0.2 million states |
| `social` | `TypeOK`, `FollowSymmetric`, `DeliveredIsKept`, `AuthorFirst`, `StoredBeforeShown` | two requests, two users that may follow each other, one author, posts composed one by one, two at a time and none at all onto timelines of three entries; 1.1 million states |
| `bw_client_stuck` | violates `QueueMoves` | the last credit fails with its call; the queue waits for ever |

The `violation` run refutes what a comment of the code says; `findings` quotes the
line. All the others must hold.

The properties of `hotel` and `social` are stated against the interference they allow: a lost update *does* happen in these
services, and the properties say exactly which interleavings or failures lose what, so that any other loss would be
found.

Why the bounds suffice: the locks are between calls of one client, so two calls meet in every pair of
steps and a third only repeats a pair; a second RTT period is what makes a
connection stale, and two updates are what may meet. Where a larger number
could matter, the theorems of section 4 cover it: they state every safety property of
every run. A second method adds nothing to `rajomon_prices`: responses touch
the keys of their own method only, which `PriceIsExact` proves. In the services what meets is two
read-modify-writes of one list; a third request only repeats a pair, and `HotelProofs` covers any number of requests, hotels and bookings. In
`dagor_entry` the table has a row per method, so one method is enough. Its two levels are those that tell the users apart; a pair that a call loads half before and half
after a change would be one more of them, and the theorems hold for any set of levels. One author suffices in `social`: home timelines of followers are overwritten
by two posts of the same author as they are by two authors'.

`Warm` starts the server one RTT after it has answered a call without
metadata, a state such calls reach (its first update only takes the first histogram and
adds one to `cTotal`); it brings shedding within one period instead of two.

`bw_system` and the client runs switch the deadlock check off: a client whose credits
failed away does stop (`bw_client_stuck`).

### Fairness

Go runs every runnable goroutine: WF on each goroutine's next step. Goroutines blocked on a channel are served
first in, first out, so one that waits for a token that keeps coming back gets
it although others take it in between: SF on `Lock`, `TakeStamp` and the
client's `Wake`. SF on `Handle` because its guard includes a free updater slot, which is
only a bound. `WF(Return)` in the client: gRPC reports a lost connection as an error.
Dagor's updater blocks on nothing: WF; its entry: WF on the
next step of each call, since nothing blocks there either and gRPC ends every call (`Reopens` names as its premises that the load is gone, that calls
stop failing and that top users keep sending). TopDown: WF on the clock and on the return of a refused call; nothing is assumed of handlers or the
agent. Rajomon: WF on each response's next step and on the tick
(`Settles` names as its premise that every node keeps answering, `Relaxes` that the delay stays low);
WF on each call, on the refill and on the passing of the deadline, and SF on the two waits for
`rateLimiter`, a channel whose receivers queue first in, first out.

### Mutants

Each property of a passing run has a mutant: a copy of a definition with a
plausible bug (a lock taken without its token, an old time sent back, a walk that counts the
cell it leaves), under which TLC finds the property violated.

## 4. Proofs

Every invariant and every action property that a run checks is a theorem, for all
values of the constants; so are the three refinements (`LedgerSpec`, the safety part of `GateSpec`, `BucketSpec`). All
proofs are checked by TLAPS with no assumption but the named ones of the modules (`ServerAssumption`,
`ClientAssumption`, `SystemAssumption`, `PriorityAssumption`, `DagorAssumption`, `EntryAssumption`, `PricesAssumption`,
`TokensAssumption`, `TopDownAssumption`, `HotelAssumption`, `SocialAssumption`: the constants' types) and, where stated, `Paced`
or `UseQueueLength`.

*BreakwaterServer.* `TypeInv` is `TypeOK` and `Placed`, which ties the client id and the
connection a call holds to its pc; without it `conn(r)` has no type.
`LockInv` is the heart: `Protocol` (a client nobody has answered has one call at most),
`Stored` (a call past the lookup holds the stored connection), `Owned` (a call in
the critical section owns the absent token), `ConnMutex`, `IssueIsCurrent`.
`ConnMutex` alone is not inductive: two calls could lock two connections. It needs
`Stored`, and `Stored` needs that no second registration replaces the
connection, which is `Protocol`, and that only holds with `Paced`. With it:
`ConnectionsExclusive`, `IssuesCurrent`, `SendsFree`. `UpdatesSerial` needs no
assumption. `GrantInv` adds what is known of a grant before it is stored; with it
`ServerImplementsLedger` shows `Spec => LedgerSpec`: storing the credits is `Grant`, the
response is `Answer`, an update that takes the time is `NewPeriod` (the only step after which a
client may be recomputed again), a registration may cost a turn, all else stutters.
`CountInv` and facts on cardinalities give `ClientsAreCounted`.

*BreakwaterSystem.* `Paced` is not a wish: it is what the client's code guarantees, and `BreakwaterSystemProofs` discharges
it. There the server runs with `Paced = FALSE`, and the network delays and reorders calls at will. `SystemInv` says where each call is,
in agreement on both sides (`Placed`), and, until the timer fires, that the client's first credit is in its
balance or with a single call (`OneCredit`) and that an answer only comes from a server that has registered the client. A call about to
store a `Connection` is then the only one the server has, which gives `RegistersOnce`. `ClientPacesServer` adds `Wired` (an answered
client is known to the server; a demand is a length of the queue): every step of the system is a step of the *paced* server or none of
its. So the invariants of `BreakwaterServerProofs`, instantiated for the one client, carry over by their own
step lemmas (`LockStep`, `CountStep`), and `PromisesHold` states the four properties of the server without any assumption on
the client, until its timer fires. After the timer two first calls may travel together (section 5).

*BreakwaterClient.* `ClientTypeCorrect`, `WakeupKept`, `FirstCallAlone`, `PendingCounts` (with
`UseQueueLength`; without it a full queue drops the place and not the call) and
`ClientImplementsGate`: the safety part of the gate.

*DagorServer.* `DagorTypeCorrect`: the walk stays in the histogram for any size, which needs
that the cell after one that is not the end is a cell. `ClosedStaysClosed`: `Shut` is
stable but for one step. It names all a closed node must not have: a call that
loaded half of an older level, a counter about to add to `Nadm`, an update that has
already seen an admitted call. `LevelIsReached` relates a sum to a difference of two counters, while
other calls go on counting. `Counted(S)` is the number of calls in the cells of `S`, written as the cardinality of a set (cell, i),
so that adding a cell adds its count (`CountMore`) and counting a call never lowers it (`CountGrows`); a sum by recursion would need an
induction. `WalkInv` then says that `Nprefix` has moved away from its start by no more than the passed cells hold.

*RajomonPrices.* `TypeInv` adds to `TypeOK` that a slot in use holds a response of a node the method calls and
that the search's variables are clean outside the search (`SlotsInv`). `ExactUnlessOverlapped` speaks of
quiet methods only and is far from inductive: `KnowsInv` says for each step of a lone response what it knows of
the table (before its own pair is stored the price is the maximum; after it, every other pair is at most the
price; during the search, `top` is the largest pair seen), and `AloneInv` that a response is alone unless the history
says otherwise. Other methods' responses do not matter because they touch other keys (`OwnStep`). `PeakInv`
bounds the price in force and the own price loaded by the history `peak`, which gives `ShedIsJustified`.

*RajomonTokens.* `SoleDeductionHolds`: before two calls have been in `DeductTokens` at once, `tokensLeft` is not negative. `TokensInv` says
how (`InTurn`): one call at most is past the comparison, what it looked at is covered by `tokensLeft` and by the value it read to subtract from, and
the sum the refill is about to store covers it too, so neither overwrites the other with a debt. The refill may store its sum after the
deduction and the deduction its difference after the refill; both are at least zero.

*DagorEntry.* `IInv` adds three facts to the properties: `DrawsAlone` (a user whose draws never overlapped has one call that
draws and no stored priority yet), `Business` (a call carries the business value of its method) and `HeaderReached` (a
call reached the thresholds it brings back). The last one carries `WithinReachHolds`: the table only ever holds what some call reached, so the
order of the responses does not matter. It would not hold if the service attached the level it has when it answers.

*Hotel.* `IInv` is `StoreInv` (each stored availability is `FittedInTurn`) and `ReqInv` (so is each that a request is about to write, and
one that is not stale extends what is stored). The work is in the list lemmas: `PushInTurn` shows that a list whose oldest entry is
dropped and to which a fitting booking is added is fitting in turn again (the counts of the entries that moved can only fall). Since a write
stores a list that fits in turn whatever it overwrites, `Serial` needs no assumption on interference; `BookingAtomic` needs `stale`. `WholeInv` follows a store
through its four services (`Behind`: at each step it has written what precedes it) and says of every listed hotel that it is whole, failed or `Tracked` by a
store; the search's lists are included, since a hotel found there was on a list.

*TopDown.* `ImplementsBucket`: the level of the abstract bucket is `Hz * tokens` plus the credit of the time since the last refill, at most a full
bucket. A tick adds at most `MaxRate`; a refill moves credit into tokens and loses only what the cap discards; admission costs `Hz`. That is
arithmetic of products and a quotient (`EnterLevel`, `TickLevel`), and a refused call must be a stutter or lower the
level. `ReportsMeasuredAlike` from `CountInv`, which types the counters and the collector's place. `TopDownTypeCorrect` needs that the
percentile is a latency that was measured: `Ranked` picks the element of a rank from a list that nobody sorts, and that there
is one follows from a least number (`LeastNat`): the least latency with at least that many latencies up to it.

*Social.* Three layers. `TypeInv` types what requests hold by the ids returned so far, which is `StoredBeforeShown` as
well (an id is in a list only after its post was stored or its store failed unnoticed). `TimelineInv` carries `DeliveredIsKept` and
`AuthorFirst`: a delivered post is in the home timeline unless the list holds all but one of its entries or was written from a stale read
(`DeliveredInv`; all but one, since a full list that takes an empty batch loses an entry and gains none), and of every request in flight it says what its write would keep (`PendingInv`): a list that is not stale extends what is
stored, a post about to go to followers is kept in its author's timeline. `GraphInv` carries `FollowSymmetric`: the occurrences of an
edge at one end are those at the other plus the follows between their two writes, unless a vertex is torn; each write appends one
occurrence (`AppendOccurrences`, on the cardinality of a set of indices) and moves one request from one set to the next.

*Only model-checked*: liveness (`Answered`, `OverdraftEnds`, `UpdateDone`, `Settles`, `Relaxes`, `Reopens`, `NotStarved`, `QueueMoves`, the fairness
of `GateSpec`), since the prover does not treat fairness and `ENABLED`. *Only proved*: `SoleDeduction`, and `ServerIsPaced` and `Promised`, which
join what `bw_server` and `bw_system` check apart.

## 5. Findings

One, with its run: the client that starves after failures (`bw_client_stuck`).

Seen while modelling and not given a run:

- Breakwater: calls of two clients read `cTotal - cIssued` before either adds its grant, and each takes the whole of it
  (`server_interceptor.go:234`; line 224 says "we cannot add more than cAvail").
- With load shedding, a reported delay of `aqmDelay` sheds every call, and only a served call starts the update that could
  report another one (`server_interceptor.go:337`; `breakwater.go:113` speaks of a periodic update).
- After the client's timer two first calls may travel together, find no `Connection` and store one each
  (`server_interceptor.go:39`; line 38 speaks of `LoadOrStore`, the code uses `Store`). Until the timer `RegisteredOnce` holds.
- Rajomon: a rate-limited call that is woken is sent with the tokens it saw before it slept, without a second comparison with the price
  (`rajomon.go:317`; its README, line 17: "hold back req when the token is less than the price").
- Hotel: `search.go:69` says "If err != nil then the key does not exist", but any error of Redis ends there, and `StoreHotelLocation` then
  writes a list of one hotel over the location's list. Its own write error is ignored (line 63).
- Hotel: `checkAvailability` counts a reservation once whatever its number of rooms (`reservation.go:54`), and a full list drops its oldest entry, which is
  then promised again (line 90). `FittedInTurn` states what remains true.
- Hotel: a booking whose response is lost is answered `false` without an error (`frontend.go:122`).
- Social: a timeline loses one entry when it is full, however many a `ComposePostMulti` appends (`home_timeline.go:45`), so timelines may grow beyond ten.
  With `Number` = 0, the default of the message, which neither `compose_post.go:61` nor `post_storage.go:58` rejects, a full timeline loses an entry and
  gains none (`user_timeline.go:38`, `home_timeline.go:45`), so a post may be forgotten with only nine others left on the list. An author without posts then has an
  empty timeline, whose reads fail (a bulk read of no keys);
  a follow that is repeated is stored twice and delivers every post twice (`social_graph.go:89`).
- TopDown: an interval without calls leaves the tail latency of an earlier one in the report (`utils.go:22`); start times come from whole seconds
  (`time.RFC3339`, `utils.go:76`) while the objectives are 10 to 90 ms.
- Dagor: hotelApp's business values are at most 3 and `Bmax` is 4 (`interceptors.go:289-303`), so a node starts closed to everybody, and is again
  whenever the level returns to (`Bmax`, `Umax`). Only an update of an interval in which some call was admitted opens it (`server_interceptor.go:223`): one over an interval that
  admitted nothing leaves it closed, so calls of these business values never open it (`ClosedStays`).
- Dagor: an entry service writes the plain map `businessMap` while serving when a method is missing (`server_interceptor.go:44`); no method of hotelApp is.
- `rttUpdate` checks the time before its lock and not again under it: two updates that pass the check run one
  after the other within one RTT (Breakwater `server_interceptor.go:132` says "Runs once every RTT").
- With load shedding `rttUpdate` reads the delay twice, and the second read (line 138) sees only what the first left:
  `cTotal` is raised although the update measured a delay beyond the threshold.
- Dagor's walk under overload starts at (Bmax, Umax) and moves before it subtracts, so with all load in the top cell
  it ends at (1, 1) and opens the node.
- In Rajomon a call that can pay leaves the loop before `DeductTokens` (`rajomon.go:313-315`): only calls that have waited
  spend tokens, although line 260 says "update the total tokens".
- `DeductTokens` is called an atomic deduction (`initOptions.go:240`) but `atomicTokens` is never set. It compares `tokensLeft` (line 243) and
  reads it again to subtract (line 246): two calls past the comparison overdraw it. While there is a debt, a later call takes it as the tokens it
  has, is limited, and when woken deducts a negative number, which adds tokens. `SoleDeduction` says that nothing else overdraws, `OverdraftEnds` that
  a debt ends.
- Two overlapping responses of a method may leave a downstream price that is not the maximum (`Settles` shows it is
  repaired by later responses; `ExactUnlessOverlapped` that nothing else does this).
- Rajomon's adjustment is zero while the delay is within 10000/`priceStep` microseconds of the threshold: the own price
  stays where it is. `Relieved` excludes it from the premise of `Relaxes`, and the run has such a delay.

Comments: `server_interceptor.go:167` of Dagor calls `C` the "admitted request
counters" but dropped calls are counted in it too; line 255 says `Nprefix < Nexp`,
line 257 tests `<=`; `options.go:20` says the threshold table is "for each
downstream" but its key is the method name alone.

## 6. Plan

In this order; done parts are marked.

1. Breakwater server, client, ledger, gate, system, proofs. *Done.*
2. Dagor server and its proofs; `DagorEntry` (priorities of users, threshold table) and its proofs. *Done.* Left: the
   composition of an entry with the `DagorServer` of each service, in place of levels that change by themselves.
3. `RajomonPrices` and `RajomonTokens` with their proofs. *Done for maximal aggregation.* Additive and mean
   aggregation, `SplitTokens` as an operator checked against a reference definition, then a chain of nodes
   whose quotes are each other's totals (abstract: the price of a path).
4. `TopDown`, `TokenBucket`, the refinement and its proof. *Done.*
5. `Hotel` and `Social` over `StateStore`; their safety proved. *Done.*
6. `BreakwaterSystem`: `RegisteredOnce`, and the server's assumption discharged by the client. *Done.* Left: several clients, of
   which each paces its own calls, and the ledger in the composition.

## 7. Not modelled

- *Dagor's and Rajomon's delay probes*: they read `/sched/latencies` and subtract histograms; the delay they answer is an input of the models.
- *Interceptor selection and metadata*: a switch at start-up, and a copy of metadata keys; no state.
- *Configuration, invocation, mains, population, protobuf*: parsing before the first call, dispatch to generated stubs, test data. That a call
  fails is in the models of the callers.
- *Rajomon*: additive and mean aggregation, `latencyCheck`, `throughputCheck`, random refills, debugging aids: no node of hotelApp sets them.
- *HTTP parsing of TopDown's agent interface*: a malformed request is an error without effect.
