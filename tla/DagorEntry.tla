----------------------------- MODULE DagorEntry -----------------------------
(***************************************************************************)
(* An entry service of hotelApp under dagor-grpc: it gives each call the   *)
(* business value of its method and its user's priority, and for the calls *)
(* it makes in turn to other services it keeps a table of the thresholds   *)
(* their responses carry.  The priorities and the table are sync.Maps that *)
(* concurrent calls load and store; the levels of the entry and of the     *)
(* services change by themselves here (DagorServer says how), and a pair   *)
(* loaded half before and half after a change is one more level: Levels    *)
(* may be any set of pairs.                                                *)
(*                                                                         *)
(* Source: src/dagor-grpc-main/dagor/server_interceptor.go (the entry) and *)
(* client_interceptor.go.  Every method of an entry is in its businessMap; *)
(* the table has one row per method, whatever service the row came from.   *)
(***************************************************************************)
EXTENDS Integers, Sequences, DagorPriority

CONSTANTS
  Users, Methods,
  BusinessMap,
  Services,
  Route,      \* per method, the services its handler calls, in order
  Entry,      \* the node itself
  Levels,     \* the admission levels nodes go to
  Calls       \* slots for calls in flight

ASSUME EntryAssumption ==
  /\ BusinessMap \in [Methods -> 1..Bmax]
  /\ Route \in [Methods -> Seq(Services) \ {<<>>}]
  /\ Levels \subseteq Cells
  /\ Users # {} /\ Methods # {}

VARIABLES
  userPriority,             \* 0: the user is not in the map
  raced,                    \* history: the users of whom two calls were drawing at a time
  thresholdTable,
  level,                    \* admissionLevel of each node
  at, user, method,         \* per call: program counter, user and method,
  carries,                  \* its priority <<B, U>>
  left,                     \* the services it has still to call
  header                    \* the thresholds the service in turn loaded

nodeVars == <<userPriority, raced, thresholdTable, level>>
callVars == <<at, user, method, carries, left, header>>
entryVars == <<nodeVars, callVars>>

Nodes == Services \union {Entry}
NoLevel == <<0, 0>> \* what no threshold amounts to

AnyUser == CHOOSE u \in Users : TRUE
AnyMethod == CHOOSE m \in Methods : TRUE

PCs == {"idle", "lookup", "draw", "admit", "send", "serve", "handle", "limited", "failed"}

EntryInit ==
  /\ userPriority = [u \in Users |-> 0] /\ raced = {}
  /\ thresholdTable = [m \in Methods |-> NoLevel]
  /\ level = [n \in Nodes |-> Top]
  /\ at = [c \in Calls |-> "idle"]
  /\ user = [c \in Calls |-> AnyUser] /\ method = [c \in Calls |-> AnyMethod]
  /\ carries = [c \in Calls |-> NoLevel] /\ left = [c \in Calls |-> <<>>]
  /\ header = [c \in Calls |-> NoLevel]

Move(c, from, to) == at[c] = from /\ at' = [at EXCEPT ![c] = to]

\* The call ends; its locals are gone.
Release(c) ==
  /\ user' = [user EXCEPT ![c] = AnyUser]
  /\ carries' = [carries EXCEPT ![c] = NoLevel] /\ left' = [left EXCEPT ![c] = <<>>]
  /\ header' = [header EXCEPT ![c] = NoLevel]

End(c) ==
  /\ at' = [at EXCEPT ![c] = "idle"]
  /\ method' = [method EXCEPT ![c] = AnyMethod]
  /\ Release(c)

ChangeLevel(n, l) ==
  /\ level' = [level EXCEPT ![n] = l]
  /\ UNCHANGED <<userPriority, raced, thresholdTable, callVars>>
-----------------------------------------------------------------------------
(* UnaryInterceptorServer.                                                 *)

Enter(c, u, m) ==
  /\ Move(c, "idle", "lookup")
  /\ user' = [user EXCEPT ![c] = u] /\ method' = [method EXCEPT ![c] = m]
  /\ carries' = [carries EXCEPT ![c] = <<BusinessMap[m], 0>>]
  /\ UNCHANGED <<nodeVars, left, header>>

Missing(c) ==
  /\ Move(c, "lookup", "draw")
  /\ raced' = raced \union {u \in {user[c]} : \E d \in Calls : at[d] = "draw" /\ user[d] = u}
  /\ UNCHANGED <<userPriority, thresholdTable, level, user, method, carries, left, header>>

\* Mutant: a priority that is in the map is drawn again.
LoadPriorityAnew(c) == Missing(c)

LoadPriority(c) ==
  IF userPriority[user[c]] = 0
  THEN Missing(c)
  ELSE /\ Move(c, "lookup", "admit")
       /\ carries' = [carries EXCEPT ![c] = <<@[1], userPriority[user[c]]>>]
       /\ UNCHANGED <<nodeVars, user, method, left, header>>

Drawn == 1..Umax

\* Draws a priority and stores it, also when another call of the user has done so since.
StorePriority(c, U) ==
  /\ Move(c, "draw", "admit")
  /\ carries' = [carries EXCEPT ![c] = <<@[1], U>>]
  /\ userPriority' = [userPriority EXCEPT ![user[c]] = U]
  /\ UNCHANGED <<raced, thresholdTable, level, user, method, left, header>>

AdmitHere(c) ==
  /\ Reaches(carries[c], level[Entry])
  /\ Move(c, "admit", "send")
  /\ left' = [left EXCEPT ![c] = Route[method[c]]]
  /\ UNCHANGED <<nodeVars, user, method, carries, header>>

DropHere(c) ==
  /\ at[c] = "admit" /\ ~Reaches(carries[c], level[Entry])
  /\ End(c)
  /\ UNCHANGED nodeVars
-----------------------------------------------------------------------------
(* UnaryInterceptorClient, once for each service the handler calls.        *)

Send(c) ==
  /\ Reaches(carries[c], thresholdTable[method[c]])
  /\ Move(c, "send", "serve")
  /\ UNCHANGED <<nodeVars, user, method, carries, left, header>>

Limit(c) ==
  /\ ~Reaches(carries[c], thresholdTable[method[c]])
  /\ Move(c, "send", "limited")
  /\ Release(c)
  /\ UNCHANGED <<nodeVars, method>>

\* The service's own interceptor; the thresholds it compared with are those it will attach.
AdmitThere(c) ==
  LET l == level[Head(left[c])] IN
  /\ Move(c, "serve", "handle")
  /\ Reaches(carries[c], l)
  /\ header' = [header EXCEPT ![c] = l]
  /\ UNCHANGED <<nodeVars, user, method, carries, left>>

DropThere(c) ==
  /\ at[c] = "serve" /\ ~Reaches(carries[c], level[Head(left[c])])
  /\ End(c)
  /\ UNCHANGED nodeVars

\* An error comes back without thresholds.
Fail(c) ==
  /\ Move(c, "handle", "failed")
  /\ Release(c)
  /\ UNCHANGED <<nodeVars, method>>

\* Mutant: the service attaches the thresholds it has when it answers.
AttachedLate(c) == level[Head(left[c])]

Attached(c) == header[c]

\* Mutant: a threshold replaces a lower one only.
LearnHigher(c) ==
  LET row == thresholdTable[method[c]] IN
  thresholdTable' = [thresholdTable EXCEPT ![method[c]] =
                       IF Reaches(Attached(c), row) THEN Attached(c) ELSE row]

Learn(c) == thresholdTable' = [thresholdTable EXCEPT ![method[c]] = Attached(c)]

\* A response stores its thresholds; the handler goes on to its next service, or is done.
Return(c) ==
  /\ at[c] = "handle"
  /\ Learn(c)
  /\ IF Tail(left[c]) = <<>>
     THEN End(c)
     ELSE /\ at' = [at EXCEPT ![c] = "send"]
          /\ left' = [left EXCEPT ![c] = Tail(@)]
          /\ header' = [header EXCEPT ![c] = NoLevel]
          /\ UNCHANGED <<user, method, carries>>
  /\ UNCHANGED <<userPriority, raced, level>>

\* The handler passes the error on.
ReturnError(c) ==
  /\ at[c] \in {"limited", "failed"}
  /\ End(c)
  /\ UNCHANGED nodeVars
-----------------------------------------------------------------------------
Step(c) ==
  \/ LoadPriority(c) \/ \E U \in Drawn : StorePriority(c, U)
  \/ AdmitHere(c) \/ DropHere(c)
  \/ Send(c) \/ Limit(c)
  \/ AdmitThere(c) \/ DropThere(c)
  \/ Fail(c) \/ Return(c) \/ ReturnError(c)

EntryNext ==
  \/ \E n \in Nodes, l \in Levels : ChangeLevel(n, l)
  \/ \E c \in Calls : Step(c) \/ \E u \in Users, m \in Methods : Enter(c, u, m)

EntrySpec == EntryInit /\ [][EntryNext]_entryVars

\* The Go scheduler runs every runnable goroutine, and services answer.
FairEntrySpec == EntrySpec /\ \A c \in Calls : WF_entryVars(Step(c))
-----------------------------------------------------------------------------
\* The call has its priority.
Assigned(c) == at[c] \in {"admit", "send", "serve", "handle"}

EntryTypeOK ==
  /\ userPriority \in [Users -> 0..Umax] /\ raced \subseteq Users
  /\ thresholdTable \in [Methods -> Cells \union {NoLevel}]
  /\ level \in [Nodes -> Cells]
  /\ at \in [Calls -> PCs] /\ user \in [Calls -> Users] /\ method \in [Calls -> Methods]
  /\ carries \in [Calls -> (0..Bmax) \X (0..Umax)]
  /\ \A c \in Calls : Assigned(c) => carries[c] \in Cells
  /\ left \in [Calls -> Seq(Services)]
  /\ \A c \in Calls : at[c] \in {"send", "serve", "handle"} => left[c] # <<>>
  /\ header \in [Calls -> Cells \union {NoLevel}]

\* All calls of a user carry the priority that is stored for it, at whatever service they
\* are; only first calls that overlap may have drawn one each.
OnePriority ==
  \A c \in Calls :
    Assigned(c) /\ user[c] \notin raced
      => carries[c] = <<BusinessMap[method[c]], userPriority[user[c]]>>

\* A response is of a call that reached the thresholds it carries, so those of the table are
\* within the reach of its method, and of a user the entry knows unless two draws for one user
\* overlapped: no response, however late or out of turn, shuts a method off for everybody.
WithinReach ==
  \A m \in Methods :
    /\ thresholdTable[m][1] <= BusinessMap[m]
    /\ raced = {} /\ thresholdTable[m] # NoLevel
         => \E u \in Users : /\ userPriority[u] # 0
                            /\ Reaches(<<BusinessMap[m], userPriority[u]>>, thresholdTable[m])

\* When the load is gone and calls of users of the highest priority still come, the entry
\* ends up limiting nobody: a threshold learned under overload is unlearned.  (Nothing else
\* unlearns it: without such calls the others of the method are limited for ever.)
Reopens ==
  \A m \in Methods :
    /\ <>[](\A n \in Nodes : level[n] = Bottom)
    /\ <>[](\A c \in Calls : at[c] # "failed")
    /\ []<>(\E c \in Calls : at[c] = "send" /\ method[c] = m /\ carries[c][2] = Umax)
    => <>[](\A c \in Calls : at[c] = "limited" => method[c] # m)
=============================================================================
