-------------------------------- MODULE Social --------------------------------
(***************************************************************************)
(* The social network application: posts are composed in three calls, one  *)
(* that stores them, one that appends their ids to the author's timeline   *)
(* and one that appends them to the timeline of each follower in turn; the *)
(* graph keeps both ends of an edge in two vertices.  Every append reads a *)
(* list, extends it and writes it back, with no lock and no transaction; a *)
(* list that cannot be read is taken to be missing, and whatever fails     *)
(* leaves what was done before it.                                         *)
(*                                                                         *)
(* Source: src/hotelApp/internal/social/*.go.  A step of a request is one  *)
(* access to a Redis, of which each service has its own.  The text and the *)
(* time of a post are left out.                                            *)
(***************************************************************************)
EXTENDS Integers, Sequences, FiniteSets, Functions, StateStore

CONSTANTS
  Requests, \* slots for requests in flight; a finished slot is reused
  Users,
  Authors,  \* the users that compose
  Follows,  \* who may follow whom
  Posts,    \* the ids shortuuid.New() may return (bound); each is returned once
  Batches,  \* how many posts a ComposePostMulti may ask for
  Limit,    \* entries a timeline keeps (10 in the code)
  MaxAsked  \* how many follows and empty batches are asked for, which use no id (bound)

ASSUME SocialAssumption ==
  /\ Users # {} /\ IsFiniteSet(Posts)
  /\ Authors \subseteq Users /\ Follows \subseteq Users \X Users
  /\ Batches \subseteq Nat /\ Limit \in Nat \ {0} /\ MaxAsked \in Nat

VARIABLES
  posts,                   \* poststorage: the creator of each post stored
  userTimeline,            \* usertimeline
  homeTimeline,            \* hometimeline
  graph,                   \* socialgraph: followers and followees
  req,                     \* the requests in flight
  asked,                   \* how many follows and empty batches have been asked for
  \* For the properties alone:
  creator,                 \* the creator of each id returned
  unstored,                \* ids whose SetBulkState failed
  torn,                    \* vertices a write did not simply extend, or a follow left half done
  overwritten,             \* timelines a write did not simply extend
  delivered                \* the pairs of a post and a follower that has been served it

history == <<creator, unstored, torn, overwritten, delivered>>
vars == <<posts, userTimeline, homeTimeline, graph, req, asked, history>>

Vertex == [followers : Seq(Users), followees : Seq(Users)]
NoVertex == [followers |-> <<>>, followees |-> <<>>]

Step == {"idle", "userRead", "userWrite", "followers", "homeRead", "homeWrite",
         "followerRead", "followerWrite", "followeeRead", "followeeWrite", "posts"}

\* user, other: whose request, whom it follows; ids: the posts composed or read; list, vertex:
\* the value a write will store; todo: the followers still to be served; stale (for the
\* properties alone): that value was not computed from the one now stored.
Request == [pc : Step, user : Users, other : Users, ids : Seq(Posts), list : Seq(Posts),
            vertex : Vertex, todo : Seq(Users), stale : BOOLEAN]

Idle == [pc |-> "idle", user |-> CHOOSE u \in Users : TRUE, other |-> CHOOSE u \in Users : TRUE,
         ids |-> <<>>, list |-> <<>>, vertex |-> NoVertex, todo |-> <<>>, stale |-> FALSE]

At(r, step) == req[r].pc = step
Become(r, x) == req' = [req EXCEPT ![r] = x]

\* Request r becomes x by a write that overtakes those of S.
Overtake(r, x, S) ==
  req' = [q \in Requests |-> IF q = r THEN x
                             ELSE IF q \in S THEN [req[q] EXCEPT !.stale = TRUE] ELSE req[q]]

\* GetState with a default: the value, or the default for a key that is missing or not read.
Get(kv, k, default) == IF Found(kv, k) THEN kv[k] ELSE default

\* Mutant: the ids are appended as one entry.
PushNested(list, ids) == Append(IF Len(list) >= Limit THEN Tail(list) ELSE list, ids)

\* A full list loses its oldest entry, one whatever the number of ids that are appended, none
\* included.
Push(list, ids) == (IF Len(list) >= Limit THEN Tail(list) ELSE list) \o ids

Init ==
  /\ posts = Empty /\ userTimeline = Empty /\ homeTimeline = Empty /\ graph = Empty
  /\ req = [r \in Requests |-> Idle] /\ asked = 0
  /\ creator = Empty /\ unstored = {} /\ torn = {} /\ overwritten = {} /\ delivered = {}
-----------------------------------------------------------------------------
(* Composing: StorePost or StorePostMulti, WriteUserTimeline,              *)
(* WriteHomeTimeline with GetFollowers.                                    *)

\* The posts a SetBulkState that fails has not stored are returned like the others.
StorePosts(r, u, ids, done) ==
  /\ At(r, "idle")
  /\ ids = <<>> => asked < MaxAsked
  /\ asked' = IF ids = <<>> THEN asked + 1 ELSE asked
  /\ Range(ids) \cap DOMAIN creator = {} /\ IsInjective(ids)
  /\ posts' = SetBulkState(posts, [p \in Range(ids) |-> u], done)
  /\ creator' = SetBulkState(creator, [p \in Range(ids) |-> u], Range(ids))
  /\ unstored' = unstored \union (Range(ids) \ done)
  /\ Become(r, [Idle EXCEPT !.pc = "userRead", !.user = u, !.ids = ids])
  /\ UNCHANGED <<userTimeline, homeTimeline, graph, torn, overwritten, delivered>>

ComposePost(r, u) ==
  \E p \in Posts : \E done \in SUBSET {p} : StorePosts(r, u, <<p>>, done)

\* The number is not checked: none at all, the default of the message, goes on like any other.
\* A negative one makes the poststorage panic before it stores anything: no step.
ComposePostMulti(r, u) ==
  \E n \in Batches : \E ids \in [1..n -> Posts] :
    \E done \in SUBSET Range(ids) : StorePosts(r, u, ids, done)

\* The request's next write extends the list of u, or a new one when the read fails.
ReadList(r, timeline, u, next) ==
  \E failed \in BOOLEAN :
    Become(r, [req[r] EXCEPT
                 !.pc = next, !.stale = failed /\ Found(timeline, u),
                 !.list = Push(IF failed THEN <<>> ELSE Get(timeline, u, <<>>), req[r].ids)])

\* Mutant: an author's timeline that cannot be read is left for later.
ReadUserOrSkip(r) ==
  /\ At(r, "userRead")
  /\ \/ ReadList(r, userTimeline, req[r].user, "userWrite")
     \/ Become(r, [req[r] EXCEPT !.pc = "followers"])
  /\ UNCHANGED <<asked, posts, userTimeline, homeTimeline, graph, history>>

ReadUserTimeline(r) ==
  /\ At(r, "userRead")
  /\ ReadList(r, userTimeline, req[r].user, "userWrite")
  /\ UNCHANGED <<asked, posts, userTimeline, homeTimeline, graph, history>>

Overwritten(r, t) == IF req[r].stale THEN overwritten \union {t} ELSE overwritten

WriteUserTimeline(r) ==
  /\ At(r, "userWrite")
  /\ userTimeline' = SetState(userTimeline, req[r].user, req[r].list)
  /\ overwritten' = Overwritten(r, <<"user", req[r].user>>)
  /\ Overtake(r, [req[r] EXCEPT !.pc = "followers", !.list = <<>>, !.stale = FALSE],
              {q \in Requests : At(q, "userWrite") /\ req[q].user = req[r].user})
  /\ UNCHANGED <<asked, posts, homeTimeline, graph, creator, unstored, torn, delivered>>

\* Next follower, or the end of the request.
Serve(x) == IF x.todo = <<>> THEN Idle ELSE [x EXCEPT !.pc = "homeRead", !.list = <<>>,
                                                      !.stale = FALSE]

\* An author without a vertex has no followers to be served: an error.
GetFollowers(r) ==
  /\ At(r, "followers")
  /\ Found(graph, req[r].user)
  /\ Become(r, Serve([req[r] EXCEPT !.todo = graph[req[r].user].followers]))
  /\ UNCHANGED <<asked, posts, userTimeline, homeTimeline, graph, history>>

\* Mutant: the ids of the author's own home timeline are kept.
ReadHomeOfAuthor(r) ==
  /\ At(r, "homeRead")
  /\ ReadList(r, homeTimeline, req[r].user, "homeWrite")
  /\ UNCHANGED <<asked, posts, userTimeline, homeTimeline, graph, history>>

ReadHomeTimeline(r) ==
  /\ At(r, "homeRead")
  /\ ReadList(r, homeTimeline, Head(req[r].todo), "homeWrite")
  /\ UNCHANGED <<asked, posts, userTimeline, homeTimeline, graph, history>>

WriteHomeTimeline(r) ==
  LET f == Head(req[r].todo) IN
  /\ At(r, "homeWrite")
  /\ homeTimeline' = SetState(homeTimeline, f, req[r].list)
  /\ overwritten' = Overwritten(r, <<"home", f>>)
  /\ delivered' = delivered \union (Range(req[r].ids) \X {f})
  /\ Overtake(r, Serve([req[r] EXCEPT !.todo = Tail(@)]),
              {q \in Requests : At(q, "homeWrite") /\ Head(req[q].todo) = f})
  /\ UNCHANGED <<asked, posts, userTimeline, graph, creator, unstored, torn>>
-----------------------------------------------------------------------------
(* Graph.                                                                  *)

Editing(v) == {q \in Requests : \/ At(q, "followerWrite") /\ req[q].user = v
                                \/ At(q, "followeeWrite") /\ req[q].other = v}

\* A user that exists loses its edges.
InsertUser(u) ==
  /\ graph' = SetState(graph, u, NoVertex)
  /\ torn' = IF Found(graph, u) THEN torn \union {u} ELSE torn
  /\ req' = [q \in Requests |-> IF q \in Editing(u) THEN [req[q] EXCEPT !.stale = TRUE]
                                                    ELSE req[q]]
  /\ UNCHANGED <<asked, posts, userTimeline, homeTimeline, creator, unstored, overwritten, delivered>>

ReadVertex(r, v, x) ==
  \E failed \in BOOLEAN :
    LET s == IF failed THEN NoVertex ELSE Get(graph, v, NoVertex) IN
    Become(r, [x EXCEPT !.stale = failed /\ Found(graph, v),
                        !.vertex = IF x.pc = "followerWrite"
                                   THEN [s EXCEPT !.followees = Append(@, x.other)]
                                   ELSE [s EXCEPT !.followers = Append(@, x.user)]])

WriteVertex(r, v, x) ==
  /\ graph' = SetState(graph, v, req[r].vertex)
  /\ torn' = IF req[r].stale THEN torn \union {v} ELSE torn
  /\ Overtake(r, x, Editing(v))

\* Following again appends again.
Follow(r, u, v) ==
  /\ At(r, "idle")
  /\ asked < MaxAsked
  /\ asked' = asked + 1
  /\ ReadVertex(r, u, [Idle EXCEPT !.pc = "followerWrite", !.user = u, !.other = v])
  /\ UNCHANGED <<posts, userTimeline, homeTimeline, graph, history>>

WriteFollower(r) ==
  /\ At(r, "followerWrite")
  /\ WriteVertex(r, req[r].user, [req[r] EXCEPT !.pc = "followeeRead", !.vertex = NoVertex,
                                                !.stale = FALSE])
  /\ UNCHANGED <<asked, posts, userTimeline, homeTimeline, creator, unstored, overwritten, delivered>>

\* Mutant: the follower's vertex is read again.
ReadFollowerAgain(r) ==
  /\ At(r, "followeeRead")
  /\ ReadVertex(r, req[r].user, [req[r] EXCEPT !.pc = "followeeWrite"])
  /\ UNCHANGED <<asked, posts, userTimeline, homeTimeline, graph, history>>

ReadFollowee(r) ==
  /\ At(r, "followeeRead")
  /\ ReadVertex(r, req[r].other, [req[r] EXCEPT !.pc = "followeeWrite"])
  /\ UNCHANGED <<asked, posts, userTimeline, homeTimeline, graph, history>>

WriteFollowee(r) ==
  /\ At(r, "followeeWrite")
  /\ WriteVertex(r, req[r].other, Idle)
  /\ UNCHANGED <<asked, posts, userTimeline, homeTimeline, creator, unstored, overwritten, delivered>>
-----------------------------------------------------------------------------
(* Reading a timeline: its ids, then the posts.                            *)

\* A timeline that cannot be read is answered as an empty one.
ReadTimeline(r, u) ==
  /\ At(r, "idle")
  /\ \E timeline \in {userTimeline, homeTimeline} :
       /\ Found(timeline, u)
       /\ Become(r, [Idle EXCEPT !.pc = "posts", !.user = u, !.ids = timeline[u]])
  /\ UNCHANGED <<asked, posts, userTimeline, homeTimeline, graph, history>>

\* No ids at all are an error of the store.
ReadPosts(r) ==
  /\ At(r, "posts")
  /\ req[r].ids # <<>>
  /\ BulkFound(posts, req[r].ids)
  /\ Become(r, Idle)
  /\ UNCHANGED <<asked, posts, userTimeline, homeTimeline, graph, history>>
-----------------------------------------------------------------------------
\* The call in progress is refused, its access fails, or what it reads is missing: the caller
\* returns the error.  A follow that fails has written one end at most.
Fail(r) ==
  /\ ~At(r, "idle")
  /\ torn' = IF req[r].pc \in {"followeeRead", "followeeWrite"}
             THEN torn \union {req[r].user, req[r].other} ELSE torn
  /\ Become(r, Idle)
  /\ UNCHANGED <<asked, posts, userTimeline, homeTimeline, graph, creator, unstored, overwritten, delivered>>

Compose(r) ==
  \/ \E u \in Authors : ComposePost(r, u) \/ ComposePostMulti(r, u)
  \/ ReadUserTimeline(r) \/ WriteUserTimeline(r)
  \/ GetFollowers(r) \/ ReadHomeTimeline(r) \/ WriteHomeTimeline(r)

Edit(r) ==
  \/ \E e \in Follows : Follow(r, e[1], e[2])
  \/ WriteFollower(r) \/ ReadFollowee(r) \/ WriteFollowee(r)

Read(r) == (\E u \in Users : ReadTimeline(r, u)) \/ ReadPosts(r)

Next ==
  \/ \E u \in Users : InsertUser(u)
  \/ \E r \in Requests : Compose(r) \/ Edit(r) \/ Read(r) \/ Fail(r)

Spec == Init /\ [][Next]_vars
-----------------------------------------------------------------------------
TypeOK ==
  /\ DOMAIN creator \subseteq Posts /\ \A p \in DOMAIN creator : creator[p] \in Users
  /\ DOMAIN posts \subseteq DOMAIN creator /\ \A p \in DOMAIN posts : posts[p] = creator[p]
  /\ \A t \in {userTimeline, homeTimeline} :
       DOMAIN t \subseteq Users /\ \A u \in DOMAIN t : t[u] \in Seq(DOMAIN creator)
  /\ DOMAIN graph \subseteq Users /\ \A u \in DOMAIN graph : graph[u] \in Vertex
  /\ req \in [Requests -> Request]
  /\ unstored \subseteq Posts /\ torn \subseteq Users
  /\ overwritten \subseteq {"user", "home"} \X Users /\ delivered \subseteq Posts \X Users

Occurrences(list, x) == Cardinality({i \in DOMAIN list : list[i] = x})

Following(u, v) == {r \in Requests : /\ req[r].pc \in {"followeeRead", "followeeWrite"}
                                     /\ req[r].user = u /\ req[r].other = v}

\* Both ends of every edge are kept as often, but for the follows half done, unless a follow
\* failed there, a user was inserted again, or a write hit a vertex that was not as read.
FollowSymmetric ==
  \A u, v \in Users \ torn :
    Occurrences(Get(graph, u, NoVertex).followees, v)
      = Occurrences(Get(graph, v, NoVertex).followers, u) + Cardinality(Following(u, v))

\* Kept by a timeline, unless it holds all the entries but one that it may hold, or a write did
\* not extend it.  A full list that loses its oldest entry need not gain another.
Kept(name, timeline, u, p) ==
  \/ Found(timeline, u) /\ (p \in Range(timeline[u]) \/ Len(timeline[u]) >= Limit - 1)
  \/ <<name, u>> \in overwritten

\* A follower that has been served a post has it: neither the author's later posts, or empty
\* batches, nor those of others can make the home timeline forget it before it is full.
DeliveredIsKept == \A d \in delivered : Kept("home", homeTimeline, d[2], d[1])

\* Nobody is shown a post that its author's own timeline has not taken, or has forgotten
\* before it was full.
AuthorFirst ==
  \A u \in DOMAIN homeTimeline : \A p \in Range(homeTimeline[u]) :
    Kept("user", userTimeline, creator[p], p)

\* A timeline, or a request that reads or extends one, shows only posts that can be read, but
\* for those whose store failed unnoticed: of the ids of a ReadPosts only these can fail it.
StoredBeforeShown ==
  \A p \in UNION ({Range(Get(t, u, <<>>)) : t \in {userTimeline, homeTimeline}, u \in Users}
                  \union {Range(req[r].ids) : r \in Requests}) :
    p \in DOMAIN posts \/ p \in unstored
=============================================================================
