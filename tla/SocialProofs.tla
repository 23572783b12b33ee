---------------------------- MODULE SocialProofs ----------------------------
(***************************************************************************)
(* Proofs about Social, for any users, follows, posts, requests and Limit. *)
(***************************************************************************)
EXTENDS Social, FiniteSetTheorems, TLAPS

\* The posts of a list.
LEMMA ConcatFacts ==
  ASSUME NEW S, NEW s \in Seq(S), NEW t \in Seq(S)
  PROVE  /\ s \o t \in Seq(S) /\ Len(s \o t) = Len(s) + Len(t)
         /\ Range(s \o t) = Range(s) \union Range(t)
  <1>1. s \o t \in Seq(S) /\ Len(s \o t) = Len(s) + Len(t)
    OBVIOUS
  <1>2. \A i \in 1..Len(s) : (s \o t)[i] = s[i]
    OBVIOUS
  <1>3. \A i \in 1..Len(t) : (s \o t)[i + Len(s)] = t[i]
    OBVIOUS
  <1>4. Range(s \o t) \subseteq Range(s) \union Range(t)
    BY <1>1, <1>2, <1>3 DEF Range
  <1> DEFINE c == s \o t
  <1> HIDE DEF c
  <1>5. Range(s) \subseteq Range(c)
    <2>1. \A i \in DOMAIN s : i \in DOMAIN c /\ c[i] = s[i]
      BY <1>1, <1>2 DEF c
    <2> QED
      BY <2>1 DEF Range
  <1>6. Range(t) \subseteq Range(c)
    <2>1. \A i \in DOMAIN t : i + Len(s) \in DOMAIN c /\ c[i + Len(s)] = t[i]
      BY <1>1, <1>3 DEF c
    <2> QED
      BY <2>1 DEF Range
  <1> QED
    BY <1>1, <1>4, <1>5, <1>6 DEF c

\* A full list moves on by one before it grows.
LEMMA TailFacts ==
  ASSUME NEW S, NEW s \in Seq(S), s # <<>>
  PROVE  Tail(s) \in Seq(S) /\ Len(Tail(s)) = Len(s) - 1 /\ Range(Tail(s)) \subseteq Range(s)
  <1>1. Tail(s) \in Seq(S) /\ Len(Tail(s)) = Len(s) - 1
        /\ \A i \in 1..(Len(s) - 1) : Tail(s)[i] = s[i + 1]
    OBVIOUS
  <1> QED
    BY <1>1 DEF Range

\* What Push keeps: all that is new, and what was there before unless the list holds all but
\* one of the entries it may hold; once it does, it always will.
LEMMA PushFacts ==
  ASSUME NEW S, NEW s \in Seq(S), NEW t \in Seq(S)
  PROVE  /\ Push(s, t) \in Seq(S)
         /\ Range(t) \subseteq Range(Push(s, t))
         /\ Range(Push(s, t)) \subseteq Range(s) \union Range(t)
         /\ Range(s) \subseteq Range(Push(s, t)) \/ Len(Push(s, t)) >= Limit - 1
         /\ Len(s) >= Limit - 1 => Len(Push(s, t)) >= Limit - 1
  <1>1. Limit \in Nat \ {0} /\ Len(t) \in Nat /\ Len(s) \in Nat
    BY SocialAssumption
  <1>2. CASE Len(s) >= Limit
    <2> DEFINE u == Tail(s)
    <2>1. s # <<>> /\ Push(s, t) = u \o t
      BY <1>1, <1>2 DEF Push
    <2>2. u \in Seq(S) /\ Len(u) = Len(s) - 1 /\ Range(u) \subseteq Range(s)
      BY <2>1, TailFacts
    <2> HIDE DEF u
    <2>3. /\ Push(s, t) \in Seq(S) /\ Len(Push(s, t)) = Len(u) + Len(t)
          /\ Range(Push(s, t)) = Range(u) \union Range(t)
      <3>1. /\ u \o t \in Seq(S) /\ Len(u \o t) = Len(u) + Len(t)
            /\ Range(u \o t) = Range(u) \union Range(t)
        BY <2>2, ConcatFacts
      <3> QED
        BY <2>1, <3>1
    <2>4. Len(Push(s, t)) >= Limit - 1
      BY <1>1, <1>2, <2>2, <2>3
    <2> QED
      BY <2>2, <2>3, <2>4
  <1>3. CASE ~(Len(s) >= Limit)
    <2>1. Push(s, t) = s \o t
      BY <1>3 DEF Push
    <2>2. s \o t \in Seq(S) /\ Len(s \o t) = Len(s) + Len(t)
          /\ Range(s \o t) = Range(s) \union Range(t)
      BY ConcatFacts
    <2>3. Len(s) >= Limit - 1 => Len(s \o t) >= Limit - 1
      BY <1>1, <2>2
    <2> QED
      BY <2>1, <2>2, <2>3
  <1> QED
    BY <1>2, <1>3
-----------------------------------------------------------------------------
(* Types, and StoredBeforeShown: what a timeline or a request shows is an  *)
(* id that has been returned, and its post was stored or failed unnoticed. *)

Composing == {"userRead", "userWrite", "followers", "homeRead", "homeWrite"}

\* What a request holds when the ids in K have been returned.
Typed(x, K) ==
  /\ x \in Request /\ x.ids \in Seq(K) /\ x.list \in Seq(K)
  /\ x.pc \in {"homeRead", "homeWrite"} => x.todo # <<>>

TypedTimeline(t, K) == DOMAIN t \subseteq Users /\ \A u \in DOMAIN t : t[u] \in Seq(K)

PostsInv ==
  /\ DOMAIN creator \subseteq Posts /\ \A p \in DOMAIN creator : creator[p] \in Users
  /\ DOMAIN posts \subseteq DOMAIN creator /\ \A p \in DOMAIN posts : posts[p] = creator[p]
  /\ DOMAIN creator = DOMAIN posts \union unstored

ListsInv ==
  /\ TypedTimeline(userTimeline, DOMAIN creator)
  /\ TypedTimeline(homeTimeline, DOMAIN creator)
  /\ DOMAIN graph \subseteq Users /\ \A u \in DOMAIN graph : graph[u] \in Vertex
  /\ torn \subseteq Users /\ overwritten \subseteq {"user", "home"} \X Users
  /\ delivered \subseteq Posts \X Users

ReqInv == req \in [Requests -> Request] /\ \A r \in Requests : Typed(req[r], DOMAIN creator)

TypeInv == PostsInv /\ ListsInv /\ ReqInv

LEMMA TypeInvSuffices == TypeInv => TypeOK /\ StoredBeforeShown
  <1> SUFFICES ASSUME TypeInv PROVE TypeOK /\ StoredBeforeShown
    OBVIOUS
  <1> USE DEF TypeInv, PostsInv, ListsInv, ReqInv
  <1>1. TypeOK
    BY DEF TypeOK, TypedTimeline
  <1>2. ASSUME NEW t \in {userTimeline, homeTimeline}, NEW u \in Users
        PROVE  Range(Get(t, u, <<>>)) \subseteq DOMAIN creator
    <2>1. Get(t, u, <<>>) \in Seq(DOMAIN creator)
      BY DEF Get, Found, TypedTimeline
    <2> QED
      BY <2>1 DEF Range
  <1>3. ASSUME NEW r \in Requests PROVE Range(req[r].ids) \subseteq DOMAIN creator
    <2>1. req[r].ids \in Seq(DOMAIN creator)
      BY DEF Typed
    <2> QED
      BY <2>1 DEF Range
  <1>4. StoredBeforeShown
    BY <1>2, <1>3 DEF StoredBeforeShown
  <1> QED
    BY <1>1, <1>4

LEMMA TypedMore ==
  ASSUME NEW K, NEW L, K \subseteq L
  PROVE  /\ Seq(K) \subseteq Seq(L)
         /\ \A x : Typed(x, K) => Typed(x, L)
         /\ \A t : TypedTimeline(t, K) => TypedTimeline(t, L)
  <1>1. Seq(K) \subseteq Seq(L)
    OBVIOUS
  <1> QED
    BY <1>1, Zenon DEF Typed, TypedTimeline

LEMMA IdleTyped == \A K : Typed(Idle, K)
  <1>1. Idle \in Request
    BY SocialAssumption DEF Idle, Request, Step, NoVertex, Vertex
  <1> QED
    BY <1>1 DEF Typed, Idle, Composing

LEMMA StaleTyped ==
  ASSUME NEW K, NEW x, Typed(x, K)
  PROVE  Typed([x EXCEPT !.stale = TRUE], K)
  BY DEF Typed, Request

\* The requests after a step of one that becomes x and overtakes those of S.
LEMMA OvertakeTyped ==
  ASSUME ReqInv, NEW r \in Requests, NEW x, NEW S, Typed(x, DOMAIN creator'),
         DOMAIN creator \subseteq DOMAIN creator',
         Become(r, x) \/ Overtake(r, x, S)
  PROVE  ReqInv'
  <1>1. ASSUME NEW q \in Requests PROVE Typed(req'[q], DOMAIN creator')
    <2>1. Typed(req[q], DOMAIN creator')
      BY TypedMore DEF ReqInv
    <2>2. \/ req'[q] = x \/ req'[q] = req[q]
          \/ req'[q] = [req[q] EXCEPT !.stale = TRUE]
      BY DEF Become, Overtake, ReqInv
    <2> QED
      BY <2>1, <2>2, StaleTyped
  <1>2. \A q \in Requests : req'[q] \in Request
    BY <1>1 DEF Typed
  <1>3. req' \in [Requests -> Request]
    BY <1>2 DEF Become, Overtake, ReqInv
  <1> QED
    BY <1>1, <1>3 DEF ReqInv

LEMMA ServeTyped ==
  ASSUME NEW K, NEW x \in Request, x.ids \in Seq(K)
  PROVE  Typed(Serve(x), K)
  <1>1. CASE x.todo = <<>>
    BY <1>1, IdleTyped DEF Serve
  <1>2. CASE x.todo # <<>>
    <2> DEFINE y == [x EXCEPT !.pc = "homeRead", !.list = <<>>, !.stale = FALSE]
    <2>1. y.ids = x.ids /\ y.todo = x.todo /\ y.list = <<>>
      BY DEF Request
    <2>3. y \in Request
      <3>1. <<>> \in Seq(Posts) /\ "homeRead" \in Step
        BY DEF Step
      <3>2. Request = [pc : Step, user : Users, other : Users, ids : Seq(Posts), list : Seq(Posts),
                       vertex : Vertex, todo : Seq(Users), stale : BOOLEAN]
        BY DEF Request
      <3> QED
        BY ONLY x \in Request, <3>1, <3>2
    <2>2. Serve(x) = y
      BY <1>2 DEF Serve
    <2> HIDE DEF y
    <2>5. <<>> \in Seq(K)
      OBVIOUS
    <2>4. Typed(y, K)
      BY <1>2, <2>1, <2>3, <2>5 DEF Typed
    <2> QED
      BY <2>2, <2>4
  <1> QED
    BY <1>1, <1>2

LEMMA TypeInit == Init => TypeInv
  BY IdleTyped DEF Init, TypeInv, PostsInv, ListsInv, ReqInv, Typed, TypedTimeline, Empty

LEMMA StorePostsType ==
  ASSUME TypeInv, NEW r \in Requests, NEW u \in Users, NEW ids \in Seq(Posts),
         NEW done \in SUBSET Range(ids), StorePosts(r, u, ids, done)
  PROVE  TypeInv'
  <1> USE DEF StorePosts
  <1> DEFINE K == DOMAIN creator
             L == Range(ids)
  <1>1. L \subseteq Posts /\ ids \in Seq(L)
    BY DEF Range
  <1>2. /\ DOMAIN creator' = K \union L /\ DOMAIN posts' = DOMAIN posts \union done
        /\ \A p \in L : creator'[p] = u
        /\ \A p \in K \ L : creator'[p] = creator[p]
        /\ \A p \in done : posts'[p] = u
        /\ \A p \in DOMAIN posts \ done : posts'[p] = posts[p]
    BY DEF SetBulkState
  <1>3. K \cap L = {} /\ unstored' = unstored \union (L \ done)
    OBVIOUS
  <1>4. PostsInv'
    BY <1>1, <1>2, <1>3 DEF TypeInv, PostsInv
  <1>5. ListsInv'
    BY <1>2, TypedMore DEF TypeInv, ListsInv
  <1> DEFINE x == [Idle EXCEPT !.pc = "userRead", !.user = u, !.ids = ids]
  <1>6. ids \in Seq(K \union L)
    BY <1>1, TypedMore
  <1>7. Typed(x, DOMAIN creator')
    <2>1. Idle \in Request /\ Idle.list \in Seq(K \union L)
      BY IdleTyped DEF Typed
    <2>2. x \in Request /\ x.ids = ids /\ x.list = Idle.list /\ x.pc = "userRead"
      BY <2>1 DEF Request, Step
    <2> HIDE DEF x
    <2> QED
      BY <1>2, <1>6, <2>1, <2>2 DEF Typed
  <1>8. ReqInv'
    BY <1>2, <1>7, OvertakeTyped DEF TypeInv
  <1> QED
    BY <1>4, <1>5, <1>8 DEF TypeInv

LEMMA GetTyped ==
  ASSUME NEW K, NEW t, TypedTimeline(t, K), NEW u
  PROVE  Get(t, u, <<>>) \in Seq(K)
  BY DEF TypedTimeline, Get, Found

\* The list a request is about to write.
NextList(t, u, ids, failed) == Push(IF failed THEN <<>> ELSE Get(t, u, <<>>), ids)

LEMMA NextListTyped ==
  ASSUME NEW K, NEW t, TypedTimeline(t, K), NEW u, NEW ids \in Seq(K),
         NEW failed \in BOOLEAN
  PROVE  NextList(t, u, ids, failed) \in Seq(K)
  <1> DEFINE l == IF failed THEN <<>> ELSE Get(t, u, <<>>)
  <1>1. l \in Seq(K)
    BY GetTyped
  <1>2. NextList(t, u, ids, failed) = Push(l, ids)
    BY DEF NextList
  <1> HIDE DEF l
  <1> QED
    BY <1>1, <1>2, PushFacts

LEMMA ReadListTyped ==
  ASSUME ReqInv, DOMAIN creator \subseteq Posts, NEW r \in Requests, NEW t, TypedTimeline(t, DOMAIN creator),
         NEW u, NEW next \in {"userWrite", "homeWrite"},
         next = "homeWrite" => req[r].todo # <<>>, ReadList(r, t, u, next), UNCHANGED creator
  PROVE  ReqInv'
  <1> DEFINE K == DOMAIN creator
             w == req[r]
  <1>1. Typed(w, K)
    BY DEF ReqInv
  <1>2. PICK failed \in BOOLEAN :
          Become(r, [w EXCEPT !.pc = next, !.stale = failed /\ Found(t, u),
                              !.list = NextList(t, u, w.ids, failed)])
    BY DEF ReadList, NextList
  <1> DEFINE l == NextList(t, u, w.ids, failed)
             x == [w EXCEPT !.pc = next, !.stale = failed /\ Found(t, u), !.list = l]
  <1>3. l \in Seq(K) /\ l \in Seq(Posts)
    <2>1. l \in Seq(K)
      BY <1>1, NextListTyped DEF Typed
    <2> QED
      BY <2>1, TypedMore
  <1> HIDE DEF l
  <1>4. x.ids = w.ids /\ x.todo = w.todo /\ x.list = l /\ x.pc = next
    BY <1>1 DEF Typed, Request
  <1>5. x \in Request
    <2>1. next \in Step
      BY DEF Step
    <2> QED
      BY <1>1, <1>3, <2>1 DEF Typed, Request
  <1>6. Become(r, x)
    BY <1>2 DEF l
  <1> HIDE DEF x
  <1>7. Typed(x, K)
    BY <1>1, <1>3, <1>4, <1>5 DEF Typed
  <1> QED
    BY <1>6, <1>7, OvertakeTyped

LEMMA WrittenTyped ==
  ASSUME NEW K, NEW t, TypedTimeline(t, K), NEW u \in Users, NEW l \in Seq(K)
  PROVE  TypedTimeline(SetState(t, u, l), K)
  BY DEF TypedTimeline, SetState

LEMMA ComposeType ==
  ASSUME TypeInv, NEW r \in Requests, Compose(r)
  PROVE  TypeInv'
  <1> DEFINE K == DOMAIN creator
  <1>a. Typed(req[r], K) /\ PostsInv /\ ListsInv /\ ReqInv
    BY DEF TypeInv, ReqInv
  <1>b. K \subseteq Posts /\ TypedTimeline(userTimeline, K) /\ TypedTimeline(homeTimeline, K)
    BY <1>a DEF PostsInv, ListsInv
  <1>1. ASSUME NEW u \in Authors, ComposePost(r, u) \/ ComposePostMulti(r, u) PROVE TypeInv'
    <2>1. PICK ids \in Seq(Posts) : \E done \in SUBSET Range(ids) : StorePosts(r, u, ids, done)
      <3>1. CASE ComposePost(r, u)
        <4>1. PICK p \in Posts : \E done \in SUBSET {p} : StorePosts(r, u, <<p>>, done)
          BY <3>1 DEF ComposePost
        <4>2. <<p>> \in Seq(Posts) /\ Range(<<p>>) = {p}
          BY DEF Range
        <4> QED
          BY <4>1, <4>2
      <3>2. CASE ComposePostMulti(r, u)
        <4>0. PICK n \in Batches : \E ids \in [1..n -> Posts] :
                \E done \in SUBSET Range(ids) : StorePosts(r, u, ids, done)
          BY <3>2 DEF ComposePostMulti
        <4>1. PICK ids \in [1..n -> Posts] :
                \E done \in SUBSET Range(ids) : StorePosts(r, u, ids, done)
          BY <4>0
        <4>2. ids \in Seq(Posts)
          BY SocialAssumption
        <4> QED
          BY <4>1, <4>2
      <3> QED
        BY <1>1, <3>1, <3>2
    <2>2. u \in Users
      BY SocialAssumption
    <2> QED
      BY <2>1, <2>2, StorePostsType
  <1>2. CASE ReadUserTimeline(r)
    <2>1. ReqInv'
      BY <1>2, <1>a, <1>b, ReadListTyped DEF ReadUserTimeline, At, Typed, Composing, history
    <2> QED
      BY <1>2, <1>a, <2>1 DEF ReadUserTimeline, TypeInv, PostsInv, ListsInv, history
  <1>3. CASE WriteUserTimeline(r)
    <2> DEFINE x == [req[r] EXCEPT !.pc = "followers", !.list = <<>>, !.stale = FALSE]
    <2>1. req[r].user \in Users /\ req[r].list \in Seq(K)
      BY <1>a DEF Typed, Request
    <2>2. Typed(x, K)
      <3>1. req[r] \in Request /\ req[r].ids \in Seq(K)
        BY <1>3, <1>a DEF WriteUserTimeline, At, Typed, Composing
      <3>2. <<>> \in Seq(Posts) /\ <<>> \in Seq(K) /\ "followers" \in Step
        BY DEF Step
      <3>3. x \in Request /\ x.ids = req[r].ids /\ x.list = <<>> /\ x.pc = "followers"
        BY ONLY <3>1, <3>2 DEF Request
      <3> HIDE DEF x
      <3> QED
        BY <3>1, <3>2, <3>3 DEF Typed
    <2>3. ReqInv'
      BY <1>3, <1>a, <2>2, OvertakeTyped DEF WriteUserTimeline
    <2>4. TypedTimeline(userTimeline', K)
      BY <1>3, <1>b, <2>1, WrittenTyped DEF WriteUserTimeline
    <2> QED
      BY <1>3, <1>a, <2>1, <2>3, <2>4
      DEF WriteUserTimeline, TypeInv, PostsInv, ListsInv, Overwritten
  <1>4. CASE GetFollowers(r)
    <2> DEFINE x == [req[r] EXCEPT !.todo = graph[req[r].user].followers]
    <2>1. x \in Request /\ x.ids = req[r].ids
      BY <1>4, <1>a DEF GetFollowers, Found, ListsInv, Vertex, Typed, Request
    <2>2. Typed(Serve(x), K)
      BY <1>4, <1>a, <2>1, ServeTyped DEF GetFollowers, At, Typed, Composing
    <2>3. ReqInv'
      BY <1>4, <1>a, <2>2, OvertakeTyped DEF GetFollowers, history
    <2> QED
      BY <1>4, <1>a, <2>3 DEF GetFollowers, TypeInv, PostsInv, ListsInv, history
  <1>5. CASE ReadHomeTimeline(r)
    <2>1. ReqInv'
      BY <1>5, <1>a, <1>b, ReadListTyped DEF ReadHomeTimeline, At, Typed, Composing, history
    <2> QED
      BY <1>5, <1>a, <2>1 DEF ReadHomeTimeline, TypeInv, PostsInv, ListsInv, history
  <1>6. CASE WriteHomeTimeline(r)
    <2> DEFINE f == Head(req[r].todo)
               x == [req[r] EXCEPT !.todo = Tail(@)]
    <2>1. /\ req[r].todo \in Seq(Users) /\ req[r].todo # <<>>
          /\ req[r].list \in Seq(K) /\ req[r].ids \in Seq(K)
      BY <1>6, <1>a DEF WriteHomeTimeline, At, Typed, Request, Composing
    <2>2. f \in Users /\ Tail(req[r].todo) \in Seq(Users)
      BY <2>1
    <2>3. x \in Request /\ x.ids = req[r].ids
      BY <1>a, <2>2 DEF Typed, Request
    <2>4. ReqInv'
      BY <1>6, <1>a, <2>1, <2>3, ServeTyped, OvertakeTyped DEF WriteHomeTimeline
    <2>5. TypedTimeline(homeTimeline', K)
      BY <1>6, <1>b, <2>1, <2>2, WrittenTyped DEF WriteHomeTimeline
    <2>6. Range(req[r].ids) \subseteq Posts
      BY <1>b, <2>1 DEF Range
    <2>7. delivered' \subseteq Posts \X Users
      BY <1>6, <1>a, <2>2, <2>6 DEF WriteHomeTimeline, ListsInv
    <2>8. overwritten' \subseteq {"user", "home"} \X Users
      BY <1>6, <1>a, <2>2 DEF WriteHomeTimeline, ListsInv, Overwritten
    <2> QED
      BY <1>6, <1>a, <2>4, <2>5, <2>7, <2>8 DEF WriteHomeTimeline, TypeInv, PostsInv, ListsInv
  <1> QED
    BY <1>1, <1>2, <1>3, <1>4, <1>5, <1>6 DEF Compose

LEMMA NoVertexTyped == NoVertex \in Vertex
  BY DEF NoVertex, Vertex

\* A vertex of the graph, or the one a request is about to write.
LEMMA VertexTyped ==
  ASSUME ListsInv, NEW v
  PROVE  Get(graph, v, NoVertex) \in Vertex
  BY NoVertexTyped DEF ListsInv, Get, Found

\* The vertex a follow is about to write.
NextVertex(g, v, x, failed) ==
  LET s == IF failed THEN NoVertex ELSE Get(g, v, NoVertex) IN
  IF x.pc = "followerWrite" THEN [s EXCEPT !.followees = Append(@, x.other)]
                            ELSE [s EXCEPT !.followers = Append(@, x.user)]

LEMMA ReadVertexTyped ==
  ASSUME ReqInv, ListsInv, NEW r \in Requests, NEW v, NEW x, Typed(x, DOMAIN creator),
         ReadVertex(r, v, x), UNCHANGED creator
  PROVE  ReqInv'
  <1>1. PICK failed \in BOOLEAN :
          Become(r, [x EXCEPT !.stale = failed /\ Found(graph, v),
                              !.vertex = NextVertex(graph, v, x, failed)])
    BY DEF ReadVertex, NextVertex
  <1> DEFINE n == NextVertex(graph, v, x, failed)
             y == [x EXCEPT !.stale = failed /\ Found(graph, v), !.vertex = n]
  <1>2. n \in Vertex
    <2> DEFINE s == IF failed THEN NoVertex ELSE Get(graph, v, NoVertex)
    <2>1. s \in Vertex
      BY NoVertexTyped, VertexTyped
    <2>2. x.user \in Users /\ x.other \in Users
      BY DEF Typed, Request
    <2>3. n = IF x.pc = "followerWrite" THEN [s EXCEPT !.followees = Append(@, x.other)]
                                        ELSE [s EXCEPT !.followers = Append(@, x.user)]
      BY DEF NextVertex
    <2> HIDE DEF s, n
    <2>4. /\ Append(s.followees, x.other) \in Seq(Users)
          /\ Append(s.followers, x.user) \in Seq(Users)
      BY <2>1, <2>2 DEF Vertex
    <2> QED
      BY ONLY <2>1, <2>3, <2>4 DEF Vertex
  <1>3. Become(r, y)
    BY <1>1
  <1> HIDE DEF n
  <1>4. y \in Request /\ y.ids = x.ids /\ y.list = x.list /\ y.pc = x.pc /\ y.todo = x.todo
    <2>1. (failed /\ Found(graph, v)) \in BOOLEAN
      OBVIOUS
    <2> QED
      BY <1>2, <2>1 DEF Typed, Request
  <1> HIDE DEF y
  <1>5. Typed(y, DOMAIN creator)
    BY <1>4 DEF Typed
  <1> QED
    BY <1>3, <1>5, OvertakeTyped

LEMMA EditType ==
  ASSUME TypeInv, NEW r \in Requests, Edit(r)
  PROVE  TypeInv'
  <1> DEFINE K == DOMAIN creator
  <1>a. Typed(req[r], K) /\ PostsInv /\ ListsInv /\ ReqInv
    BY DEF TypeInv, ReqInv
  <1>b. req[r].user \in Users /\ req[r].other \in Users /\ req[r].vertex \in Vertex
    BY <1>a DEF Typed, Request
  <1>1. ASSUME NEW e \in Follows, Follow(r, e[1], e[2]) PROVE TypeInv'
    <2> DEFINE x == [Idle EXCEPT !.pc = "followerWrite", !.user = e[1], !.other = e[2]]
    <2>1. e[1] \in Users /\ e[2] \in Users
      BY SocialAssumption
    <2>2. Typed(x, K)
      <3>1. Typed(Idle, K) /\ "followerWrite" \in Step
        BY IdleTyped DEF Step
      <3> QED
        BY <2>1, <3>1 DEF Typed, Request, Composing
    <2>3. ReqInv'
      BY <1>1, <1>a, <2>2, ReadVertexTyped DEF Follow, history
    <2> QED
      BY <1>1, <1>a, <2>3 DEF Follow, TypeInv, PostsInv, ListsInv, history
  <1>2. CASE WriteFollower(r)
    <2> DEFINE x == [req[r] EXCEPT !.pc = "followeeRead", !.vertex = NoVertex, !.stale = FALSE]
    <2>1. Typed(x, K)
      BY <1>a, NoVertexTyped DEF Typed, Request, Step, Composing
    <2>2. ReqInv'
      BY <1>2, <1>a, <2>1, OvertakeTyped DEF WriteFollower, WriteVertex
    <2> QED
      BY <1>2, <1>a, <1>b, <2>2
      DEF WriteFollower, WriteVertex, SetState, TypeInv, PostsInv, ListsInv
  <1>3. CASE ReadFollowee(r)
    <2>1. Typed([req[r] EXCEPT !.pc = "followeeWrite"], K)
      BY <1>a DEF Typed, Request, Step, Composing
    <2>2. ReqInv'
      BY <1>3, <1>a, <2>1, ReadVertexTyped DEF ReadFollowee, history
    <2> QED
      BY <1>3, <1>a, <2>2 DEF ReadFollowee, TypeInv, PostsInv, ListsInv, history
  <1>4. CASE WriteFollowee(r)
    <2>1. ReqInv'
      BY <1>4, <1>a, IdleTyped, OvertakeTyped DEF WriteFollowee, WriteVertex
    <2> QED
      BY <1>4, <1>a, <1>b, <2>1
      DEF WriteFollowee, WriteVertex, SetState, TypeInv, PostsInv, ListsInv
  <1> QED
    BY <1>1, <1>2, <1>3, <1>4 DEF Edit

LEMMA ReadType ==
  ASSUME TypeInv, NEW r \in Requests, Read(r)
  PROVE  TypeInv'
  <1> DEFINE K == DOMAIN creator
  <1>a. PostsInv /\ ListsInv /\ ReqInv
    BY DEF TypeInv
  <1>1. ASSUME NEW u \in Users, ReadTimeline(r, u) PROVE TypeInv'
    <2>1. PICK t \in {userTimeline, homeTimeline} :
            Found(t, u) /\ Become(r, [Idle EXCEPT !.pc = "posts", !.user = u, !.ids = t[u]])
      BY <1>1 DEF ReadTimeline
    <2> DEFINE x == [Idle EXCEPT !.pc = "posts", !.user = u, !.ids = t[u]]
    <2>2. t[u] \in Seq(K) /\ t[u] \in Seq(Posts)
      <3>1. t[u] \in Seq(K)
        BY <1>a, <2>1 DEF ListsInv, TypedTimeline, Found
      <3>2. K \subseteq Posts
        BY <1>a DEF PostsInv
      <3> QED
        BY <3>1, <3>2, TypedMore
    <2>3. Typed(x, K)
      <3>1. Typed(Idle, K) /\ "posts" \in Step
        BY IdleTyped DEF Step
      <3> QED
        BY <2>2, <3>1 DEF Typed, Request, Composing
    <2>4. ReqInv'
      BY <1>1, <1>a, <2>1, <2>3, OvertakeTyped DEF ReadTimeline, history
    <2> QED
      BY <1>1, <1>a, <2>4 DEF ReadTimeline, TypeInv, PostsInv, ListsInv, history
  <1>2. CASE ReadPosts(r)
    <2>1. ReqInv'
      BY <1>2, <1>a, IdleTyped, OvertakeTyped DEF ReadPosts, history
    <2> QED
      BY <1>2, <1>a, <2>1 DEF ReadPosts, TypeInv, PostsInv, ListsInv, history
  <1> QED
    BY <1>1, <1>2 DEF Read

LEMMA FailType ==
  ASSUME TypeInv, NEW r \in Requests, Fail(r)
  PROVE  TypeInv'
  <1>1. PostsInv /\ ListsInv /\ ReqInv /\ Typed(req[r], DOMAIN creator)
    BY DEF TypeInv, ReqInv
  <1>2. ReqInv'
    BY <1>1, IdleTyped, OvertakeTyped DEF Fail
  <1>3. torn' \subseteq Users
    BY <1>1 DEF Fail, ListsInv, Typed, Request
  <1> QED
    BY <1>1, <1>2, <1>3 DEF Fail, TypeInv, PostsInv, ListsInv

LEMMA InsertUserType ==
  ASSUME TypeInv, NEW u \in Users, InsertUser(u)
  PROVE  TypeInv'
  <1>1. PostsInv /\ ListsInv /\ ReqInv
    BY DEF TypeInv
  <1>2. \A q \in Requests : Typed(req[q], DOMAIN creator) /\ Typed(req'[q], DOMAIN creator)
    BY <1>1, StaleTyped DEF InsertUser, ReqInv
  <1>3. \A q \in Requests : req'[q] \in Request
    BY <1>2 DEF Typed
  <1>4. req' \in [Requests -> Request]
    BY <1>3 DEF InsertUser
  <1> QED
    BY <1>1, <1>2, <1>4, NoVertexTyped
    DEF InsertUser, SetState, TypeInv, PostsInv, ListsInv, ReqInv

LEMMA TypeStep == TypeInv /\ [Next]_vars => TypeInv'
  <1> SUFFICES ASSUME TypeInv, [Next]_vars PROVE TypeInv'
    OBVIOUS
  <1>1. CASE UNCHANGED vars
    BY <1>1 DEF vars, history, TypeInv, PostsInv, ListsInv, ReqInv
  <1>2. CASE Next
    BY <1>2, ComposeType, EditType, ReadType, FailType, InsertUserType DEF Next
  <1> QED
    BY <1>1, <1>2

\* Ids, lists and vertices keep their types, whatever fails.
THEOREM SocialTypes == Spec => []TypeOK
  BY TypeInit, TypeStep, TypeInvSuffices, PTL DEF Spec

\* A timeline, or a request that reads or extends one, shows only posts that can be read, but
\* for those whose store failed unnoticed.
THEOREM PostsStoredFirst == Spec => []StoredBeforeShown
  BY TypeInit, TypeStep, TypeInvSuffices, PTL DEF Spec
-----------------------------------------------------------------------------
(* DeliveredIsKept and AuthorFirst.  Their inductive invariant says, of a  *)
(* request that is about to write a list, that it extends the list stored  *)
(* now unless the request was overtaken, and, of one past the author's own *)
(* timeline, that its posts are kept there.                                *)

\* Kept, of any timeline and set of overwritten ones.
KeptAt(name, t, ow, u, p) ==
  \/ Found(t, u) /\ (p \in Range(t[u]) \/ Len(t[u]) >= Limit - 1)
  \/ <<name, u>> \in ow

Written(x, ut, ht) ==
  /\ x.pc = "userWrite" /\ ~x.stale => x.list = NextList(ut, x.user, x.ids, FALSE)
  /\ x.pc = "homeWrite" /\ ~x.stale => x.list = NextList(ht, Head(x.todo), x.ids, FALSE)

OnAuthors(S, ut, cr, ow) == \A p \in S : KeptAt("user", ut, ow, cr[p], p)

Authored(x, ut, cr, ow) ==
  /\ x.pc \in Composing => \A p \in Range(x.ids) : cr[p] = x.user
  /\ x.pc \in {"followers", "homeRead", "homeWrite"} => OnAuthors(Range(x.ids), ut, cr, ow)
  /\ x.pc = "homeWrite" => OnAuthors(Range(x.list), ut, cr, ow)

Pending(x, ut, ht, cr, ow) == Written(x, ut, ht) /\ Authored(x, ut, cr, ow)

PendingInv ==
  \A r \in Requests : Pending(req[r], userTimeline, homeTimeline, creator, overwritten)

DeliveredInv == \A d \in delivered : KeptAt("home", homeTimeline, overwritten, d[2], d[1])

AuthorInv ==
  \A u \in DOMAIN homeTimeline :
    OnAuthors(Range(homeTimeline[u]), userTimeline, creator, overwritten)

TimelineInv == DeliveredInv /\ AuthorInv /\ PendingInv

LEMMA TimelineInvSuffices == TimelineInv => DeliveredIsKept /\ AuthorFirst
  BY DEF TimelineInv, DeliveredInv, AuthorInv, OnAuthors, KeptAt, DeliveredIsKept, AuthorFirst,
         Kept

LEMMA NotWriting ==
  ASSUME NEW x, x.pc \notin Composing
  PROVE  \A ut, ht, cr, ow : Pending(x, ut, ht, cr, ow)
  BY DEF Pending, Written, Authored, Composing

LEMMA IdlePending == \A ut, ht, cr, ow : Pending(Idle, ut, ht, cr, ow)
  <1>1. Idle.pc \notin Composing
    BY DEF Idle, Composing
  <1> QED
    BY <1>1, NotWriting

LEMMA TimelineInit == Init => TimelineInv
  <1> SUFFICES ASSUME Init PROVE TimelineInv
    OBVIOUS
  <1>1. delivered = {} /\ DOMAIN homeTimeline = {} /\ \A r \in Requests : req[r] = Idle
    BY DEF Init, Empty
  <1> QED
    BY <1>1, IdlePending DEF TimelineInv, DeliveredInv, AuthorInv, PendingInv

\* A write to the list of f extends what was stored, or else f counts as overwritten.
Extended(name, t, f, ids, l, ow, ow2) ==
  \/ l = NextList(t, f, ids, FALSE) /\ ow2 = ow
  \/ ow2 = ow \union {<<name, f>>}

LEMMA WriteKeeps ==
  ASSUME NEW K, NEW t, TypedTimeline(t, K), NEW f, NEW ids \in Seq(K),
         NEW l \in Seq(K), NEW ow, NEW ow2, NEW name, Extended(name, t, f, ids, l, ow, ow2)
  PROVE  /\ \A u, p : KeptAt(name, t, ow, u, p) => KeptAt(name, SetState(t, f, l), ow2, u, p)
         /\ \A p \in Range(ids) : KeptAt(name, SetState(t, f, l), ow2, f, p)
  <1> DEFINE t2 == SetState(t, f, l)
  <1>1. /\ DOMAIN t2 = DOMAIN t \union {f} /\ t2[f] = l
        /\ \A u \in DOMAIN t \ {f} : t2[u] = t[u]
    BY DEF SetState
  <1>2. ow \subseteq ow2
    BY DEF Extended
  <1> HIDE DEF t2
  <1>3. ASSUME NEW u, NEW p, KeptAt(name, t, ow, u, p), u # f
        PROVE  KeptAt(name, t2, ow2, u, p)
    BY <1>1, <1>2, <1>3 DEF KeptAt, Found
  <1>4. CASE ow2 = ow \union {<<name, f>>}
    <2>1. \A p : KeptAt(name, t2, ow2, f, p)
      BY <1>4 DEF KeptAt
    <2> QED
      BY <1>3, <2>1 DEF t2
  <1>5. CASE l = NextList(t, f, ids, FALSE)
    <2> DEFINE o == Get(t, f, <<>>)
    <2>1. o \in Seq(K)
      BY GetTyped
    <2>2. l = Push(o, ids)
      BY <1>5 DEF NextList
    <2>3. Found(t, f) => o = t[f]
      BY DEF Get
    <2> HIDE DEF o
    <2>4. /\ Range(ids) \subseteq Range(l)
          /\ Range(o) \subseteq Range(l) \/ Len(l) >= Limit - 1
          /\ Len(o) >= Limit - 1 => Len(l) >= Limit - 1
      BY <2>1, <2>2, PushFacts
    <2>5. ASSUME NEW p, KeptAt(name, t, ow, f, p) PROVE KeptAt(name, t2, ow2, f, p)
      BY <1>1, <1>2, <2>3, <2>4, <2>5 DEF KeptAt, Found
    <2>6. ASSUME NEW p \in Range(ids) PROVE KeptAt(name, t2, ow2, f, p)
      BY <1>1, <2>4, <2>6 DEF KeptAt, Found
    <2> QED
      BY <1>3, <2>5, <2>6 DEF t2
  <1> QED
    BY <1>4, <1>5 DEF Extended

\* A request that is only overtaken, or that nothing happens to, while what is kept stays kept
\* and the lists that those not overtaken will write are those stored.
LEMMA OtherPending ==
  ASSUME NEW K, NEW x, Typed(x, K),
         NEW ut, NEW ht, NEW cr, NEW ow, NEW ut2, NEW ht2, NEW cr2, NEW ow2,
         Pending(x, ut, ht, cr, ow),
         \A p \in K : cr2[p] = cr[p],
         \A u, p : KeptAt("user", ut, ow, u, p) => KeptAt("user", ut2, ow2, u, p),
         NEW y, \/ y = [x EXCEPT !.stale = TRUE]
                \/ /\ y = x
                   /\ x.pc = "userWrite" => Get(ut2, x.user, <<>>) = Get(ut, x.user, <<>>)
                   /\ x.pc = "homeWrite" => Get(ht2, Head(x.todo), <<>>) = Get(ht, Head(x.todo), <<>>)
  PROVE  Pending(y, ut2, ht2, cr2, ow2)
  <1>1. /\ y.pc = x.pc /\ y.ids = x.ids /\ y.list = x.list /\ y.user = x.user
        /\ y.todo = x.todo /\ (y.stale \/ y = x)
    BY DEF Typed, Request
  <1>2. Range(x.ids) \subseteq K /\ Range(x.list) \subseteq K
    BY DEF Typed, Range
  <1>3. ASSUME NEW S \in SUBSET K, OnAuthors(S, ut, cr, ow) PROVE OnAuthors(S, ut2, cr2, ow2)
    BY <1>3 DEF OnAuthors
  <1>4. Authored(y, ut2, cr2, ow2)
    <2>1. Authored(x, ut, cr, ow)
      BY DEF Pending
    <2> QED
      BY <1>1, <1>2, <1>3, <2>1 DEF Authored
  <1>5. Written(y, ut2, ht2)
    <2>1. CASE y.stale
      BY <2>1 DEF Written
    <2>2. CASE ~y.stale
      <3>1. y = x /\ Written(x, ut, ht)
        BY <1>1, <2>2 DEF Pending
      <3> QED
        BY <2>2, <3>1 DEF Written, NextList, Typed, Request
    <2> QED
      BY <2>1, <2>2
  <1> QED
    BY <1>4, <1>5 DEF Pending

SameLists(x) ==
  /\ x.pc = "userWrite" => Get(userTimeline', x.user, <<>>) = Get(userTimeline, x.user, <<>>)
  /\ x.pc = "homeWrite" =>
       Get(homeTimeline', Head(x.todo), <<>>) = Get(homeTimeline, Head(x.todo), <<>>)

LEMMA OvertakePending ==
  ASSUME ReqInv, PendingInv, NEW r \in Requests, NEW x, NEW S,
         \A p \in DOMAIN creator : creator'[p] = creator[p],
         \A u, p : KeptAt("user", userTimeline, overwritten, u, p)
                     => KeptAt("user", userTimeline', overwritten', u, p),
         Pending(x, userTimeline', homeTimeline', creator', overwritten'),
         \A q \in Requests \ {r} : q \in S \/ SameLists(req[q]),
         Overtake(r, x, S)
  PROVE  PendingInv'
  <1> SUFFICES ASSUME NEW q \in Requests
               PROVE  Pending(req'[q], userTimeline', homeTimeline', creator', overwritten')
    BY DEF PendingInv
  <1>1. CASE q = r
    BY <1>1 DEF Overtake
  <1>2. CASE q # r
    <2>1. \/ req'[q] = [req[q] EXCEPT !.stale = TRUE]
          \/ req'[q] = req[q] /\ q \notin S
      BY <1>2 DEF Overtake
    <2>2. Typed(req[q], DOMAIN creator)
          /\ Pending(req[q], userTimeline, homeTimeline, creator, overwritten)
      BY DEF ReqInv, PendingInv
    <2> QED
      BY <1>2, <2>1, <2>2, OtherPending DEF SameLists
  <1> QED
    BY <1>1, <1>2

LEMMA BecomePending ==
  ASSUME ReqInv, PendingInv, NEW r \in Requests, NEW x, Become(r, x),
         \A p \in DOMAIN creator : creator'[p] = creator[p],
         UNCHANGED <<userTimeline, homeTimeline, overwritten>>,
         Pending(x, userTimeline, homeTimeline, creator', overwritten)
  PROVE  PendingInv'
  <1>1. Overtake(r, x, {})
    BY DEF Become, Overtake, ReqInv
  <1>2. \A q \in Requests : SameLists(req[q])
    BY DEF SameLists
  <1> QED
    BY <1>1, <1>2, OvertakePending

\* Steps that write no timeline.
LEMMA TimelinesUnchanged ==
  ASSUME TypeInv, TimelineInv, UNCHANGED <<userTimeline, homeTimeline, overwritten, delivered>>,
         \A p \in DOMAIN creator : creator'[p] = creator[p], PendingInv'
  PROVE  TimelineInv'
  <1>1. \A u \in DOMAIN homeTimeline : Range(homeTimeline[u]) \subseteq DOMAIN creator
    BY DEF TypeInv, ListsInv, TypedTimeline, Range
  <1>2. AuthorInv'
    BY <1>1 DEF TimelineInv, AuthorInv, OnAuthors
  <1> QED
    BY <1>2 DEF TimelineInv, DeliveredInv

LEMMA StorePostsTimeline ==
  ASSUME TypeInv, TimelineInv, NEW r \in Requests, NEW u \in Users, NEW ids \in Seq(Posts),
         NEW done \in SUBSET Range(ids), StorePosts(r, u, ids, done)
  PROVE  TimelineInv'
  <1> DEFINE x == [Idle EXCEPT !.pc = "userRead", !.user = u, !.ids = ids]
  <1>1. Become(r, x) /\ UNCHANGED <<userTimeline, homeTimeline, overwritten, delivered>>
    BY DEF StorePosts
  <1>2. /\ \A p \in DOMAIN creator : creator'[p] = creator[p]
        /\ \A p \in Range(ids) : creator'[p] = u
    BY DEF StorePosts, SetBulkState
  <1>3. x.pc = "userRead" /\ x.ids = ids /\ x.user = u
    BY IdleTyped DEF Typed, Request
  <1> HIDE DEF x
  <1>4. Pending(x, userTimeline, homeTimeline, creator', overwritten)
    BY <1>2, <1>3 DEF Pending, Written, Authored
  <1>5. PendingInv'
    BY <1>1, <1>2, <1>4, BecomePending DEF TypeInv, TimelineInv
  <1> QED
    BY <1>1, <1>2, <1>5, TimelinesUnchanged

LEMMA NextListRange ==
  ASSUME NEW K, NEW t, TypedTimeline(t, K), NEW u, NEW ids \in Seq(K),
         NEW failed \in BOOLEAN
  PROVE  Range(NextList(t, u, ids, failed)) \subseteq Range(Get(t, u, <<>>)) \union Range(ids)
  <1> DEFINE l == IF failed THEN <<>> ELSE Get(t, u, <<>>)
  <1>1. l \in Seq(K) /\ Range(l) \subseteq Range(Get(t, u, <<>>))
    BY GetTyped DEF Range
  <1>2. NextList(t, u, ids, failed) = Push(l, ids)
    BY DEF NextList
  <1> HIDE DEF l
  <1>3. Range(Push(l, ids)) \subseteq Range(l) \union Range(ids)
    BY <1>1, PushFacts
  <1> QED
    BY <1>1, <1>2, <1>3

LEMMA ServePending ==
  ASSUME NEW x \in Request, NEW ut, NEW ht, NEW cr, NEW ow,
         \A p \in Range(x.ids) : cr[p] = x.user, OnAuthors(Range(x.ids), ut, cr, ow)
  PROVE  Pending(Serve(x), ut, ht, cr, ow)
  <1>1. CASE x.todo = <<>>
    BY <1>1, IdlePending DEF Serve
  <1>2. CASE x.todo # <<>>
    <2> DEFINE y == [x EXCEPT !.pc = "homeRead", !.list = <<>>, !.stale = FALSE]
    <2>1. y.pc = "homeRead" /\ y.ids = x.ids /\ y.user = x.user /\ Serve(x) = y
      BY <1>2 DEF Request, Serve
    <2> HIDE DEF y
    <2> QED
      BY <2>1 DEF Pending, Written, Authored
  <1> QED
    BY <1>1, <1>2

LEMMA KeptMore ==
  ASSUME NEW ow, NEW ow2, ow \subseteq ow2
  PROVE  \A name, t, u, p : KeptAt(name, t, ow, u, p) => KeptAt(name, t, ow2, u, p)
  BY DEF KeptAt

LEMMA ReadUserTimelineKeeps ==
  ASSUME TypeInv, TimelineInv, NEW r \in Requests, ReadUserTimeline(r)
  PROVE  TimelineInv'
  <1>1. /\ UNCHANGED <<userTimeline, homeTimeline, overwritten, delivered, creator>>
        /\ req[r].pc = "userRead" /\ ReadList(r, userTimeline, req[r].user, "userWrite")
    BY DEF ReadUserTimeline, At, history
  <1>2. Typed(req[r], DOMAIN creator)
        /\ Pending(req[r], userTimeline, homeTimeline, creator, overwritten)
    BY DEF TypeInv, ReqInv, TimelineInv, PendingInv
  <1> DEFINE next(failed) == NextList(userTimeline, req[r].user, req[r].ids, failed)
  <1>3. PICK failed \in BOOLEAN :
          Become(r, [req[r] EXCEPT !.pc = "userWrite", !.stale = failed /\ Found(userTimeline, req[r].user),
                                   !.list = next(failed)])
    BY <1>1 DEF ReadList, NextList
  <1> DEFINE l == next(failed)
             x == [req[r] EXCEPT !.pc = "userWrite", !.stale = failed /\ Found(userTimeline, req[r].user),
                                 !.list = l]
  <1>a. (failed /\ Found(userTimeline, req[r].user)) \/ l = next(FALSE)
    BY DEF NextList, Get
  <1>b. Become(r, x)
    BY <1>3
  <1>c. l = next(failed)
    OBVIOUS
  <1> HIDE DEF l
  <1>d. /\ x.pc = "userWrite" /\ x.ids = req[r].ids /\ x.user = req[r].user
        /\ x.todo = req[r].todo /\ x.list = l /\ (x.stale \/ l = next(FALSE))
    BY <1>2, <1>a DEF Typed, Request
  <1> HIDE DEF x
  <1>4. Pending(x, userTimeline, homeTimeline, creator, overwritten)
    BY <1>1, <1>2, <1>d DEF Pending, Written, Authored, Composing
  <1>5. PendingInv'
    BY <1>1, <1>b, <1>4, BecomePending DEF TypeInv, TimelineInv
  <1> QED
    BY <1>1, <1>5, TimelinesUnchanged

LEMMA WriteUserTimelineKeeps ==
  ASSUME TypeInv, TimelineInv, NEW r \in Requests, WriteUserTimeline(r)
  PROVE  TimelineInv'
  <1> DEFINE K == DOMAIN creator
             w == req[r]
             x == [w EXCEPT !.pc = "followers", !.list = <<>>, !.stale = FALSE]
             S == {q \in Requests : At(q, "userWrite") /\ req[q].user = w.user}
  <1>1. /\ UNCHANGED <<homeTimeline, delivered, creator>> /\ w.pc = "userWrite"
        /\ userTimeline' = SetState(userTimeline, w.user, w.list)
        /\ overwritten' = Overwritten(r, <<"user", w.user>>)
        /\ Overtake(r, x, S)
    BY DEF WriteUserTimeline, At
  <1>2. /\ Typed(w, K) /\ Pending(w, userTimeline, homeTimeline, creator, overwritten)
        /\ TypedTimeline(userTimeline, K)
    BY DEF TypeInv, ListsInv, ReqInv, TimelineInv, PendingInv
  <1>3. w.ids \in Seq(K) /\ w.list \in Seq(K)
    BY <1>1, <1>2 DEF Typed, Composing
  <1>4. Extended("user", userTimeline, w.user, w.ids, w.list, overwritten, overwritten')
    BY <1>1, <1>2 DEF Extended, Overwritten, Pending, Written
  <1>5. /\ \A u, p : KeptAt("user", userTimeline, overwritten, u, p)
                      => KeptAt("user", userTimeline', overwritten', u, p)
        /\ \A p \in Range(w.ids) : KeptAt("user", userTimeline', overwritten', w.user, p)
    BY <1>1, <1>2, <1>3, <1>4, WriteKeeps
  <1>6. x.pc = "followers" /\ x.ids = w.ids /\ x.user = w.user
    BY <1>2 DEF Typed, Request
  <1>7. \A p \in Range(w.ids) : creator[p] = w.user
    BY <1>1, <1>2 DEF Pending, Authored, Composing
  <1>8. \A q \in Requests \ {r} : q \in S \/ SameLists(req[q])
    BY <1>1 DEF SameLists, SetState, Get, Found, At
  <1> HIDE DEF x, S
  <1>9. Pending(x, userTimeline', homeTimeline', creator', overwritten')
    BY <1>1, <1>5, <1>6, <1>7 DEF Pending, Written, Authored, OnAuthors
  <1>10. PendingInv'
    BY <1>1, <1>5, <1>8, <1>9, OvertakePending DEF TypeInv, TimelineInv
  <1>11. AuthorInv'
    BY <1>1, <1>5 DEF TimelineInv, AuthorInv, OnAuthors
  <1>12. DeliveredInv'
    <2>1. overwritten \subseteq overwritten'
      BY <1>1 DEF Overwritten
    <2> QED
      BY <1>1, <2>1, KeptMore DEF TimelineInv, DeliveredInv
  <1> QED
    BY <1>10, <1>11, <1>12 DEF TimelineInv

LEMMA GetFollowersKeeps ==
  ASSUME TypeInv, TimelineInv, NEW r \in Requests, GetFollowers(r)
  PROVE  TimelineInv'
  <1> DEFINE x == [req[r] EXCEPT !.todo = graph[req[r].user].followers]
  <1>1. /\ UNCHANGED <<userTimeline, homeTimeline, overwritten, delivered, creator>>
        /\ req[r].pc = "followers" /\ Become(r, Serve(x))
    BY DEF GetFollowers, At, history
  <1>2. Typed(req[r], DOMAIN creator)
        /\ Pending(req[r], userTimeline, homeTimeline, creator, overwritten)
    BY DEF TypeInv, ReqInv, TimelineInv, PendingInv
  <1>3. x \in Request /\ x.ids = req[r].ids /\ x.user = req[r].user
    BY <1>2 DEF GetFollowers, Found, TypeInv, ListsInv, Vertex, Typed, Request
  <1>4. /\ \A p \in Range(x.ids) : creator[p] = x.user
        /\ OnAuthors(Range(x.ids), userTimeline, creator, overwritten)
    BY <1>1, <1>2, <1>3 DEF Pending, Authored, Composing
  <1>5. Pending(Serve(x), userTimeline, homeTimeline, creator, overwritten)
    BY <1>3, <1>4, ServePending
  <1>6. PendingInv'
    BY <1>1, <1>5, BecomePending DEF TypeInv, TimelineInv
  <1> QED
    BY <1>1, <1>6, TimelinesUnchanged

LEMMA ReadHomeTimelineKeeps ==
  ASSUME TypeInv, TimelineInv, NEW r \in Requests, ReadHomeTimeline(r)
  PROVE  TimelineInv'
  <1> DEFINE K == DOMAIN creator
             f == Head(req[r].todo)
  <1>1. /\ UNCHANGED <<userTimeline, homeTimeline, overwritten, delivered, creator>>
        /\ req[r].pc = "homeRead" /\ ReadList(r, homeTimeline, f, "homeWrite")
    BY DEF ReadHomeTimeline, At, history
  <1>2. /\ Typed(req[r], K) /\ TypedTimeline(homeTimeline, K)
        /\ Pending(req[r], userTimeline, homeTimeline, creator, overwritten)
    BY DEF TypeInv, ListsInv, ReqInv, TimelineInv, PendingInv
  <1> DEFINE next(failed) == NextList(homeTimeline, f, req[r].ids, failed)
  <1>3. PICK failed \in BOOLEAN :
          Become(r, [req[r] EXCEPT !.pc = "homeWrite", !.stale = failed /\ Found(homeTimeline, f),
                                   !.list = next(failed)])
    BY <1>1 DEF ReadList, NextList
  <1> DEFINE l == next(failed)
             x == [req[r] EXCEPT !.pc = "homeWrite", !.stale = failed /\ Found(homeTimeline, f),
                                 !.list = l]
  <1>a. (failed /\ Found(homeTimeline, f)) \/ l = next(FALSE)
    BY DEF NextList, Get
  <1>b. Become(r, x)
    BY <1>3
  <1>c. l = next(failed)
    OBVIOUS
  <1> HIDE DEF l
  <1>d. /\ x.pc = "homeWrite" /\ x.ids = req[r].ids /\ x.user = req[r].user
        /\ x.todo = req[r].todo /\ x.list = l /\ (x.stale \/ l = next(FALSE))
    BY <1>2, <1>a DEF Typed, Request
  <1> HIDE DEF x
  <1>4. x.ids \in Seq(K)
    BY <1>1, <1>2, <1>d DEF Typed, Composing
  <1>5. /\ \A p \in Range(x.ids) : creator[p] = x.user
        /\ OnAuthors(Range(x.ids), userTimeline, creator, overwritten)
    BY <1>1, <1>2, <1>d DEF Pending, Authored, Composing
  <1>6. OnAuthors(Range(x.list), userTimeline, creator, overwritten)
    <2>1. Range(x.list) \subseteq Range(Get(homeTimeline, f, <<>>)) \union Range(x.ids)
      BY <1>2, <1>3, <1>c, <1>d, <1>4, NextListRange
    <2>2. OnAuthors(Range(Get(homeTimeline, f, <<>>)), userTimeline, creator, overwritten)
      BY DEF Get, Found, TimelineInv, AuthorInv, OnAuthors, Range
    <2> QED
      BY <1>5, <2>1, <2>2 DEF OnAuthors
  <1>7. Pending(x, userTimeline, homeTimeline, creator, overwritten)
    BY <1>d, <1>5, <1>6 DEF Pending, Written, Authored
  <1>8. PendingInv'
    BY <1>1, <1>b, <1>7, BecomePending DEF TypeInv, TimelineInv
  <1> QED
    BY <1>1, <1>8, TimelinesUnchanged

LEMMA WriteHomeTimelineKeeps ==
  ASSUME TypeInv, TimelineInv, NEW r \in Requests, WriteHomeTimeline(r)
  PROVE  TimelineInv'
  <1> DEFINE K == DOMAIN creator
             w == req[r]
             f == Head(w.todo)
             x == [w EXCEPT !.todo = Tail(@)]
             S == {q \in Requests : At(q, "homeWrite") /\ Head(req[q].todo) = f}
  <1>1. /\ UNCHANGED <<userTimeline, creator>> /\ w.pc = "homeWrite"
        /\ homeTimeline' = SetState(homeTimeline, f, w.list)
        /\ overwritten' = Overwritten(r, <<"home", f>>)
        /\ delivered' = delivered \union (Range(w.ids) \X {f})
        /\ Overtake(r, Serve(x), S)
    BY DEF WriteHomeTimeline, At
  <1>2. /\ Typed(w, K) /\ Pending(w, userTimeline, homeTimeline, creator, overwritten)
        /\ TypedTimeline(homeTimeline, K)
    BY DEF TypeInv, ListsInv, ReqInv, TimelineInv, PendingInv
  <1>3. w.ids \in Seq(K) /\ w.list \in Seq(K)
    BY <1>1, <1>2 DEF Typed, Composing
  <1>4. Extended("home", homeTimeline, f, w.ids, w.list, overwritten, overwritten')
    BY <1>1, <1>2 DEF Extended, Overwritten, Pending, Written
  <1>5. /\ \A u, p : KeptAt("home", homeTimeline, overwritten, u, p)
                      => KeptAt("home", homeTimeline', overwritten', u, p)
        /\ \A p \in Range(w.ids) : KeptAt("home", homeTimeline', overwritten', f, p)
    BY <1>1, <1>2, <1>3, <1>4, WriteKeeps
  <1>6. \A u, p : KeptAt("user", userTimeline, overwritten, u, p)
                   => KeptAt("user", userTimeline', overwritten', u, p)
    <2>1. overwritten \subseteq overwritten'
      BY <1>1 DEF Overwritten
    <2> QED
      BY <1>1, <2>1, KeptMore
  <1>7. x \in Request /\ x.ids = w.ids /\ x.user = w.user
    <2>1. w.todo \in Seq(Users) /\ w.todo # <<>>
      BY <1>1, <1>2 DEF Typed, Request
    <2>2. Tail(w.todo) \in Seq(Users)
      BY <2>1
    <2> QED
      BY <1>2, <2>2 DEF Typed, Request
  <1>8. \A q \in Requests \ {r} : q \in S \/ SameLists(req[q])
    BY <1>1 DEF SameLists, SetState, Get, Found, At
  <1>9. /\ \A p \in Range(w.ids) : creator[p] = w.user
        /\ OnAuthors(Range(w.ids), userTimeline, creator, overwritten)
        /\ OnAuthors(Range(w.list), userTimeline, creator, overwritten)
    BY <1>1, <1>2 DEF Pending, Authored, Composing
  <1> HIDE DEF x, S
  <1>10. Pending(Serve(x), userTimeline', homeTimeline', creator', overwritten')
    <2>1. OnAuthors(Range(x.ids), userTimeline', creator', overwritten')
      BY <1>1, <1>6, <1>7, <1>9 DEF OnAuthors
    <2> QED
      BY <1>1, <1>7, <1>9, <2>1, ServePending
  <1>11. PendingInv'
    BY <1>1, <1>6, <1>8, <1>10, OvertakePending DEF TypeInv, TimelineInv
  <1>12. AuthorInv'
    <2>1. ASSUME NEW u \in DOMAIN homeTimeline'
          PROVE  OnAuthors(Range(homeTimeline'[u]), userTimeline, creator, overwritten)
      BY <1>1, <1>9 DEF SetState, TimelineInv, AuthorInv
    <2> QED
      BY <1>1, <1>6, <2>1 DEF AuthorInv, OnAuthors
  <1>13. DeliveredInv'
    BY <1>1, <1>5 DEF TimelineInv, DeliveredInv
  <1> QED
    BY <1>11, <1>12, <1>13 DEF TimelineInv

\* Steps after which the request composes nothing.
LEMMA OtherStepKeeps ==
  ASSUME TypeInv, TimelineInv, NEW r \in Requests, NEW x, NEW S, x.pc \notin Composing,
         Become(r, x) \/ Overtake(r, x, S),
         UNCHANGED <<userTimeline, homeTimeline, creator, overwritten, delivered>>
  PROVE  TimelineInv'
  <1>1. Pending(x, userTimeline', homeTimeline', creator', overwritten')
    BY NotWriting
  <1>2. \A q \in Requests : SameLists(req[q])
    BY DEF SameLists
  <1>3. PendingInv'
    BY <1>1, <1>2, BecomePending, OvertakePending DEF TypeInv, TimelineInv
  <1> QED
    BY <1>3, TimelinesUnchanged

LEMMA EditKeeps ==
  ASSUME TypeInv, TimelineInv, NEW r \in Requests, Edit(r)
  PROVE  TimelineInv'
  <1> DEFINE quiet == UNCHANGED <<userTimeline, homeTimeline, creator, overwritten, delivered>>
  <1>a. Typed(req[r], DOMAIN creator) /\ Typed(Idle, DOMAIN creator)
    BY IdleTyped DEF TypeInv, ReqInv
  <1>1. ASSUME NEW v, NEW x \in Request, x.pc \notin Composing, ReadVertex(r, v, x), quiet
        PROVE  TimelineInv'
    <2>1. PICK b, n : Become(r, [x EXCEPT !.stale = b, !.vertex = n])
      BY <1>1 DEF ReadVertex
    <2>2. [x EXCEPT !.stale = b, !.vertex = n].pc = x.pc
      BY <1>1 DEF Request
    <2> QED
      BY <1>1, <2>1, <2>2, OtherStepKeeps
  <1>2. ASSUME NEW e \in Follows, Follow(r, e[1], e[2]) PROVE TimelineInv'
    <2> DEFINE x == [Idle EXCEPT !.pc = "followerWrite", !.user = e[1], !.other = e[2]]
    <2>1. e[1] \in Users /\ e[2] \in Users
      BY SocialAssumption
    <2>2. x \in Request /\ x.pc = "followerWrite"
      BY <1>a, <2>1 DEF Typed, Request, Step
    <2>3. ReadVertex(r, e[1], x) /\ quiet
      BY <1>2 DEF Follow, history
    <2> HIDE DEF x
    <2>4. x.pc \notin Composing
      BY <2>2 DEF Composing
    <2> QED
      BY <1>1, <2>2, <2>3, <2>4
  <1>3. CASE WriteFollower(r)
    <2> DEFINE x == [req[r] EXCEPT !.pc = "followeeRead", !.vertex = NoVertex, !.stale = FALSE]
    <2>1. x.pc \notin Composing
      BY <1>a DEF Typed, Request, Composing
    <2>2. Overtake(r, x, Editing(req[r].user)) /\ quiet
      BY <1>3 DEF WriteFollower, WriteVertex
    <2> QED
      BY <2>1, <2>2, OtherStepKeeps
  <1>4. CASE ReadFollowee(r)
    <2> DEFINE x == [req[r] EXCEPT !.pc = "followeeWrite"]
    <2>1. x \in Request /\ x.pc = "followeeWrite"
      BY <1>a DEF Typed, Request, Step
    <2>2. ReadVertex(r, req[r].other, x) /\ quiet
      BY <1>4 DEF ReadFollowee, history
    <2> HIDE DEF x
    <2>3. x.pc \notin Composing
      BY <2>1 DEF Composing
    <2> QED
      BY <1>1, <2>1, <2>2, <2>3
  <1>5. CASE WriteFollowee(r)
    <2>1. Idle.pc \notin Composing
      BY DEF Idle, Composing
    <2>2. Overtake(r, Idle, Editing(req[r].other)) /\ quiet
      BY <1>5 DEF WriteFollowee, WriteVertex
    <2> QED
      BY <2>1, <2>2, OtherStepKeeps
  <1> QED
    BY <1>2, <1>3, <1>4, <1>5 DEF Edit

LEMMA ReadOrFailKeeps ==
  ASSUME TypeInv, TimelineInv, NEW r \in Requests, Read(r) \/ Fail(r)
  PROVE  TimelineInv'
  <1> DEFINE quiet == UNCHANGED <<userTimeline, homeTimeline, creator, overwritten, delivered>>
  <1>1. PICK x : Become(r, x) /\ quiet /\ x.pc \notin Composing
    <2>1. Idle.pc \notin Composing
      BY DEF Idle, Composing
    <2>2. CASE ReadPosts(r)
      BY <2>1, <2>2 DEF ReadPosts, history
    <2>3. CASE Fail(r)
      BY <2>1, <2>3 DEF Fail
    <2>4. ASSUME NEW u \in Users, ReadTimeline(r, u)
          PROVE  \E x : Become(r, x) /\ quiet /\ x.pc \notin Composing
      <3>1. PICK l : Become(r, [Idle EXCEPT !.pc = "posts", !.user = u, !.ids = l]) /\ quiet
        BY <2>4 DEF ReadTimeline, history
      <3>2. [Idle EXCEPT !.pc = "posts", !.user = u, !.ids = l].pc \notin Composing
        BY IdleTyped DEF Typed, Request, Composing
      <3> QED
        BY <3>1, <3>2
    <2> QED
      BY <2>2, <2>3, <2>4 DEF Read
  <1> QED
    BY <1>1, OtherStepKeeps

LEMMA InsertUserKeeps ==
  ASSUME TypeInv, TimelineInv, NEW u \in Users, InsertUser(u)
  PROVE  TimelineInv'
  <1>1. UNCHANGED <<userTimeline, homeTimeline, creator, overwritten, delivered>>
    BY DEF InsertUser
  <1>2. ASSUME NEW q \in Requests
        PROVE  Pending(req'[q], userTimeline, homeTimeline, creator, overwritten)
    <2>1. Typed(req[q], DOMAIN creator)
          /\ Pending(req[q], userTimeline, homeTimeline, creator, overwritten)
      BY DEF TypeInv, ReqInv, TimelineInv, PendingInv
    <2>2. req'[q] = [req[q] EXCEPT !.stale = TRUE] \/ req'[q] = req[q]
      BY DEF InsertUser
    <2> QED
      BY <2>1, <2>2, OtherPending
  <1> QED
    BY <1>1, <1>2, TimelinesUnchanged DEF PendingInv

LEMMA TimelineStep == TypeInv /\ TimelineInv /\ [Next]_vars => TimelineInv'
  <1> SUFFICES ASSUME TypeInv, TimelineInv, [Next]_vars PROVE TimelineInv'
    OBVIOUS
  <1>1. CASE UNCHANGED vars
    BY <1>1 DEF vars, history, TimelineInv, DeliveredInv, AuthorInv, PendingInv
  <1>2. ASSUME NEW u \in Users, InsertUser(u) PROVE TimelineInv'
    BY <1>2, InsertUserKeeps
  <1>3. ASSUME NEW r \in Requests, Compose(r) PROVE TimelineInv'
    <2>1. ASSUME NEW u \in Authors, ComposePost(r, u) PROVE TimelineInv'
      <3>1. PICK p \in Posts : \E done \in SUBSET {p} : StorePosts(r, u, <<p>>, done)
        BY <2>1 DEF ComposePost
      <3>2. <<p>> \in Seq(Posts) /\ Range(<<p>>) = {p} /\ u \in Users
        BY SocialAssumption DEF Range
      <3> QED
        BY <3>1, <3>2, StorePostsTimeline
    <2>2. ASSUME NEW u \in Authors, ComposePostMulti(r, u) PROVE TimelineInv'
      <3>1. PICK n \in Batches : \E ids \in [1..n -> Posts] :
              \E done \in SUBSET Range(ids) : StorePosts(r, u, ids, done)
        BY <2>2 DEF ComposePostMulti
      <3>2. PICK ids \in [1..n -> Posts] :
              \E done \in SUBSET Range(ids) : StorePosts(r, u, ids, done)
        BY <3>1
      <3>3. ids \in Seq(Posts) /\ u \in Users
        BY SocialAssumption
      <3> QED
        BY <3>2, <3>3, StorePostsTimeline
    <2> QED
      BY <1>3, <2>1, <2>2, ReadUserTimelineKeeps, WriteUserTimelineKeeps, GetFollowersKeeps,
         ReadHomeTimelineKeeps, WriteHomeTimelineKeeps DEF Compose
  <1>4. ASSUME NEW r \in Requests, Edit(r) \/ Read(r) \/ Fail(r) PROVE TimelineInv'
    BY <1>4, EditKeeps, ReadOrFailKeeps
  <1> QED
    BY <1>1, <1>2, <1>3, <1>4 DEF Next

LEMMA TimelineAlways == Spec => []TimelineInv
  BY TypeInit, TypeStep, TimelineInit, TimelineStep, PTL DEF Spec

\* A follower that has been served a post has it, whatever its author and others post, empty
\* batches included, until all but one of the entries of the home timeline are taken or a
\* write has not extended what was stored.
THEOREM ServedIsKept == Spec => []DeliveredIsKept
  BY TimelineAlways, TimelineInvSuffices, PTL

\* Nobody is shown a post that its author's own timeline has not taken, or has forgotten while
\* more than one of its entries was free, unless a write there did not extend what was stored.
THEOREM AuthorShownFirst == Spec => []AuthorFirst
  BY TimelineAlways, TimelineInvSuffices, PTL
-----------------------------------------------------------------------------
(* FollowSymmetric.  Its inductive invariant says, of a request that is    *)
(* about to write a vertex, that it adds one edge to the vertex stored now *)
(* unless it was overtaken; Following is finite because a step changes one *)
(* request, so Requests need not be.                                       *)

EditReady(x, g) ==
  /\ x.pc = "followerWrite" /\ ~x.stale =>
       x.vertex = [Get(g, x.user, NoVertex) EXCEPT !.followees = Append(@, x.other)]
  /\ x.pc = "followeeWrite" /\ ~x.stale =>
       x.vertex = [Get(g, x.other, NoVertex) EXCEPT !.followers = Append(@, x.user)]

EditInv == \A r \in Requests : EditReady(req[r], graph)

OutEdges(g, u, v) == Occurrences(Get(g, u, NoVertex).followees, v)
InEdges(g, u, v) == Occurrences(Get(g, v, NoVertex).followers, u)

SymmetricInv ==
  \A u, v \in Users : /\ IsFiniteSet(Following(u, v))
                      /\ {u, v} \cap torn = {} =>
                           OutEdges(graph, u, v)
                             = InEdges(graph, u, v) + Cardinality(Following(u, v))

GraphInv == EditInv /\ SymmetricInv

LEMMA GraphInvSuffices == GraphInv => FollowSymmetric
  BY DEF GraphInv, SymmetricInv, FollowSymmetric, OutEdges, InEdges

LEMMA OccurrencesType ==
  ASSUME NEW S, NEW s \in Seq(S), NEW x
  PROVE  IsFiniteSet({i \in DOMAIN s : s[i] = x}) /\ Occurrences(s, x) \in Nat
  <1>1. DOMAIN s = 1..Len(s) /\ IsFiniteSet(1..Len(s))
    BY FS_Interval
  <1>2. IsFiniteSet({i \in DOMAIN s : s[i] = x})
    BY <1>1, FS_Subset
  <1> QED
    BY <1>2, FS_CardinalityType DEF Occurrences

LEMMA AppendOccurrences ==
  ASSUME NEW S, NEW s \in Seq(S), NEW y \in S, NEW x
  PROVE  Occurrences(Append(s, y), x) = Occurrences(s, x) + (IF y = x THEN 1 ELSE 0)
  <1> DEFINE T == {i \in DOMAIN s : s[i] = x}
             n == Len(s)
             a == Append(s, y)
  <1>1. n \in Nat /\ DOMAIN s = 1..n /\ DOMAIN a = 1..(n + 1) /\ a[n + 1] = y
        /\ \A i \in 1..n : a[i] = s[i]
    OBVIOUS
  <1>2. IsFiniteSet(T) /\ Cardinality(T) \in Nat /\ n + 1 \notin T
    <2>1. IsFiniteSet(T)
      BY OccurrencesType, Zenon
    <2>2. Cardinality(T) \in Nat
      BY <2>1, FS_CardinalityType
    <2>3. n + 1 \notin 1..n
      BY <1>1
    <2> QED
      BY <1>1, <2>1, <2>2, <2>3
  <1>5. Occurrences(s, x) = Cardinality(T)
    BY DEF Occurrences
  <1> HIDE DEF a, n
  <1>6. Append(s, y) = a
    BY DEF a
  <1>3. ASSUME y = x PROVE Occurrences(a, x) = Occurrences(s, x) + 1
    <2>1. {i \in DOMAIN a : a[i] = x} = T \union {n + 1}
      BY <1>1, <1>3
    <2>2. Cardinality(T \union {n + 1}) = Cardinality(T) + 1
      BY <1>2, FS_AddElement
    <2>3. Occurrences(a, x) = Cardinality(T) + 1
      BY <2>1, <2>2 DEF Occurrences
    <2> HIDE DEF T
    <2> QED
      BY <1>5, <2>3, Zenon
  <1>4. ASSUME y # x PROVE Occurrences(a, x) = Occurrences(s, x) + 0
    <2>1. {i \in DOMAIN a : a[i] = x} = T
      BY <1>1, <1>4
    <2>2. Occurrences(a, x) = Cardinality(T)
      BY <2>1 DEF Occurrences
    <2> HIDE DEF T
    <2> QED
      BY <1>2, <1>5, <2>2
  <1> HIDE DEF T
  <1> QED
    BY <1>3, <1>4, <1>6, Zenon

LEMMA CountsAreNat ==
  ASSUME NEW g, \A u \in DOMAIN g : g[u] \in Vertex, NEW u, NEW v
  PROVE  OutEdges(g, u, v) \in Nat /\ InEdges(g, u, v) \in Nat
  <1>1. Get(g, u, NoVertex) \in Vertex /\ Get(g, v, NoVertex) \in Vertex
    BY NoVertexTyped DEF Get, Found
  <1>2. Get(g, u, NoVertex).followees \in Seq(Users) /\ Get(g, v, NoVertex).followers \in Seq(Users)
    BY <1>1 DEF Vertex
  <1> QED
    BY <1>2, OccurrencesType DEF OutEdges, InEdges

\* Who is between the two writes of a follow, after one request has become x.
LEMMA FollowingNext ==
  ASSUME ReqInv, NEW r \in Requests, NEW x, NEW S, Become(r, x) \/ Overtake(r, x, S),
         NEW u, NEW v
  PROVE  Following(u, v)' =
           IF x.pc \in {"followeeRead", "followeeWrite"} /\ x.user = u /\ x.other = v
           THEN Following(u, v) \union {r} ELSE Following(u, v) \ {r}
  <1>1. req'[r] = x
    BY DEF Become, Overtake, ReqInv
  <1>2. ASSUME NEW q \in Requests \ {r}
        PROVE  req'[q].pc = req[q].pc /\ req'[q].user = req[q].user /\ req'[q].other = req[q].other
    <2>1. req[q] \in Request
      BY DEF ReqInv
    <2>2. req'[q] = [req[q] EXCEPT !.stale = TRUE] \/ req'[q] = req[q]
      BY DEF Become, Overtake, ReqInv
    <2> QED
      BY <2>1, <2>2 DEF Request
  <1> QED
    BY <1>1, <1>2 DEF Following

LEMMA GraphInit == Init => GraphInv
  <1> SUFFICES ASSUME Init PROVE GraphInv
    OBVIOUS
  <1>1. \A r \in Requests : req[r] = Idle /\ req[r].pc = "idle"
    BY DEF Init, Idle
  <1>2. EditInv
    BY <1>1 DEF EditInv, EditReady
  <1>3. ASSUME NEW u \in Users, NEW v \in Users
        PROVE  /\ IsFiniteSet(Following(u, v))
               /\ OutEdges(graph, u, v) = InEdges(graph, u, v) + Cardinality(Following(u, v))
    <2>1. Following(u, v) = {}
      BY <1>1 DEF Following
    <2>2. OutEdges(graph, u, v) = 0 /\ InEdges(graph, u, v) = 0
      <3>1. Get(graph, u, NoVertex) = NoVertex /\ Get(graph, v, NoVertex) = NoVertex
        BY DEF Init, Empty, Get, Found
      <3>2. Occurrences(<<>>, u) = 0 /\ Occurrences(<<>>, v) = 0
        <4>1. {i \in DOMAIN <<>> : <<>>[i] = u} = {} /\ {i \in DOMAIN <<>> : <<>>[i] = v} = {}
          OBVIOUS
        <4> QED
          BY <4>1, FS_EmptySet DEF Occurrences
      <3> QED
        BY <3>1, <3>2 DEF OutEdges, InEdges, NoVertex
    <2> QED
      BY <2>1, <2>2, FS_EmptySet
  <1> QED
    BY <1>2, <1>3 DEF GraphInv, SymmetricInv

\* A write to a vertex leaves the others, and a request that will write one of those ready.
LEMMA OthersReady ==
  ASSUME ReqInv, EditInv, NEW r \in Requests, NEW v, NEW l, NEW x, EditReady(x, graph'),
         graph' = SetState(graph, v, l), Overtake(r, x, Editing(v))
  PROVE  EditInv'
  <1> SUFFICES ASSUME NEW q \in Requests, q # r PROVE EditReady(req'[q], graph')
    BY DEF EditInv, Overtake
  <1>1. req[q] \in Request /\ EditReady(req[q], graph)
    BY DEF ReqInv, EditInv
  <1>2. CASE q \in Editing(v)
    <2>1. req'[q] = [req[q] EXCEPT !.stale = TRUE]
      BY <1>2 DEF Overtake
    <2>2. req'[q].stale
      BY <1>1, <2>1 DEF Request
    <2> QED
      BY <2>2 DEF EditReady
  <1>3. CASE q \notin Editing(v)
    <2>1. req'[q] = req[q]
      BY <1>3 DEF Overtake
    <2>2. \A u : u # v => Get(graph', u, NoVertex) = Get(graph, u, NoVertex)
      BY DEF SetState, Get, Found
    <2>3. /\ req[q].pc = "followerWrite" => req[q].user # v
          /\ req[q].pc = "followeeWrite" => req[q].other # v
      BY <1>3 DEF Editing, At
    <2> QED
      BY <1>1, <2>1, <2>2, <2>3 DEF EditReady
  <1> QED
    BY <1>2, <1>3

\* Steps that write no vertex, and neither begin nor end the time between the two writes of a
\* follow.
LEMMA GraphUnchanged ==
  ASSUME TypeInv, GraphInv, NEW r \in Requests, NEW x, NEW S, Become(r, x) \/ Overtake(r, x, S),
         EditReady(x, graph), UNCHANGED <<graph, torn>>,
         \/ /\ x.user = req[r].user /\ x.other = req[r].other
            /\ x.pc \in {"followeeRead", "followeeWrite"}
            /\ req[r].pc \in {"followeeRead", "followeeWrite"}
         \/ /\ x.pc \notin {"followeeRead", "followeeWrite"}
            /\ req[r].pc \notin {"followeeRead", "followeeWrite"}
  PROVE  GraphInv'
  <1>1. ReqInv
    BY DEF TypeInv
  <1>2. EditInv'
    <2> SUFFICES ASSUME NEW q \in Requests PROVE EditReady(req'[q], graph)
      BY DEF EditInv
    <2>1. req[q] \in Request /\ EditReady(req[q], graph)
      BY <1>1 DEF ReqInv, GraphInv, EditInv
    <2>2. \/ req'[q] = x \/ req'[q] = req[q]
          \/ req'[q] = [req[q] EXCEPT !.stale = TRUE]
      BY <1>1 DEF Become, Overtake, ReqInv
    <2>3. req'[q] = [req[q] EXCEPT !.stale = TRUE] => req'[q].stale
      BY <2>1 DEF Request
    <2> QED
      BY <2>1, <2>2, <2>3 DEF EditReady
  <1>3. \A u, v : Following(u, v)' = Following(u, v)
    <2>1. ASSUME NEW u, NEW v PROVE Following(u, v)' = Following(u, v)
      <3>1. r \in Following(u, v) <=> /\ x.pc \in {"followeeRead", "followeeWrite"}
                                       /\ x.user = u /\ x.other = v
        BY DEF Following
      <3> QED
        BY <1>1, <3>1, FollowingNext
    <2> QED
      BY <2>1
  <1>4. SymmetricInv'
    BY <1>3 DEF GraphInv, SymmetricInv
  <1> QED
    BY <1>2, <1>4 DEF GraphInv

\* What WriteVertex does to the number of edges at each end: the lists of others stay.
LEMMA EdgesOfOthers ==
  ASSUME NEW g, NEW v, NEW l
  PROVE  /\ \A u, w : u # v => OutEdges(SetState(g, v, l), u, w) = OutEdges(g, u, w)
         /\ \A u, w : w # v => InEdges(SetState(g, v, l), u, w) = InEdges(g, u, w)
  <1>1. \A u : u # v => Get(SetState(g, v, l), u, NoVertex) = Get(g, u, NoVertex)
    BY DEF SetState, Get, Found
  <1> QED
    BY <1>1 DEF OutEdges, InEdges

LEMMA VertexWritten ==
  ASSUME NEW g, NEW v, NEW l
  PROVE  Get(SetState(g, v, l), v, NoVertex) = l
  BY DEF SetState, Get, Found

\* The first write of a follow adds an edge at the follower's end.
LEMMA FollowerAdded ==
  ASSUME NEW g, \A u \in DOMAIN g : g[u] \in Vertex, NEW a \in Users, NEW b \in Users,
         NEW l, l = [Get(g, a, NoVertex) EXCEPT !.followees = Append(@, b)], NEW u, NEW v
  PROVE  /\ OutEdges(SetState(g, a, l), u, v)
              = OutEdges(g, u, v) + (IF u = a /\ v = b THEN 1 ELSE 0)
         /\ InEdges(SetState(g, a, l), u, v) = InEdges(g, u, v)
  <1> DEFINE o == Get(g, a, NoVertex)
  <1>1. o \in Vertex
    BY NoVertexTyped DEF Get, Found
  <1>2. Get(SetState(g, a, l), a, NoVertex) = l
    BY VertexWritten
  <1>a. o = Get(g, a, NoVertex) /\ l = [o EXCEPT !.followees = Append(@, b)]
    OBVIOUS
  <1> HIDE DEF o
  <1>3. l.followers = o.followers /\ l.followees = Append(o.followees, b)
        /\ o.followees \in Seq(Users)
    BY <1>1, <1>a DEF Vertex
  <1>4. OutEdges(g, u, v) \in Nat
    BY CountsAreNat
  <1>7. InEdges(SetState(g, a, l), u, v) = InEdges(g, u, v)
    <2>1. CASE v = a
      BY <1>2, <1>3, <1>a, <2>1 DEF InEdges
    <2>2. CASE v # a
      BY <2>2, EdgesOfOthers
    <2> QED
      BY <2>1, <2>2
  <1>5. CASE u = a
    <2>1. Occurrences(Append(o.followees, b), v)
            = Occurrences(o.followees, v) + (IF b = v THEN 1 ELSE 0)
      BY <1>3, AppendOccurrences
    <2>2. /\ OutEdges(SetState(g, a, l), u, v) = Occurrences(Append(o.followees, b), v)
          /\ OutEdges(g, u, v) = Occurrences(o.followees, v)
      BY <1>2, <1>3, <1>5, <1>a DEF OutEdges
    <2> QED
      BY <1>5, <1>7, <2>1, <2>2
  <1>6. CASE u # a
    BY <1>4, <1>6, <1>7, EdgesOfOthers
  <1> QED
    BY <1>5, <1>6

\* The second adds it at the other end.
LEMMA FolloweeAdded ==
  ASSUME NEW g, \A u \in DOMAIN g : g[u] \in Vertex, NEW a \in Users, NEW b \in Users,
         NEW l, l = [Get(g, b, NoVertex) EXCEPT !.followers = Append(@, a)], NEW u, NEW v
  PROVE  /\ InEdges(SetState(g, b, l), u, v)
              = InEdges(g, u, v) + (IF u = a /\ v = b THEN 1 ELSE 0)
         /\ OutEdges(SetState(g, b, l), u, v) = OutEdges(g, u, v)
  <1> DEFINE o == Get(g, b, NoVertex)
  <1>1. o \in Vertex
    BY NoVertexTyped DEF Get, Found
  <1>2. Get(SetState(g, b, l), b, NoVertex) = l
    BY VertexWritten
  <1>a. o = Get(g, b, NoVertex) /\ l = [o EXCEPT !.followers = Append(@, a)]
    OBVIOUS
  <1> HIDE DEF o
  <1>3. l.followees = o.followees /\ l.followers = Append(o.followers, a)
        /\ o.followers \in Seq(Users)
    BY <1>1, <1>a DEF Vertex
  <1>4. InEdges(g, u, v) \in Nat
    BY CountsAreNat
  <1>7. OutEdges(SetState(g, b, l), u, v) = OutEdges(g, u, v)
    <2>1. CASE u = b
      BY <1>2, <1>3, <1>a, <2>1 DEF OutEdges
    <2>2. CASE u # b
      BY <2>2, EdgesOfOthers
    <2> QED
      BY <2>1, <2>2
  <1>5. CASE v = b
    <2>1. Occurrences(Append(o.followers, a), u)
            = Occurrences(o.followers, u) + (IF a = u THEN 1 ELSE 0)
      BY <1>3, AppendOccurrences
    <2>2. /\ InEdges(SetState(g, b, l), u, v) = Occurrences(Append(o.followers, a), u)
          /\ InEdges(g, u, v) = Occurrences(o.followers, u)
      BY <1>2, <1>3, <1>5, <1>a DEF InEdges
    <2> QED
      BY <1>5, <1>7, <2>1, <2>2
  <1>6. CASE v # b
    BY <1>4, <1>6, <1>7, EdgesOfOthers
  <1> QED
    BY <1>5, <1>6

\* A follow between its two writes is one more or one less for that pair alone.
LEMMA FollowingCount ==
  ASSUME ReqInv, NEW r \in Requests, NEW x, NEW S, Become(r, x) \/ Overtake(r, x, S),
         NEW u, NEW v, IsFiniteSet(Following(u, v))
  PROVE  /\ IsFiniteSet(Following(u, v)') /\ Cardinality(Following(u, v)) \in Nat
         /\ LET on == /\ x.pc \in {"followeeRead", "followeeWrite"}
                      /\ x.user = u /\ x.other = v
            IN /\ r \in Following(u, v) /\ ~on
                    => Cardinality(Following(u, v)) = Cardinality(Following(u, v)') + 1
               /\ r \notin Following(u, v) /\ on
                    => Cardinality(Following(u, v)') = Cardinality(Following(u, v)) + 1
               /\ (r \in Following(u, v) <=> on) => Following(u, v)' = Following(u, v)
  <1> DEFINE F == Following(u, v)
             on == x.pc \in {"followeeRead", "followeeWrite"} /\ x.user = u /\ x.other = v
  <1>1. Following(u, v)' = IF on THEN F \union {r} ELSE F \ {r}
    BY FollowingNext
  <1>2. /\ IsFiniteSet(F \union {r}) /\ IsFiniteSet(F \ {r}) /\ Cardinality(F) \in Nat
        /\ r \notin F => Cardinality(F \union {r}) = Cardinality(F) + 1
        /\ r \in F => Cardinality(F \ {r}) = Cardinality(F) - 1
    BY FS_AddElement, FS_RemoveElement, FS_CardinalityType
  <1> HIDE DEF on
  <1>3. IsFiniteSet(Following(u, v)')
    BY <1>1, <1>2
  <1>4. r \in F /\ ~on => Cardinality(F) = Cardinality(Following(u, v)') + 1
    BY <1>1, <1>2
  <1>5. r \notin F /\ on => Cardinality(Following(u, v)') = Cardinality(F) + 1
    BY <1>1, <1>2
  <1>6. (r \in F <=> on) => Following(u, v)' = F
    BY <1>1
  <1> QED
    BY <1>2, <1>3, <1>4, <1>5, <1>6 DEF on

LEMMA WriteFollowerKeeps ==
  ASSUME TypeInv, GraphInv, NEW r \in Requests, WriteFollower(r)
  PROVE  GraphInv'
  <1> DEFINE w == req[r]
             x == [w EXCEPT !.pc = "followeeRead", !.vertex = NoVertex, !.stale = FALSE]
  <1>1. /\ w.pc = "followerWrite" /\ Overtake(r, x, Editing(w.user))
        /\ graph' = SetState(graph, w.user, w.vertex)
        /\ torn' = IF w.stale THEN torn \union {w.user} ELSE torn
    BY DEF WriteFollower, WriteVertex, At
  <1>2. /\ ReqInv /\ EditInv /\ w \in Request /\ w.user \in Users /\ w.other \in Users
        /\ \A u \in DOMAIN graph : graph[u] \in Vertex
    BY DEF TypeInv, ReqInv, ListsInv, GraphInv, Request
  <1>3. x.pc = "followeeRead" /\ x.user = w.user /\ x.other = w.other
    BY <1>2 DEF Request
  <1> HIDE DEF x
  <1>4. EditInv'
    <2>1. EditReady(x, graph')
      BY <1>3 DEF EditReady
    <2> QED
      BY <1>1, <1>2, <2>1, OthersReady
  <1>5. ASSUME NEW u \in Users, NEW v \in Users
        PROVE  /\ IsFiniteSet(Following(u, v)')
               /\ {u, v} \cap torn' = {} =>
                    OutEdges(graph', u, v)
                      = InEdges(graph', u, v) + Cardinality(Following(u, v)')
    <2> DEFINE F == Following(u, v)
    <2>1. IsFiniteSet(F) /\ r \notin F
      BY <1>1 DEF GraphInv, SymmetricInv, Following
    <2>2. /\ IsFiniteSet(F') /\ Cardinality(F) \in Nat
          /\ w.user = u /\ w.other = v => Cardinality(F') = Cardinality(F) + 1
          /\ ~(w.user = u /\ w.other = v) => F' = F
      BY <1>1, <1>2, <1>3, <2>1, FollowingCount
    <2>3. OutEdges(graph, u, v) \in Nat /\ InEdges(graph, u, v) \in Nat
      BY <1>2, CountsAreNat
    <2> SUFFICES ASSUME {u, v} \cap torn' = {}
                 PROVE  OutEdges(graph', u, v) = InEdges(graph', u, v) + Cardinality(F')
      BY <2>2
    <2>4. OutEdges(graph, u, v) = InEdges(graph, u, v) + Cardinality(F)
      BY <1>1 DEF GraphInv, SymmetricInv
    <2>5. CASE w.stale
      <3>1. u # w.user /\ v # w.user
        BY <1>1, <2>5
      <3>2. OutEdges(graph', u, v) = OutEdges(graph, u, v)
            /\ InEdges(graph', u, v) = InEdges(graph, u, v)
        BY <1>1, <3>1, EdgesOfOthers
      <3> QED
        BY <2>2, <2>4, <3>1, <3>2
    <2>6. CASE ~w.stale
      <3>1. w.vertex = [Get(graph, w.user, NoVertex) EXCEPT !.followees = Append(@, w.other)]
        BY <1>1, <2>6 DEF GraphInv, EditInv, EditReady
      <3> DEFINE a == w.user
                 b == w.other
                 l == w.vertex
      <3>a. /\ a \in Users /\ b \in Users /\ graph' = SetState(graph, a, l)
            /\ l = [Get(graph, a, NoVertex) EXCEPT !.followees = Append(@, b)]
        BY <1>1, <1>2, <3>1
      <3> HIDE DEF a, b, l
      <3>b. /\ OutEdges(SetState(graph, a, l), u, v)
                 = OutEdges(graph, u, v) + (IF u = a /\ v = b THEN 1 ELSE 0)
            /\ InEdges(SetState(graph, a, l), u, v) = InEdges(graph, u, v)
        BY ONLY <1>2, <3>a, FollowerAdded
      <3>2. /\ OutEdges(graph', u, v)
                 = OutEdges(graph, u, v) + (IF u = w.user /\ v = w.other THEN 1 ELSE 0)
            /\ InEdges(graph', u, v) = InEdges(graph, u, v)
        BY <3>a, <3>b DEF a, b
      <3> QED
        BY <2>2, <2>3, <2>4, <3>2
    <2> QED
      BY <2>5, <2>6
  <1> QED
    BY <1>4, <1>5 DEF GraphInv, SymmetricInv

LEMMA WriteFolloweeKeeps ==
  ASSUME TypeInv, GraphInv, NEW r \in Requests, WriteFollowee(r)
  PROVE  GraphInv'
  <1> DEFINE w == req[r]
  <1>1. /\ w.pc = "followeeWrite" /\ Overtake(r, Idle, Editing(w.other))
        /\ graph' = SetState(graph, w.other, w.vertex)
        /\ torn' = IF w.stale THEN torn \union {w.other} ELSE torn
    BY DEF WriteFollowee, WriteVertex, At
  <1>2. /\ ReqInv /\ EditInv /\ w \in Request /\ w.user \in Users /\ w.other \in Users
        /\ \A u \in DOMAIN graph : graph[u] \in Vertex
    BY DEF TypeInv, ReqInv, ListsInv, GraphInv, Request
  <1>3. Idle.pc = "idle"
    BY DEF Idle
  <1>4. EditInv'
    <2>1. EditReady(Idle, graph')
      BY <1>3 DEF EditReady
    <2> QED
      BY <1>1, <1>2, <2>1, OthersReady
  <1>5. ASSUME NEW u \in Users, NEW v \in Users
        PROVE  /\ IsFiniteSet(Following(u, v)')
               /\ {u, v} \cap torn' = {} =>
                    OutEdges(graph', u, v)
                      = InEdges(graph', u, v) + Cardinality(Following(u, v)')
    <2> DEFINE F == Following(u, v)
    <2>1. IsFiniteSet(F) /\ (r \in F <=> u = w.user /\ v = w.other)
      BY <1>1 DEF GraphInv, SymmetricInv, Following
    <2>2. /\ IsFiniteSet(F') /\ Cardinality(F) \in Nat
          /\ r \in F => Cardinality(F) = Cardinality(F') + 1
          /\ r \notin F => F' = F
      BY <1>1, <1>2, <1>3, <2>1, FollowingCount
    <2>7. Cardinality(F') \in Nat
      BY <2>2, FS_CardinalityType
    <2>3. OutEdges(graph, u, v) \in Nat /\ InEdges(graph, u, v) \in Nat
      BY <1>2, CountsAreNat
    <2> SUFFICES ASSUME {u, v} \cap torn' = {}
                 PROVE  OutEdges(graph', u, v) = InEdges(graph', u, v) + Cardinality(F')
      BY <2>2
    <2>4. OutEdges(graph, u, v) = InEdges(graph, u, v) + Cardinality(F)
      BY <1>1 DEF GraphInv, SymmetricInv
    <2>5. CASE w.stale
      <3>1. u # w.other /\ v # w.other
        BY <1>1, <2>5
      <3>2. OutEdges(graph', u, v) = OutEdges(graph, u, v)
            /\ InEdges(graph', u, v) = InEdges(graph, u, v)
        BY <1>1, <3>1, EdgesOfOthers
      <3> QED
        BY <2>1, <2>2, <2>4, <3>1, <3>2
    <2>6. CASE ~w.stale
      <3>1. w.vertex = [Get(graph, w.other, NoVertex) EXCEPT !.followers = Append(@, w.user)]
        BY <1>1, <2>6 DEF GraphInv, EditInv, EditReady
      <3> DEFINE a == w.user
                 b == w.other
                 l == w.vertex
      <3>a. /\ a \in Users /\ b \in Users /\ graph' = SetState(graph, b, l)
            /\ l = [Get(graph, b, NoVertex) EXCEPT !.followers = Append(@, a)]
        BY <1>1, <1>2, <3>1
      <3> HIDE DEF a, b, l
      <3>b. /\ InEdges(SetState(graph, b, l), u, v)
                 = InEdges(graph, u, v) + (IF u = a /\ v = b THEN 1 ELSE 0)
            /\ OutEdges(SetState(graph, b, l), u, v) = OutEdges(graph, u, v)
        BY ONLY <1>2, <3>a, FolloweeAdded
      <3>2. /\ InEdges(graph', u, v)
                 = InEdges(graph, u, v) + (IF u = w.user /\ v = w.other THEN 1 ELSE 0)
            /\ OutEdges(graph', u, v) = OutEdges(graph, u, v)
        BY <3>a, <3>b DEF a, b
      <3> HIDE DEF F, w
      <3> QED
        BY <2>1, <2>2, <2>3, <2>4, <2>7, <3>2
    <2> QED
      BY <2>5, <2>6
  <1> QED
    BY <1>4, <1>5 DEF GraphInv, SymmetricInv

\* The steps of a request that reads no vertex for itself and is not between the two writes of
\* a follow.
LEMMA NoEdgesStep ==
  ASSUME TypeInv, GraphInv, NEW r \in Requests, NEW x, NEW S, Become(r, x) \/ Overtake(r, x, S),
         UNCHANGED <<graph, torn>>,
         x.pc \notin {"followerWrite", "followeeRead", "followeeWrite"},
         req[r].pc \notin {"followeeRead", "followeeWrite"}
  PROVE  GraphInv'
  <1>1. EditReady(x, graph)
    BY DEF EditReady
  <1> QED
    BY <1>1, GraphUnchanged

LEMMA ComposeKeepsGraph ==
  ASSUME TypeInv, GraphInv, NEW r \in Requests, Compose(r)
  PROVE  GraphInv'
  <1>1. ASSUME NEW u, NEW ids, NEW done, StorePosts(r, u, ids, done) PROVE GraphInv'
    <2> DEFINE x == [Idle EXCEPT !.pc = "userRead", !.user = u, !.ids = ids]
    <2>1. Become(r, x) /\ At(r, "idle") /\ UNCHANGED <<graph, torn>>
      BY <1>1 DEF StorePosts
    <2>2. x.pc = "userRead" /\ req[r].pc = "idle"
      BY <2>1 DEF Idle, At
    <2> HIDE DEF x
    <2> QED
      BY <2>1, <2>2, NoEdgesStep
  <1>2. ASSUME NEW timeline, NEW u, NEW next \in {"userWrite", "homeWrite"},
               ReadList(r, timeline, u, next), UNCHANGED <<graph, torn>>,
               At(r, "userRead") \/ At(r, "homeRead")
        PROVE  GraphInv'
    <2>1. PICK failed \in BOOLEAN :
            Become(r, [req[r] EXCEPT
                 !.pc = next, !.stale = failed /\ Found(timeline, u),
                 !.list = Push(IF failed THEN <<>> ELSE Get(timeline, u, <<>>), req[r].ids)])
      BY <1>2 DEF ReadList
    <2> DEFINE x == [req[r] EXCEPT
                 !.pc = next, !.stale = failed /\ Found(timeline, u),
                 !.list = Push(IF failed THEN <<>> ELSE Get(timeline, u, <<>>), req[r].ids)]
    <2>2. req[r] \in Request
      BY DEF TypeInv, ReqInv
    <2>3. x.pc = next
      BY <2>2 DEF Request
    <2>4. Become(r, x)
      BY <2>1
    <2> HIDE DEF x
    <2> QED
      BY <1>2, <2>3, <2>4, NoEdgesStep DEF At
  <1>3. ASSUME NEW x, NEW S, Become(r, x) \/ Overtake(r, x, S), UNCHANGED <<graph, torn>>,
               x.pc \in {"idle", "followers", "homeRead"},
               At(r, "userWrite") \/ At(r, "followers") \/ At(r, "homeWrite")
        PROVE  GraphInv'
    BY <1>3, NoEdgesStep DEF At
  <1>4. ASSUME NEW y \in Request PROVE Serve(y).pc \in {"idle", "followers", "homeRead"}
    BY DEF Serve, Idle, Request
  <1>5. req[r] \in Request
    BY DEF TypeInv, ReqInv
  <1>6. CASE \E u \in Authors : ComposePost(r, u) \/ ComposePostMulti(r, u)
    <2>1. PICK u \in Authors : ComposePost(r, u) \/ ComposePostMulti(r, u)
      BY <1>6
    <2>2. \E ids, done : StorePosts(r, u, ids, done)
      BY <2>1 DEF ComposePost, ComposePostMulti
    <2> QED
      BY <1>1, <2>2
  <1>7. CASE ReadUserTimeline(r)
    BY <1>2, <1>7 DEF ReadUserTimeline, history
  <1>8. CASE ReadHomeTimeline(r)
    BY <1>2, <1>8 DEF ReadHomeTimeline, history
  <1>9. CASE WriteUserTimeline(r)
    <2> DEFINE x == [req[r] EXCEPT !.pc = "followers", !.list = <<>>, !.stale = FALSE]
               S == {q \in Requests : At(q, "userWrite") /\ req[q].user = req[r].user}
    <2>1. Overtake(r, x, S) /\ UNCHANGED <<graph, torn>> /\ At(r, "userWrite")
      BY <1>9 DEF WriteUserTimeline
    <2>2. x.pc = "followers"
      BY <1>5 DEF Request
    <2> HIDE DEF x, S
    <2> QED
      BY <1>3, <2>1, <2>2
  <1>10. CASE GetFollowers(r)
    <2> DEFINE y == [req[r] EXCEPT !.todo = graph[req[r].user].followers]
               x == Serve(y)
    <2>1. Become(r, x) /\ UNCHANGED <<graph, torn>> /\ At(r, "followers")
      BY <1>10 DEF GetFollowers, history
    <2>2. y.pc = "followers"
      BY <1>5, <2>1 DEF Request, At
    <2>3. x.pc \in {"idle", "followers", "homeRead"}
      <3>1. y = [req[r] EXCEPT !.todo = y.todo]
        BY <1>5 DEF Request
      <3> QED
        BY <1>5, <3>1 DEF Serve, Idle, Request
    <2> HIDE DEF x
    <2> QED
      BY <1>3, <2>1, <2>3
  <1>11. CASE WriteHomeTimeline(r)
    <2> DEFINE y == [req[r] EXCEPT !.todo = Tail(@)]
               x == Serve(y)
               S == {q \in Requests : At(q, "homeWrite") /\ Head(req[q].todo) = Head(req[r].todo)}
    <2>1. Overtake(r, x, S) /\ UNCHANGED <<graph, torn>> /\ At(r, "homeWrite")
      BY <1>11 DEF WriteHomeTimeline
    <2>3. x.pc \in {"idle", "followers", "homeRead"}
      BY <1>5 DEF Serve, Idle, Request
    <2> HIDE DEF x, S
    <2> QED
      BY <1>3, <2>1, <2>3
  <1> HIDE DEF Compose
  <1> QED
    BY <1>6, <1>7, <1>8, <1>9, <1>10, <1>11 DEF Compose

LEMMA ReadKeepsGraph ==
  ASSUME TypeInv, GraphInv, NEW r \in Requests, Read(r)
  PROVE  GraphInv'
  <1>1. PICK x : /\ Become(r, x) /\ x.pc \in {"posts", "idle"}
                 /\ req[r].pc \in {"idle", "posts"} /\ UNCHANGED <<graph, torn>>
    <2>1. CASE \E u \in Users : ReadTimeline(r, u)
      <3>1. PICK u, t : Become(r, [Idle EXCEPT !.pc = "posts", !.user = u, !.ids = t])
                        /\ At(r, "idle") /\ UNCHANGED <<graph, torn>>
        BY <2>1 DEF ReadTimeline, history
      <3>2. [Idle EXCEPT !.pc = "posts", !.user = u, !.ids = t].pc = "posts"
        BY DEF Idle
      <3> QED
        BY <3>1, <3>2 DEF At
    <2>2. CASE ReadPosts(r)
      <3>1. Become(r, Idle) /\ At(r, "posts") /\ UNCHANGED <<graph, torn>>
        BY <2>2 DEF ReadPosts, history
      <3>2. Idle.pc = "idle"
        BY DEF Idle
      <3> QED
        BY <3>1, <3>2 DEF At
    <2> QED
      BY <2>1, <2>2 DEF Read
  <1> QED
    BY <1>1, NoEdgesStep

\* A vertex that was read is extended by what its write is to store, unless the read failed.
LEMMA ReadVertexReady ==
  ASSUME TypeInv, GraphInv, NEW r \in Requests, NEW v, NEW y \in Request,
         ReadVertex(r, v, y), UNCHANGED <<graph, torn>>,
         \/ /\ y.pc = "followerWrite" /\ v = y.user
            /\ req[r].pc = "idle"
         \/ /\ y.pc = "followeeWrite" /\ v = y.other
            /\ req[r].pc = "followeeRead" /\ y.user = req[r].user /\ y.other = req[r].other
  PROVE  GraphInv'
  <1>1. PICK failed \in BOOLEAN :
          LET s == IF failed THEN NoVertex ELSE Get(graph, v, NoVertex) IN
          Become(r, [y EXCEPT !.stale = failed /\ Found(graph, v),
                              !.vertex = IF y.pc = "followerWrite"
                                         THEN [s EXCEPT !.followees = Append(@, y.other)]
                                         ELSE [s EXCEPT !.followers = Append(@, y.user)]])
    BY DEF ReadVertex
  <1> DEFINE s == IF failed THEN NoVertex ELSE Get(graph, v, NoVertex)
             l == IF y.pc = "followerWrite"
                  THEN [s EXCEPT !.followees = Append(@, y.other)]
                  ELSE [s EXCEPT !.followers = Append(@, y.user)]
             st == failed /\ Found(graph, v)
             x == [y EXCEPT !.stale = st, !.vertex = l]
  <1>2. Become(r, x)
    BY <1>1
  <1>3. ~st => s = Get(graph, v, NoVertex)
    BY DEF Get
  <1> HIDE DEF s
  <1>4. /\ ~st /\ y.pc = "followerWrite"
             => l = [Get(graph, v, NoVertex) EXCEPT !.followees = Append(@, y.other)]
        /\ ~st /\ y.pc = "followeeWrite"
             => l = [Get(graph, v, NoVertex) EXCEPT !.followers = Append(@, y.user)]
    BY <1>3
  <1> HIDE DEF l, st
  <1>5. x.pc = y.pc /\ x.user = y.user /\ x.other = y.other /\ x.stale = st /\ x.vertex = l
    BY DEF Request
  <1> HIDE DEF x
  <1>6. EditReady(x, graph)
    BY <1>4, <1>5 DEF EditReady
  <1> QED
    BY <1>2, <1>5, <1>6, GraphUnchanged

LEMMA ReadForEditKeeps ==
  ASSUME TypeInv, GraphInv, NEW r \in Requests,
         (\E e \in Follows : Follow(r, e[1], e[2])) \/ ReadFollowee(r)
  PROVE  GraphInv'
  <1>1. CASE \E e \in Follows : Follow(r, e[1], e[2])
    <2>1. PICK e \in Follows : Follow(r, e[1], e[2])
      BY <1>1
    <2>2. e[1] \in Users /\ e[2] \in Users
      BY SocialAssumption
    <2> DEFINE y == [Idle EXCEPT !.pc = "followerWrite", !.user = e[1], !.other = e[2]]
    <2>3. /\ ReadVertex(r, e[1], y) /\ req[r].pc = "idle" /\ UNCHANGED <<graph, torn>>
      BY <2>1 DEF Follow, At, history
    <2>4. Idle \in Request
      BY IdleTyped DEF Typed
    <2>5. y \in Request /\ y.pc = "followerWrite" /\ y.user = e[1]
      BY <2>2, <2>4 DEF Request, Step
    <2> HIDE DEF y
    <2> QED
      BY <2>3, <2>5, ReadVertexReady
  <1>2. CASE ReadFollowee(r)
    <2> DEFINE y == [req[r] EXCEPT !.pc = "followeeWrite"]
    <2>1. /\ ReadVertex(r, req[r].other, y) /\ req[r].pc = "followeeRead"
          /\ UNCHANGED <<graph, torn>>
      BY <1>2 DEF ReadFollowee, At, history
    <2>2. req[r] \in Request
      BY DEF TypeInv, ReqInv
    <2>3. /\ y \in Request /\ y.pc = "followeeWrite" /\ y.other = req[r].other
          /\ y.user = req[r].user
      BY <2>2 DEF Request, Step
    <2> HIDE DEF y
    <2> QED
      BY <2>1, <2>3, ReadVertexReady
  <1> QED
    BY <1>1, <1>2

\* A follow given up after its first write leaves both its vertices torn.
LEMMA FailKeepsGraph ==
  ASSUME TypeInv, GraphInv, NEW r \in Requests, Fail(r)
  PROVE  GraphInv'
  <1>1. Become(r, Idle) /\ graph' = graph /\ Idle.pc = "idle"
    BY DEF Fail, Idle
  <1>2. CASE req[r].pc \notin {"followeeRead", "followeeWrite"}
    <2>1. UNCHANGED <<graph, torn>>
      BY <1>2 DEF Fail
    <2> QED
      BY <1>1, <1>2, <2>1, NoEdgesStep
  <1>3. CASE req[r].pc \in {"followeeRead", "followeeWrite"}
    <2>1. torn' = torn \union {req[r].user, req[r].other}
      BY <1>3 DEF Fail
    <2>2. ReqInv /\ EditInv /\ SymmetricInv
      BY DEF TypeInv, GraphInv
    <2>3. EditInv'
      <3>1. \A q \in Requests : req'[q] = req[q] \/ req'[q] = Idle
        BY <1>1, <2>2 DEF Become, ReqInv
      <3> QED
        BY <1>1, <2>2, <3>1 DEF EditInv, EditReady
    <2>4. ASSUME NEW u \in Users, NEW v \in Users
          PROVE  /\ IsFiniteSet(Following(u, v)')
                 /\ {u, v} \cap torn' = {} =>
                      OutEdges(graph', u, v)
                        = InEdges(graph', u, v) + Cardinality(Following(u, v)')
      <3>1. IsFiniteSet(Following(u, v))
        BY <2>2 DEF SymmetricInv
      <3>2. Following(u, v)' = Following(u, v) \ {r}
        BY <1>1, <2>2, FollowingNext
      <3>3. IsFiniteSet(Following(u, v)')
        BY <3>1, <3>2, FS_RemoveElement
      <3> SUFFICES ASSUME {u, v} \cap torn' = {}
                   PROVE  OutEdges(graph', u, v)
                            = InEdges(graph', u, v) + Cardinality(Following(u, v)')
        BY <3>3
      <3>4. r \notin Following(u, v)
        BY <2>1 DEF Following
      <3>5. Following(u, v)' = Following(u, v)
        BY <3>2, <3>4
      <3>6. {u, v} \cap torn = {}
        BY <2>1
      <3> QED
        BY <1>1, <2>2, <3>5, <3>6 DEF SymmetricInv
    <2> QED
      BY <2>3, <2>4 DEF GraphInv, SymmetricInv
  <1> QED
    BY <1>2, <1>3

\* A user that is inserted has no vertex yet, or is torn.
LEMMA InsertUserKeepsGraph ==
  ASSUME TypeInv, GraphInv, NEW w \in Users, InsertUser(w)
  PROVE  GraphInv'
  <1>1. /\ graph' = SetState(graph, w, NoVertex)
        /\ torn' = IF Found(graph, w) THEN torn \union {w} ELSE torn
        /\ \A q \in Requests : req'[q] = IF q \in Editing(w)
                                         THEN [req[q] EXCEPT !.stale = TRUE] ELSE req[q]
    BY DEF InsertUser
  <1>2. ReqInv /\ EditInv /\ SymmetricInv
    BY DEF TypeInv, GraphInv
  <1>3. EditInv'
    <2> SUFFICES ASSUME NEW q \in Requests PROVE EditReady(req'[q], graph')
      BY DEF EditInv
    <2>1. req[q] \in Request /\ EditReady(req[q], graph)
      BY <1>2 DEF ReqInv, EditInv
    <2>2. CASE q \in Editing(w)
      <3>1. req'[q].stale
        BY <1>1, <2>1, <2>2 DEF Request
      <3> QED
        BY <3>1 DEF EditReady
    <2>3. CASE q \notin Editing(w)
      <3>1. req'[q] = req[q]
        BY <1>1, <2>3
      <3>2. \A u : u # w => Get(graph', u, NoVertex) = Get(graph, u, NoVertex)
        BY <1>1 DEF SetState, Get, Found
      <3>3. /\ req[q].pc = "followerWrite" => req[q].user # w
            /\ req[q].pc = "followeeWrite" => req[q].other # w
        BY <2>3 DEF Editing, At
      <3> QED
        BY <2>1, <3>1, <3>2, <3>3 DEF EditReady
    <2> QED
      BY <2>2, <2>3
  <1>4. ASSUME NEW u, NEW v PROVE Following(u, v)' = Following(u, v)
    <2>1. ASSUME NEW q \in Requests
          PROVE  /\ req'[q].pc = req[q].pc /\ req'[q].user = req[q].user
                 /\ req'[q].other = req[q].other
      BY <1>1, <1>2 DEF ReqInv, Request
    <2> QED
      BY <2>1 DEF Following
  <1>5. ASSUME NEW u \in Users, NEW v \in Users, {u, v} \cap torn' = {}
        PROVE  OutEdges(graph', u, v) = OutEdges(graph, u, v)
               /\ InEdges(graph', u, v) = InEdges(graph, u, v)
    <2>1. CASE Found(graph, w)
      <3>1. u # w /\ v # w
        BY <1>1, <1>5, <2>1
      <3> QED
        BY <1>1, <3>1, EdgesOfOthers
    <2>2. CASE ~Found(graph, w)
      <3>1. \A k : Get(graph', k, NoVertex) = Get(graph, k, NoVertex)
        BY <1>1, <2>2 DEF SetState, Get, Found
      <3> QED
        BY <3>1 DEF OutEdges, InEdges
    <2> QED
      BY <2>1, <2>2
  <1>6. torn \subseteq torn'
    BY <1>1
  <1>7. SymmetricInv'
    BY <1>2, <1>4, <1>5, <1>6 DEF SymmetricInv
  <1> QED
    BY <1>3, <1>7 DEF GraphInv

LEMMA GraphStep == TypeInv /\ GraphInv /\ [Next]_vars => GraphInv'
  <1> SUFFICES ASSUME TypeInv, GraphInv, [Next]_vars PROVE GraphInv'
    OBVIOUS
  <1>1. CASE \E u \in Users : InsertUser(u)
    BY <1>1, InsertUserKeepsGraph
  <1>2. CASE \E r \in Requests : Compose(r)
    BY <1>2, ComposeKeepsGraph
  <1>3. ASSUME NEW r \in Requests, Edit(r) PROVE GraphInv'
    BY <1>3, ReadForEditKeeps, WriteFollowerKeeps, WriteFolloweeKeeps DEF Edit
  <1>4. CASE \E r \in Requests : Read(r)
    BY <1>4, ReadKeepsGraph
  <1>5. CASE \E r \in Requests : Fail(r)
    BY <1>5, FailKeepsGraph
  <1>6. CASE UNCHANGED vars
    <2>1. UNCHANGED <<req, graph, torn>>
      BY <1>6 DEF vars, history
    <2>2. \A u, v : Following(u, v)' = Following(u, v)
      BY <2>1 DEF Following
    <2> QED
      BY <2>1, <2>2 DEF GraphInv, EditInv, SymmetricInv
  <1> QED
    BY <1>1, <1>2, <1>3, <1>4, <1>5, <1>6 DEF Next

\* Both ends of an edge are kept as often (graph.go Follow), whoever follows, is inserted or
\* fails meanwhile, outside the vertices the history says were overwritten or left half done.
THEOREM FollowsKeptAtBothEnds == Spec => []FollowSymmetric
  <1>1. TypeInv /\ GraphInv /\ [Next]_vars => (TypeInv /\ GraphInv)'
    BY TypeStep, GraphStep
  <1> QED
    BY <1>1, TypeInit, GraphInit, GraphInvSuffices, PTL DEF Spec
=============================================================================
