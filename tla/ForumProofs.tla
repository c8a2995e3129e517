---------------------------- MODULE ForumProofs ----------------------------
(***************************************************************************)
(* Theorems about module Forum, for every forum tree, every set of users   *)
(* and every bound.                                                        *)
(***************************************************************************)
EXTENDS Forum, NaturalLemmas, FiniteSetTheorems

-----------------------------------------------------------------------------
(* Counting the rows before a row.                                         *)

LEMMA IdsFinite ==
    ASSUME NEW S \in SUBSET PostIds
    PROVE  /\ S \in SUBSET Nat
           /\ IsFiniteSet(S)
           /\ Cardinality(S) \in Nat
<1>1. IsFiniteSet(PostIds)
  BY FS_Interval, BoundsAssumption DEF PostIds
<1>2. IsFiniteSet(S)
  BY <1>1, FS_Subset
<1>3. QED
  BY <1>2, FS_CardinalityType DEF PostIds

(* ORDER BY id finds the oldest and the newest row of a nonempty set.      *)
LEMMA OldestNewest ==
    ASSUME NEW S \in SUBSET PostIds, S # {}
    PROVE  /\ Oldest(S) \in S /\ \A q \in S : Oldest(S) <= q
           /\ Newest(S) \in S /\ \A q \in S : q <= Newest(S)
<1>1. \E p \in S : \A q \in S : p <= q
  BY LeastNatural, IdsFinite
<1>2. \E p \in S : \A q \in S : q <= p
  BY GreatestNatural, BoundsAssumption DEF PostIds
<1>3. QED
  BY <1>1, <1>2 DEF Oldest, Newest

LEMMA NewestType ==
    ASSUME NEW S \in SUBSET PostIds
    PROVE  Newest(S) \in PostIds \cup {NoPost}
BY OldestNewest DEF Newest

LEMMA RankType ==
    ASSUME NEW S \in SUBSET PostIds, NEW q \in PostIds
    PROVE  /\ Rank(q, S) \in Nat
           /\ Rank(q, S) <= Cardinality(S)
           /\ q \in S => Rank(q, S) < Cardinality(S)
<1> DEFINE B == {r \in S : r < q}
<1>1. B \in SUBSET S /\ IsFiniteSet(S) /\ IsFiniteSet(B)
  BY IdsFinite
<1>2. Cardinality(B) \in Nat /\ Cardinality(S) \in Nat
      /\ Cardinality(B) <= Cardinality(S)
      /\ (Cardinality(B) = Cardinality(S) => B = S)
  BY <1>1, FS_Subset, FS_CardinalityType
<1>3. q \in S => B # S
  BY DEF PostIds
<1>4. QED
  BY <1>2, <1>3 DEF Rank

(* Ranks grow with the ids.                                                *)
LEMMA RankMono ==
    ASSUME NEW S \in SUBSET PostIds, NEW p \in S, NEW q \in PostIds, p < q
    PROVE  Rank(p, S) < Rank(q, S)
<1> DEFINE B == {r \in S : r < p}
           C == {r \in S : r < q}
<1>0. S \in SUBSET Nat /\ q \in Nat
  BY IdsFinite DEF PostIds
<1>1. B \in SUBSET C /\ C \in SUBSET PostIds /\ p \in C /\ p \notin B
  <2>1. \A r \in S : r < p => r < q
    BY <1>0
  <2>2. ~(p < p)
    BY <1>0
  <2>3. QED
    BY <2>1, <2>2
<1>2. IsFiniteSet(C) /\ Cardinality(B) \in Nat /\ Cardinality(C) \in Nat
  BY <1>1, IdsFinite
<1>3. Cardinality(B) <= Cardinality(C) /\ Cardinality(B) # Cardinality(C)
  BY <1>1, <1>2, FS_Subset
<1>4. QED
  BY <1>2, <1>3 DEF Rank

(* A row newer than all others comes last and moves none of them.          *)
LEMMA RankNew ==
    ASSUME NEW S \in SUBSET PostIds, NEW n \in PostIds, \A q \in S : q < n
    PROVE  /\ Rank(n, S \cup {n}) = Cardinality(S)
           /\ \A q \in S : Rank(q, S \cup {n}) = Rank(q, S)
<1>0. S \in SUBSET Nat /\ n \in Nat
  BY IdsFinite DEF PostIds
<1>1. {r \in S \cup {n} : r < n} = S
  <2>1. ~(n < n)
    BY <1>0
  <2>2. QED
    BY <2>1
<1>2. ASSUME NEW q \in S
      PROVE  {r \in S \cup {n} : r < q} = {r \in S : r < q}
  BY DEF PostIds
<1>3. QED
  BY <1>1, <1>2 DEF Rank

(* Removing a row moves up the rows behind it, and only them.              *)
LEMMA RankRemove ==
    ASSUME NEW S \in SUBSET PostIds, NEW p \in S, NEW q \in S
    PROVE  Rank(q, S \ {p}) = IF p < q THEN Rank(q, S) - 1 ELSE Rank(q, S)
<1> DEFINE B == {r \in S : r < q}
<1>1. {r \in S \ {p} : r < q} = B \ {p}
  OBVIOUS
<1>2. IsFiniteSet(B)
  BY IdsFinite
<1>3. Cardinality(B \ {p}) = IF p \in B THEN Cardinality(B) - 1
                                        ELSE Cardinality(B)
  BY <1>2, FS_RemoveElement
<1>4. p \in B <=> p < q
  OBVIOUS
<1>5. QED
  BY <1>1, <1>3, <1>4 DEF Rank

(* Renumbering the rows behind the oldest removed one, from its place on,  *)
(* gives every remaining row its rank.                                     *)
LEMMA RankSplit ==
    ASSUME NEW A \in SUBSET PostIds, NEW P \in SUBSET A, P # {},
           NEW q \in A \ P
    PROVE  LET rest == {r \in A \ P : r > Oldest(P)} IN
           Rank(q, A \ P) = IF q \in rest
                            THEN Rank(Oldest(P), A) + Rank(q, rest)
                            ELSE Rank(q, A)
<1> DEFINE o    == Oldest(P)
           rest == {r \in A \ P : r > o}
           B == {r \in A : r < o}
           C == {r \in rest : r < q}
           D == {r \in A \ P : r < q}
<1>1. o \in P /\ \A r \in P : o <= r
  BY OldestNewest
<1>2. A \in SUBSET Nat /\ o \in Nat /\ q \in Nat
  BY <1>1, IdsFinite
<1>3. CASE q \in rest
  <2>1. D = B \cup C /\ B \cap C = {}
    <3> HIDE DEF o
    <3>1. \A r \in A : r < o => r \notin P /\ r < q
      BY <1>1, <1>2, <1>3
    <3>2. \A r \in A \ P : r < o \/ r > o
      BY <1>1, <1>2
    <3>3. \A r \in A : ~(r < o /\ r > o)
      BY <1>2
    <3>4. QED
      BY <3>1, <3>2, <3>3
  <2>2. IsFiniteSet(B) /\ IsFiniteSet(C)
    BY IdsFinite
  <2>3. Cardinality(D) = Cardinality(B) + Cardinality(C) - Cardinality({})
    BY <2>1, <2>2, FS_Union
  <2>4. Cardinality({}) = 0 /\ Cardinality(B) \in Nat /\ Cardinality(C) \in Nat
    BY <2>2, FS_EmptySet, FS_CardinalityType
  <2>5. Cardinality(D) = Cardinality(B) + Cardinality(C)
    BY <2>3, <2>4
  <2>6. QED
    BY <2>5, <1>3 DEF Rank
<1>4. CASE q \notin rest
  <2>1. q < o
    <3> HIDE DEF o
    <3> QED BY <1>1, <1>2, <1>4
  <2>2. D = {r \in A : r < q}
    <3> HIDE DEF o
    <3>1. \A r \in A : r < q => r \notin P
      BY <1>1, <1>2, <2>1
    <3>2. QED
      BY <3>1
  <2>3. QED
    BY <2>2, <1>4 DEF Rank
<1>5. QED
  BY <1>3, <1>4

-----------------------------------------------------------------------------
(* The inductive invariant.                                                *)

(* Ids are handed out once, and no post is without its topic.              *)
RowsOK ==
    /\ \A p \in PostIds :
          PostExists(p) => p < nextPost /\ TopicExists(post[p].topic)
    /\ \A t \in TopicIds : TopicExists(t) => t < nextTopic

(* The request in progress works on rows that are there.                   *)
ReqOK ==
    /\ req.op \in {"post", "set", "in", "users", "last", "count", "split"} =>
          req.topic \in TopicIds /\ TopicExists(req.topic)
    /\ req.op = "post" => PostsOf(req.topic) = {}
    /\ req.op = "set" => req.to \in Forums
    /\ req.op = "count" => req.to \in Forums
    /\ req.op \in {"count", "split"} =>
          /\ req.new \in TopicIds \ {req.topic}
          /\ TopicExists(req.new)
          /\ req.posts # {}
          /\ req.posts \subseteq PostsOf(req.topic)

IInv == TypeOK /\ RowsOK /\ ReqOK /\ TopicPostCount /\ PositionsInOrder

LEMMA PostsOfType ==
    ASSUME NEW t
    PROVE  PostsOf(t) \in SUBSET PostIds
BY DEF PostsOf

(* max(position)+1 is the number of posts.                                 *)
LEMMA NextPositionIs ==
    ASSUME TablesType, PositionsInOrder, NEW t \in TopicIds
    PROVE  NextPosition(t) = Cardinality(PostsOf(t))
<1> DEFINE S == PostsOf(t)
           positions == {post[p].pos : p \in S}
<1>1. S \in SUBSET PostIds
  BY PostsOfType
<1>2. CASE S = {}
  BY <1>2, FS_EmptySet DEF NextPosition
<1>3. CASE S # {}
  <2> DEFINE n == Newest(S)
  <2>1. n \in S /\ \A q \in S : q <= n
    BY <1>1, <1>3, OldestNewest
  <2>2. {r \in S : r < n} = S \ {n}
    <3> HIDE DEF n
    <3>1. S \in SUBSET Nat
      BY <1>1, IdsFinite
    <3>2. QED
      BY <2>1, <3>1
  <2>3. Rank(n, S) = Cardinality(S) - 1 /\ Cardinality(S) \in Nat
    BY <1>1, <2>1, <2>2, IdsFinite, FS_RemoveElement DEF Rank
  <2>4. \A q \in S : post[q].pos = Rank(q, S)
    BY DEF PositionsInOrder
  <2>5. \A q \in S : Rank(q, S) \in Nat /\ Rank(q, S) < Cardinality(S)
    BY <1>1, RankType
  <2>6. \A y \in positions : y \in Nat /\ y <= Cardinality(S) - 1
    BY <2>3, <2>4, <2>5
  <2>7. Cardinality(S) - 1 \in positions
    BY <2>1, <2>3, <2>4
  <2> DEFINE m == CHOOSE x \in positions : \A y \in positions : y <= x
  <2>8. m = Cardinality(S) - 1
    <3> HIDE DEF positions, S
    <3>1. m \in positions /\ \A y \in positions : y <= m
      BY <2>6, <2>7
    <3>2. QED
      BY <2>3, <2>6, <2>7, <3>1
  <2>9. positions # {}
    BY <2>7
  <2>10. NextPosition(t) = m + 1
    BY <2>9 DEF NextPosition
  <2>11. QED
    <3> HIDE DEF m
    <3> QED BY <2>3, <2>8, <2>10
<1>4. QED
  BY <1>2, <1>3

(* Writing columns of a row leaves a row.                                  *)
LEMMA ForumRowWrite ==
    ASSUME NEW r \in ForumRow, NEW n \in Int, NEW l \in PostIds \cup {NoPost}
    PROVE  [r EXCEPT !.posts = n, !.last = l] \in ForumRow
BY DEF ForumRow

LEMMA ForumCountsWrite ==
    ASSUME NEW r \in ForumRow, NEW a \in Int, NEW n \in Int
    PROVE  /\ [r EXCEPT !.topics = a, !.posts = n] \in ForumRow
           /\ [r EXCEPT !.topics = a] \in ForumRow
BY DEF ForumRow

LEMMA TopicRowWrite ==
    ASSUME NEW r \in TopicRow, NEW n \in Int,
           NEW a \in PostIds \cup {NoPost}, NEW l \in PostIds \cup {NoPost}
    PROVE  [r EXCEPT !.count = n, !.last = l, !.first = a] \in TopicRow
BY DEF TopicRow

LEMMA PostRowWrite ==
    ASSUME NEW r \in PostRow, NEW k \in Int, NEW n \in TopicIds
    PROVE  /\ [r EXCEPT !.topic = n, !.pos = k] \in PostRow
           /\ [r EXCEPT !.pos = k] \in PostRow
BY DEF PostRow

(* A new post keeps the counter and the positions of its topic.            *)
LEMMA InsertKeeps ==
    ASSUME IInv, NEW t \in TopicIds, TopicExists(t), NEW u \in Users,
           InsertPost(t, u, Cardinality(PostsOf(t))), nextTopic' = nextTopic
    PROVE  /\ TablesType' /\ nextPost' \in Nat \ {0}
           /\ RowsOK' /\ TopicPostCount' /\ PositionsInOrder'
           /\ PostsOf(t)' # {}
<1> DEFINE p == nextPost
           S == PostsOf(t)
<1>1. p \in PostIds /\ nextPost' = p + 1 /\ ~PostExists(p)
  <2>1. p \in Nat \ {0} /\ p <= MaxPosts /\ nextPost' = p + 1
    BY DEF InsertPost, IInv, TypeOK, CountersType
  <2>2. p \in PostIds
    BY <2>1, BoundsAssumption DEF PostIds
  <2>3. ~(p < p)
    BY <2>1
  <2>4. QED
    BY <2>1, <2>2, <2>3 DEF IInv, RowsOK
<1>2. S \in SUBSET PostIds /\ IsFiniteSet(S) /\ Cardinality(S) \in Nat
  BY PostsOfType, IdsFinite
<1>3. TablesType /\ RowsOK /\ TopicPostCount /\ PositionsInOrder
  BY DEF IInv, TypeOK
<1>4. post' = [post EXCEPT ![p] = [topic |-> t, pos |-> Cardinality(S),
                                   author |-> u]]
  BY DEF InsertPost
<1>5. TablesType'
  <2>1. forum' \in [Forums -> ForumRow]
    <3> DEFINE c == Chain[topic[t].forum]
    <3>1. forum' = [g \in Forums |->
                       IF g \in c
                       THEN [forum[g] EXCEPT !.posts = @ + 1, !.last = p]
                       ELSE forum[g]]
      BY DEF InsertPost
    <3> HIDE DEF c, p
    <3>2. \A g \in Forums : forum[g] \in ForumRow
      BY <1>3 DEF TablesType
    <3>3. \A g \in Forums :
             [forum[g] EXCEPT !.posts = @ + 1, !.last = p] \in ForumRow
      <4>1. \A g \in Forums : forum[g].posts + 1 \in Int
        BY <3>2 DEF ForumRow
      <4>2. QED
        BY <1>1, <3>2, <4>1, ForumRowWrite
    <3>4. QED
      BY <3>1, <3>2, <3>3
  <2>2. topic' \in [TopicIds -> TopicRow]
    <3>1. topic[t] \in TopicRow
      BY <1>3 DEF TablesType
    <3> DEFINE r == [topic[t] EXCEPT !.count = @ + 1, !.last = p,
                                     !.first = FirstPostAfter(@, p)]
    <3>2. topic' = [topic EXCEPT ![t] = r]
      BY DEF InsertPost
    <3>3. FirstPostAfter(topic[t].first, p) \in PostIds \cup {NoPost}
      BY <1>1, <3>1 DEF TopicRow, FirstPostAfter
    <3>4. r \in TopicRow
      <4>1. topic[t].count + 1 \in Int
        BY <3>1 DEF TopicRow
      <4>2. QED
        BY <1>1, <3>1, <3>3, <4>1, TopicRowWrite
    <3> HIDE DEF r
    <3>5. QED
      BY <1>3, <3>2, <3>4 DEF TablesType
  <2>3. post' \in [PostIds -> PostRow]
    BY <1>1, <1>2, <1>3, <1>4 DEF TablesType, PostRow
  <2>4. userPosts' \in [Users -> Int]
    <3>1. userPosts' = [userPosts EXCEPT ![u] =
              IF topic[t].forum \in UserCountPosts THEN @ + 1 ELSE @]
      BY DEF InsertPost
    <3>2. QED
      BY <1>3, <3>1 DEF TablesType
  <2>5. QED
    BY <2>1, <2>2, <2>3, <2>4 DEF TablesType
<1>6. \A s \in TopicIds : (topic'[s].forum = topic[s].forum)
         /\ topic'[s].count = IF s = t THEN topic[t].count + 1
                                       ELSE topic[s].count
  BY <1>3 DEF InsertPost, TablesType, TopicRow
<1>7. /\ post'[p].topic = t /\ post'[p].pos = Cardinality(S)
      /\ \A q \in PostIds \ {p} : post'[q] = post[q]
  BY <1>1, <1>3, <1>4 DEF TablesType
<1>8. RowsOK'
  <2>1. ASSUME NEW q \in PostIds, PostExists(q)'
        PROVE  q < nextPost' /\ TopicExists(post[q].topic)'
    <3>1. CASE q = p
      BY <1>1, <1>6, <1>7, <3>1 DEF TopicExists, PostIds
    <3>2. CASE q # p
      <4>1. PostExists(q) /\ post'[q].topic = post[q].topic
        BY <1>7, <2>1, <3>2 DEF PostExists
      <4>2. q < nextPost /\ TopicExists(post[q].topic)
        BY <1>3, <4>1 DEF RowsOK
      <4>3. post[q].topic \in TopicIds
        BY <1>3, <4>1 DEF TablesType, PostRow, PostExists
      <4>4. QED
        BY <1>1, <1>6, <4>1, <4>2, <4>3 DEF TopicExists, PostIds
    <3>3. QED
      BY <3>1, <3>2
  <2>2. \A s \in TopicIds : TopicExists(s)' => s < nextTopic'
    BY <1>3, <1>6 DEF RowsOK, TopicExists
  <2>3. QED
    BY <2>1, <2>2 DEF RowsOK
<1>9. PostsOf(t)' = S \cup {p} /\ p \notin S
  BY <1>1, <1>7 DEF PostsOf, PostExists, TopicIds, NoTopic
<1>10. \A s \in TopicIds \ {t} : PostsOf(s)' = PostsOf(s) /\ p \notin PostsOf(s)
  BY <1>1, <1>7 DEF PostsOf, PostExists, TopicIds, NoTopic
<1>11. TopicPostCount'
  <2>1. topic[t].count = Cardinality(S)
    BY <1>3 DEF TopicPostCount
  <2>2. Cardinality(S \cup {p}) = Cardinality(S) + 1
    BY <1>2, <1>9, FS_AddElement
  <2>3. topic'[t].count = Cardinality(PostsOf(t)')
    BY <1>6, <1>9, <2>1, <2>2
  <2>4. \A s \in TopicIds \ {t} : topic'[s].count = Cardinality(PostsOf(s)')
    BY <1>3, <1>6, <1>10 DEF TopicPostCount
  <2>5. QED
    BY <2>3, <2>4 DEF TopicPostCount
<1>12. PositionsInOrder'
  <2>1. \A q \in S : q < p
    BY <1>3, <1>2 DEF RowsOK, PostsOf, PostExists, TopicIds, NoTopic
  <2>2. Rank(p, S \cup {p}) = Cardinality(S)
        /\ \A q \in S : Rank(q, S \cup {p}) = Rank(q, S)
    BY <1>1, <1>2, <2>1, RankNew
  <2>3. \A q \in S : post'[q].pos = Rank(q, S)
    BY <1>2, <1>3, <1>7, <1>9 DEF PositionsInOrder
  <2>4. \A q \in PostsOf(t)' : post'[q].pos = Rank(q, PostsOf(t)')
    BY <1>7, <1>9, <2>2, <2>3
  <2>5. ASSUME NEW s \in TopicIds \ {t}, NEW q \in PostsOf(s)'
        PROVE  post'[q].pos = Rank(q, PostsOf(s)')
    <3>1. q \in PostsOf(s) /\ q \in PostIds \ {p}
      BY <1>10, <2>5, PostsOfType
    <3>2. QED
      BY <1>3, <1>7, <1>10, <3>1 DEF PositionsInOrder
  <2>6. QED
    BY <2>4, <2>5 DEF PositionsInOrder, Rank
<1>13. QED
  BY <1>1, <1>5, <1>8, <1>9, <1>11, <1>12 DEF PostIds

(* Deleting a post keeps the counter and the positions of its topic.       *)
LEMMA DeletePostKeeps ==
    ASSUME IInv, NEW p \in PostIds, DeletePost(p)
    PROVE  IInv'
<1>1. TablesType /\ RowsOK /\ TopicPostCount /\ PositionsInOrder
  BY DEF IInv, TypeOK
<1>0. PICK t \in TopicIds : t = post[p].topic /\ TopicExists(t)
  BY <1>1 DEF DeletePost, TablesType, PostRow, PostExists, RowsOK
<1> DEFINE S == PostsOf(t)
<1>2. t \in TopicIds /\ TopicExists(t) /\ p \in S /\ post[p].topic = t
  BY <1>0 DEF PostsOf
<1>3. S \in SUBSET PostIds /\ IsFiniteSet(S) /\ Cardinality(S) \in Nat
  BY PostsOfType, IdsFinite
<1>4. /\ post'[p] = BlankPost
      /\ \A q \in PostIds \ {p} :
            post'[q] = IF post[q].topic = t /\ post[q].pos > post[p].pos
                       THEN [post[q] EXCEPT !.pos = @ - 1] ELSE post[q]
  BY <1>0 DEF DeletePost
<1>5. \A q \in PostIds \ {p} :
         /\ post'[q].topic = post[q].topic
         /\ post'[q].pos = IF post[q].topic = t /\ post[q].pos > post[p].pos
                           THEN post[q].pos - 1 ELSE post[q].pos
  BY <1>1, <1>4 DEF TablesType, PostRow
<1>6. TablesType'
  <2>1. forum' \in [Forums -> ForumRow]
    <3> DEFINE c == Chain[topic[t].forum]
    <3>1. NewestOther(p) \in PostIds \cup {NoPost}
      BY NewestType DEF NewestOther
    <3>2. PICK matches \in BOOLEAN :
             forum' = [g \in Forums |->
                 IF g \in c
                 THEN [forum[g] EXCEPT
                          !.posts = @ - 1,
                          !.last  = IF matches /\ @ = p THEN NewestOther(p)
                                                        ELSE @]
                 ELSE forum[g]]
      BY <1>0 DEF DeletePost
    <3> HIDE DEF c
    <3>3. \A g \in Forums : forum[g] \in ForumRow
      BY <1>1 DEF TablesType
    <3>4. \A g \in Forums :
             [forum[g] EXCEPT
                 !.posts = @ - 1,
                 !.last  = IF matches /\ @ = p THEN NewestOther(p) ELSE @]
             \in ForumRow
      <4>1. \A g \in Forums : forum[g].posts - 1 \in Int
        BY <3>3 DEF ForumRow
      <4>2. \A g \in Forums :
               (IF matches /\ forum[g].last = p THEN NewestOther(p)
                ELSE forum[g].last) \in PostIds \cup {NoPost}
        BY <3>1, <3>3 DEF ForumRow
      <4>3. QED
        BY <3>3, <4>1, <4>2, ForumRowWrite
    <3>5. QED
      BY <3>2, <3>3, <3>4
  <2>2. topic' \in [TopicIds -> TopicRow]
    <3>1. topic[t] \in TopicRow
      BY <1>1, <1>2 DEF TablesType
    <3> DEFINE l == IF topic[t].last = p THEN NewestOther(p) ELSE topic[t].last
    <3>2. l \in PostIds \cup {NoPost} /\ topic[t].count - 1 \in Int
      BY <3>1, NewestType DEF TopicRow, NewestOther
    <3> DEFINE r == [topic[t] EXCEPT !.last = l, !.count = @ - 1]
    <3>3. topic' = [topic EXCEPT ![t] = r]
      BY <1>0 DEF DeletePost
    <3>4. r \in TopicRow
      <4> HIDE DEF l
      <4> QED BY <3>1, <3>2 DEF TopicRow
    <3> HIDE DEF r
    <3>5. QED
      BY <1>1, <3>3, <3>4 DEF TablesType
  <2>3. post' \in [PostIds -> PostRow]
    <3>1. BlankPost \in PostRow
      BY DEF BlankPost, PostRow
    <3>2. \A q \in PostIds : post[q] \in PostRow
                             /\ [post[q] EXCEPT !.pos = @ - 1] \in PostRow
      BY <1>1 DEF TablesType, PostRow
    <3>3. \A q \in PostIds : post'[q] \in PostRow
      BY <1>4, <3>1, <3>2
    <3>4. DOMAIN post' = PostIds /\ post' = [q \in PostIds |-> post'[q]]
      BY DEF DeletePost
    <3>5. QED
      BY <3>3, <3>4
  <2>4. userPosts' \in [Users -> Int]
    <3> DEFINE lost(u) == u = post[p].author /\ topic[t].forum \in UserCountPosts
    <3>1. userPosts' = [u \in Users |->
                           userPosts[u] - IF lost(u) THEN 1 ELSE 0]
      BY <1>0 DEF DeletePost
    <3> HIDE DEF lost
    <3>2. QED
      BY <1>1, <3>1 DEF TablesType
  <2>5. QED
    BY <2>1, <2>2, <2>3, <2>4 DEF TablesType
<1>7. \A s \in TopicIds : (topic'[s].forum = topic[s].forum)
         /\ topic'[s].count = IF s = t THEN topic[t].count - 1
                                       ELSE topic[s].count
  <2>1. topic' = [topic EXCEPT
                     ![t].last  = IF @ = p THEN NewestOther(p) ELSE @,
                     ![t].count = @ - 1]
    BY <1>0 DEF DeletePost
  <2>2. QED
    BY <1>1, <1>2, <2>1 DEF TablesType, TopicRow
<1>8. PostsOf(t)' = S \ {p}
  BY <1>2, <1>4, <1>5 DEF PostsOf, BlankPost, TopicIds, NoTopic
<1>9. \A s \in TopicIds \ {t} : PostsOf(s)' = PostsOf(s) /\ p \notin PostsOf(s)
  BY <1>2, <1>4, <1>5 DEF PostsOf, BlankPost, TopicIds, NoTopic
<1>10. RowsOK'
  <2>1. nextTopic' = nextTopic /\ nextPost' = nextPost
    BY DEF DeletePost
  <2>2. ASSUME NEW q \in PostIds, PostExists(q)'
        PROVE  q < nextPost' /\ TopicExists(post[q].topic)'
    <3>1. q # p
      BY <1>4, <2>2 DEF PostExists, BlankPost
    <3>2. PostExists(q) /\ post'[q].topic = post[q].topic
      BY <1>5, <2>2, <3>1 DEF PostExists
    <3>3. post[q].topic \in TopicIds
      BY <1>1, <3>2 DEF TablesType, PostRow, PostExists
    <3>4. QED
      BY <1>1, <1>7, <2>1, <3>2, <3>3 DEF RowsOK, TopicExists
  <2>3. QED
    BY <1>1, <1>7, <2>1, <2>2 DEF RowsOK, TopicExists
<1>11. TopicPostCount'
  <2>1. Cardinality(S \ {p}) = Cardinality(S) - 1
    BY <1>2, <1>3, FS_RemoveElement
  <2>2. topic'[t].count = Cardinality(PostsOf(t)')
    BY <1>1, <1>2, <1>7, <1>8, <2>1 DEF TopicPostCount
  <2>3. \A s \in TopicIds \ {t} : topic'[s].count = Cardinality(PostsOf(s)')
    BY <1>1, <1>7, <1>9 DEF TopicPostCount
  <2>4. QED
    BY <2>2, <2>3 DEF TopicPostCount
<1>12. PositionsInOrder'
  <2>1. ASSUME NEW q \in PostsOf(t)'
        PROVE  post'[q].pos = Rank(q, PostsOf(t)')
    <3>1. q \in S /\ q # p /\ q \in PostIds /\ p \in S
      BY <1>2, <1>3, <1>8, <2>1
    <3>2. post[q].pos = Rank(q, S) /\ post[p].pos = Rank(p, S)
      BY <1>1, <1>2, <3>1 DEF PositionsInOrder
    <3>3. Rank(q, S) \in Nat /\ Rank(p, S) \in Nat
      BY <1>3, <3>1, RankType
    <3>4. p < q => Rank(p, S) < Rank(q, S)
      BY <1>3, <3>1, RankMono
    <3>5. q < p => Rank(q, S) < Rank(p, S)
      BY <1>3, <3>1, RankMono
    <3>6. p < q \/ q < p
      BY <3>1 DEF PostIds
    <3>7. Rank(q, S \ {p}) = IF p < q THEN Rank(q, S) - 1 ELSE Rank(q, S)
      BY <1>3, <3>1, RankRemove
    <3>8. post[q].topic = t
      BY <3>1 DEF PostsOf
    <3>9. post'[q].pos = IF post[q].pos > post[p].pos
                         THEN post[q].pos - 1 ELSE post[q].pos
      BY <1>5, <3>1, <3>8
    <3> HIDE DEF S
    <3>10. post'[q].pos = Rank(q, S \ {p})
      BY <3>2, <3>3, <3>4, <3>5, <3>6, <3>7, <3>9
    <3>11. QED
      BY <1>8, <3>10
  <2>2. ASSUME NEW s \in TopicIds \ {t}, NEW q \in PostsOf(s)'
        PROVE  post'[q].pos = Rank(q, PostsOf(s)')
    <3>1. q \in PostsOf(s) /\ q \in PostIds \ {p} /\ post[q].topic = s
      BY <1>9, <2>2 DEF PostsOf
    <3>2. post'[q].pos = post[q].pos
      BY <1>5, <3>1
    <3>3. QED
      BY <1>1, <1>9, <3>1, <3>2 DEF PositionsInOrder
  <2>3. QED
    BY <2>1, <2>2 DEF PositionsInOrder, Rank
<1>13. req' = req /\ req = Idle
       /\ UNCHANGED <<nextTopic, nextPost, moderations, leak>>
  BY DEF DeletePost
<1>14. TypeOK'
  BY <1>6, <1>13 DEF IInv, TypeOK, ReqType, CountersType
<1>15. ReqOK'
  BY <1>13 DEF ReqOK, Idle
<1>16. QED
  BY <1>10, <1>11, <1>12, <1>14, <1>15 DEF IInv

LEMMA WithoutTopicType ==
    ASSUME NEW fs \in [Forums -> ForumRow], NEW f, NEW t, NEW ps
    PROVE  WithoutTopic(fs, f, t, ps) \in [Forums -> ForumRow]
<1> DEFINE left == {q \in PostIds : /\ ps[q].topic \notin {NoTopic, t}
                                    /\ topic[ps[q].topic].forum \in BelowCategory(f)}
           b == BelowCategory(f)
<1>1. WithoutTopic(fs, f, t, ps) =
         [g \in Forums |-> IF g \in b
            THEN [fs[g] EXCEPT !.topics = @ - 1, !.last = Newest(left)]
            ELSE fs[g]]
  BY DEF WithoutTopic
<1>2. Newest(left) \in PostIds \cup {NoPost}
  BY NewestType
<1> HIDE DEF b, left
<1>3. \A g \in Forums : fs[g].topics - 1 \in Int
  BY DEF ForumRow
<1>4. ASSUME NEW r \in ForumRow, NEW n \in Int, NEW l \in PostIds \cup {NoPost}
      PROVE  [r EXCEPT !.topics = n, !.last = l] \in ForumRow
  BY DEF ForumRow
<1>5. \A g \in Forums :
         [fs[g] EXCEPT !.topics = @ - 1, !.last = Newest(left)] \in ForumRow
  BY <1>2, <1>3, <1>4
<1>6. QED
  BY <1>1, <1>5

(* Deleting a topic leaves the other topics as they are.                   *)
LEMMA DeleteTopicKeeps ==
    ASSUME IInv, NEW t \in TopicIds, DeleteTopic(t)
    PROVE  IInv'
<1>1. TablesType /\ RowsOK /\ TopicPostCount /\ PositionsInOrder /\ CountersType
  BY DEF IInv, TypeOK
<1>2. /\ topic' = [topic EXCEPT ![t] = BlankTopic]
      /\ post' = [q \in PostIds |->
                     IF post[q].topic = t THEN BlankPost ELSE post[q]]
      /\ forum' = WithoutTopic(forum, topic[t].forum, t, post)
      /\ req = Idle
      /\ UNCHANGED <<userPosts, req, nextTopic, nextPost, moderations>>
  BY DEF DeleteTopic
<1>3. TablesType'
  <2>1. forum' \in [Forums -> ForumRow]
    BY <1>1, <1>2, WithoutTopicType DEF TablesType
  <2>2. topic' \in [TopicIds -> TopicRow] /\ post' \in [PostIds -> PostRow]
    <3>1. BlankTopic \in TopicRow /\ BlankPost \in PostRow
      BY DEF BlankTopic, TopicRow, BlankPost, PostRow
    <3>2. QED
      BY <1>1, <1>2, <3>1 DEF TablesType
  <2>3. QED
    BY <1>1, <1>2, <2>1, <2>2 DEF TablesType
<1>4. PostsOf(t)' = {}
  BY <1>2 DEF PostsOf, BlankPost, TopicIds, NoTopic
<1>5. ASSUME NEW s \in TopicIds \ {t}
      PROVE  /\ PostsOf(s)' = PostsOf(s)
             /\ \A q \in PostsOf(s) : post'[q] = post[q]
  BY <1>2 DEF PostsOf, BlankPost, TopicIds, NoTopic
<1>6. topic'[t] = BlankTopic /\ \A s \in TopicIds \ {t} : topic'[s] = topic[s]
  BY <1>1, <1>2 DEF TablesType
<1>7. RowsOK'
  <2>1. ASSUME NEW q \in PostIds, PostExists(q)'
        PROVE  q < nextPost' /\ TopicExists(post[q].topic)'
    <3>1. post[q].topic # t /\ post'[q] = post[q]
      BY <1>2, <2>1 DEF PostExists, BlankPost
    <3>2. PostExists(q)
      BY <2>1, <3>1 DEF PostExists
    <3>3. post[q].topic \in TopicIds
      BY <1>1, <3>2 DEF TablesType, PostRow, PostExists
    <3>4. QED
      BY <1>1, <1>2, <1>6, <3>1, <3>2, <3>3 DEF RowsOK, TopicExists
  <2>2. \A s \in TopicIds : TopicExists(s)' => s < nextTopic'
    BY <1>1, <1>2, <1>6 DEF RowsOK, TopicExists, BlankTopic
  <2>3. QED
    BY <2>1, <2>2 DEF RowsOK
<1>8. TopicPostCount'
  <2>1. topic'[t].count = Cardinality(PostsOf(t)')
    BY <1>4, <1>6, FS_EmptySet DEF BlankTopic
  <2>2. \A s \in TopicIds \ {t} : topic'[s].count = Cardinality(PostsOf(s)')
    BY <1>1, <1>5, <1>6 DEF TopicPostCount
  <2>3. QED
    BY <2>1, <2>2 DEF TopicPostCount
<1>9. PositionsInOrder'
  <2>1. ASSUME NEW s \in TopicIds, NEW q \in PostsOf(s)'
        PROVE  post'[q].pos = Rank(q, PostsOf(s)')
    <3>1. s # t
      BY <1>4, <2>1
    <3>2. QED
      BY <1>1, <1>5, <2>1, <3>1 DEF PositionsInOrder
  <2>2. QED
    BY <2>1 DEF PositionsInOrder, Rank
<1>10. leak' \in [posts : [Forums -> Int], topics : [Forums -> Int],
                  users : [Users -> Int], last : SUBSET Forums,
                  spread : BOOLEAN]
  <2>1. Cardinality(PostsOf(t)) \in Int
    BY PostsOfType, IdsFinite
  <2>2. \A u \in Users : Cardinality(OwnPosts(u, t)) \in Int
    BY IdsFinite DEF OwnPosts, PostsOf
  <2> DEFINE ps == [g \in Forums |->
                  leak.posts[g] + IF g \in Chain[topic[t].forum]
                                  THEN Cardinality(PostsOf(t)) ELSE 0]
             ts == [g \in Forums |->
                  leak.topics[g] + IF g \in Chain[topic[t].forum] /\ IsCategory(g)
                                   THEN 1 ELSE 0]
             us == [u \in Users |->
                  leak.users[u] + IF topic[t].forum \in UserCountPosts
                                  THEN Cardinality(OwnPosts(u, t)) ELSE 0]
  <2>3. leak' = [leak EXCEPT !.posts = ps, !.topics = ts, !.users = us]
    BY DEF DeleteTopic
  <2>4. /\ ps \in [Forums -> Int] /\ ts \in [Forums -> Int]
        /\ us \in [Users -> Int]
    BY <1>1, <2>1, <2>2 DEF CountersType
  <2> HIDE DEF ps, ts, us
  <2>5. QED
    BY <1>1, <2>3, <2>4 DEF CountersType
<1>11. TypeOK'
  BY <1>1, <1>2, <1>3, <1>10 DEF IInv, TypeOK, ReqType, CountersType
<1>12. ReqOK'
  BY <1>2 DEF ReqOK, Idle
<1>13. QED
  BY <1>7, <1>8, <1>9, <1>11, <1>12 DEF IInv

(* The posts of a split: those that stay and those that come are numbered  *)
(* by their order again.                                                   *)
LEMMA RenumberedKeeps ==
    ASSUME IInv, NEW t \in TopicIds, NEW n \in TopicIds \ {t},
           TopicExists(t), TopicExists(n),
           NEW P \in SUBSET PostsOf(t), P # {},
           post' = Renumbered(P, t, n)
    PROVE  /\ post' \in [PostIds -> PostRow]
           /\ PostsOf(t)' = PostsOf(t) \ P
           /\ PostsOf(n)' = PostsOf(n) \cup P
           /\ \A s \in TopicIds \ {t, n} : PostsOf(s)' = PostsOf(s)
           /\ PositionsInOrder'
           /\ \A q \in PostIds : PostExists(q)' => PostExists(q)
<1> DEFINE A     == PostsOf(t)
           o     == Oldest(P)
           start == post[o].pos
           rest  == {q \in A \ P : post[q].pos > start}
           moved == PostsOf(n) \cup P
<1>1. TablesType /\ PositionsInOrder
  BY DEF IInv, TypeOK
<1>2. /\ A \in SUBSET PostIds /\ P \in SUBSET PostIds
      /\ moved \in SUBSET PostIds /\ rest \in SUBSET PostIds
  BY PostsOfType
<1>3. A \cap PostsOf(n) = {} /\ moved \cap rest = {}
  BY DEF PostsOf
<1>4. /\ o \in P /\ o \in A /\ \A r \in P : o <= r
      /\ start = Rank(o, A) /\ start \in Nat
  <2>1. o \in P /\ \A r \in P : o <= r
    BY <1>2, OldestNewest
  <2>2. start = Rank(o, A)
    BY <1>1, <2>1 DEF PositionsInOrder
  <2>3. Rank(o, A) \in Nat
    BY <1>2, <2>1, RankType
  <2>4. QED
    BY <2>1, <2>2, <2>3
<1>5. post' = [q \in PostIds |->
                  CASE q \in moved -> [post[q] EXCEPT !.topic = n,
                                                      !.pos   = Rank(q, moved)]
                    [] q \in rest  -> [post[q] EXCEPT
                                          !.pos = start + Rank(q, rest)]
                    [] OTHER       -> post[q]]
  BY DEF Renumbered
<1> HIDE DEF o, start, rest, moved, A
<1>6. /\ \A q \in moved : post'[q] = [post[q] EXCEPT !.topic = n,
                                                     !.pos   = Rank(q, moved)]
      /\ \A q \in rest : post'[q] = [post[q] EXCEPT
                                        !.pos = start + Rank(q, rest)]
      /\ \A q \in PostIds : q \notin moved /\ q \notin rest
                                => post'[q] = post[q]
  BY <1>2, <1>3, <1>5
<1>7. /\ \A q \in moved : Rank(q, moved) \in Nat
      /\ \A q \in rest : start + Rank(q, rest) \in Nat
  <2>1. \A q \in moved : Rank(q, moved) \in Nat
    BY <1>2, RankType
  <2>2. \A q \in rest : Rank(q, rest) \in Nat
    BY <1>2, RankType
  <2>3. QED
    BY <1>4, <2>1, <2>2
<1>8. post' \in [PostIds -> PostRow]
  <2>1. \A q \in PostIds : post[q] \in PostRow
    BY <1>1 DEF TablesType
  <2>2. ASSUME NEW q \in PostIds PROVE post'[q] \in PostRow
    <3>1. CASE q \in moved
      <4>1. Rank(q, moved) \in Int
        BY <1>7, <3>1
      <4>2. [post[q] EXCEPT !.topic = n, !.pos = Rank(q, moved)] \in PostRow
        BY <2>1, <4>1, PostRowWrite
      <4>3. post'[q] = [post[q] EXCEPT !.topic = n, !.pos = Rank(q, moved)]
        BY <1>6, <3>1
      <4>4. QED
        BY <4>2, <4>3, Zenon
    <3>2. CASE q \in rest
      <4>1. start + Rank(q, rest) \in Int
        BY <1>7, <3>2
      <4>2. [post[q] EXCEPT !.pos = start + Rank(q, rest)] \in PostRow
        BY <2>1, <4>1, PostRowWrite
      <4>3. post'[q] = [post[q] EXCEPT !.pos = start + Rank(q, rest)]
        BY <1>6, <3>2
      <4>4. QED
        BY <4>2, <4>3, Zenon
    <3>3. CASE q \notin moved /\ q \notin rest
      BY <1>6, <2>1, <3>3
    <3>4. QED
      BY <3>1, <3>2, <3>3
  <2>3. post' = [q \in PostIds |-> post'[q]]
    BY <1>5
  <2>4. QED
    BY <2>2, <2>3
<1>9. /\ \A q \in moved : post'[q].topic = n /\ post'[q].pos = Rank(q, moved)
      /\ \A q \in rest : /\ post'[q].topic = post[q].topic
                         /\ post'[q].pos = start + Rank(q, rest)
      /\ \A q \in PostIds : q \notin moved => post'[q].topic = post[q].topic
  <2>1. \A q \in PostIds : post[q] \in PostRow
    BY <1>1 DEF TablesType
  <2>2. \A q \in moved : post'[q].topic = n /\ post'[q].pos = Rank(q, moved)
    BY <1>2, <1>6, <2>1 DEF PostRow
  <2>3. \A q \in rest : /\ post'[q].topic = post[q].topic
                        /\ post'[q].pos = start + Rank(q, rest)
    BY <1>2, <1>6, <2>1 DEF PostRow
  <2>4. QED
    BY <1>6, <2>2, <2>3
<1>10. PostsOf(t)' = A \ P
  <2>1. \A q \in PostIds : q \in A <=> post[q].topic = t
    BY DEF PostsOf, A
  <2>2. \A q \in moved : post'[q].topic # t
    BY <1>9
  <2>3. \A q \in A \ P : q \notin moved
    BY <1>3 DEF moved
  <2>4. \A q \in P : q \in moved
    BY DEF moved
  <2>5. \A q \in PostIds : post'[q].topic = t <=> q \in A \ P
    BY <1>2, <1>9, <2>1, <2>2, <2>3, <2>4
  <2>6. PostsOf(t)' = {q \in PostIds : post'[q].topic = t}
    BY DEF PostsOf
  <2>7. QED
    BY <1>2, <2>5, <2>6
<1>11. PostsOf(n)' = moved
  BY <1>2, <1>9 DEF PostsOf, moved, A
<1>12. \A s \in TopicIds \ {t, n} :
          PostsOf(s)' = PostsOf(s) /\ PostsOf(s) \cap (moved \cup rest) = {}
  <2>1. SUFFICES ASSUME NEW s \in TopicIds \ {t, n}
                 PROVE  PostsOf(s)' = PostsOf(s) /\ PostsOf(s) \cap (moved \cup rest) = {}
    OBVIOUS
  <2>2. \A q \in moved \cup rest : post[q].topic # s
    BY DEF PostsOf, A, moved, rest
  <2>3. PostsOf(s) \cap (moved \cup rest) = {}
    BY <2>2 DEF PostsOf
  <2>4. ASSUME NEW q \in PostIds PROVE post'[q].topic = s <=> post[q].topic = s
    <3>1. CASE q \in moved
      BY <1>9, <2>1, <2>2, <3>1
    <3>2. CASE q \notin moved
      BY <1>9, <3>2
    <3>3. QED
      BY <3>1, <3>2
  <2>5. QED
    BY <2>3, <2>4 DEF PostsOf
<1>13. ASSUME NEW q \in A \ P
       PROVE  post'[q].pos = Rank(q, A \ P)
  <2> DEFINE behind == {r \in A \ P : r > o}
  <2>0. \A r \in A \ P : (post[r].pos > start) <=> (r > o)
    <3>1. SUFFICES ASSUME NEW r \in A \ P
                   PROVE  (post[r].pos > start) <=> (r > o)
      OBVIOUS
    <3>2. post[r].pos = Rank(r, A)
      BY <1>1 DEF PositionsInOrder, A
    <3>3. o < r => Rank(o, A) < Rank(r, A)
      BY <1>2, <1>4, RankMono
    <3>4. r < o => Rank(r, A) < Rank(o, A)
      BY <1>2, <1>4, RankMono
    <3>5. r # o /\ r \in Nat /\ o \in Nat
      BY <1>2, <1>4 DEF PostIds
    <3>6. Rank(r, A) \in Nat /\ Rank(o, A) \in Nat
      BY <1>2, <1>4, RankType
    <3>7. QED
      BY <1>4, <3>2, <3>3, <3>4, <3>5, <3>6
  <2>1. rest = behind
    BY <2>0 DEF rest
  <2>2. Rank(q, A \ P) = IF q \in rest THEN start + Rank(q, rest)
                                       ELSE Rank(q, A)
    <3>1. P \in SUBSET A
      BY DEF A
    <3>2. QED
      BY <1>2, <1>4, <2>1, <3>1, RankSplit DEF o
  <2>3. CASE q \in rest
    BY <1>9, <2>2, <2>3
  <2>4. CASE q \notin rest
    <3>1. q \notin moved /\ q \in PostIds
      BY <1>2, <1>3 DEF moved
    <3>2. post'[q] = post[q]
      BY <1>6, <2>4, <3>1
    <3>3. post[q].pos = Rank(q, A)
      BY <1>1 DEF PositionsInOrder, A
    <3>4. QED
      BY <2>2, <2>4, <3>2, <3>3
  <2>5. QED
    BY <2>3, <2>4
<1>14. PositionsInOrder'
  <2>1. \A q \in PostsOf(t)' : post'[q].pos = Rank(q, PostsOf(t)')
    BY <1>10, <1>13
  <2>2. \A q \in PostsOf(n)' : post'[q].pos = Rank(q, PostsOf(n)')
    BY <1>9, <1>11
  <2>3. ASSUME NEW s \in TopicIds \ {t, n}, NEW q \in PostsOf(s)'
        PROVE  post'[q].pos = Rank(q, PostsOf(s)')
    <3>1. q \in PostsOf(s) /\ q \in PostIds /\ q \notin moved /\ q \notin rest
      BY <1>12, <2>3, PostsOfType
    <3>2. post'[q] = post[q]
      BY <1>6, <3>1
    <3>3. QED
      BY <1>1, <1>12, <3>1, <3>2 DEF PositionsInOrder
  <2>4. QED
    BY <2>1, <2>2, <2>3 DEF PositionsInOrder, Rank
<1>15. \A q \in PostIds : PostExists(q)' => PostExists(q)
  BY <1>2, <1>9 DEF PostExists, moved, A, PostsOf, TopicIds, NoTopic
<1>16. QED
  BY <1>8, <1>10, <1>11, <1>12, <1>14, <1>15 DEF A, moved

(* The topic rows of a split: a row each, with the count of what has come  *)
(* or stays, or no row at all.                                             *)
LEMMA SplitTopicsRows ==
    ASSUME TablesType, NEW t \in TopicIds, NEW n \in TopicIds \ {t},
           NEW P \in SUBSET PostIds, P # {}, NEW any \in PostIds
    PROVE  LET ts == SplitTopics(P, t, n, any) IN
           /\ ts \in [TopicIds -> TopicRow]
           /\ \A s \in TopicIds \ {t, n} : ts[s] = topic[s]
           /\ ts[n].forum = topic[n].forum
           /\ ts[n].count = topic[n].count + Cardinality(P)
           /\ IF Cardinality(P) = topic[t].count
              THEN ts[t] = BlankTopic
              ELSE /\ ts[t].forum = topic[t].forum
                   /\ ts[t].count = topic[t].count - Cardinality(P)
<1> DEFINE size == Cardinality(P)
           rest == PostsOf(t) \ P
           lastN  == IF topic[n].last = NoPost \/ Newest(P) > topic[n].last
                     THEN Newest(P) ELSE topic[n].last
           firstN == IF topic[n].first = NoPost \/ Oldest(P) < topic[n].first
                     THEN Oldest(P) ELSE topic[n].first
           lastT  == IF topic[t].last = Newest(P)
                     THEN Newest(rest \ {topic[t].last}) ELSE topic[t].last
           firstT == IF topic[t].first = Oldest(P) THEN any ELSE topic[t].first
           rowN == [forum |-> topic[n].forum, count |-> topic[n].count + size,
                    last |-> lastN, first |-> firstN]
           rowT == IF size = topic[t].count THEN BlankTopic
                   ELSE [forum |-> topic[t].forum,
                         count |-> topic[t].count - size,
                         last |-> lastT, first |-> firstT]
           ts == SplitTopics(P, t, n, any)
<1>1. topic[t] \in TopicRow /\ topic[n] \in TopicRow /\ size \in Nat
  BY IdsFinite DEF TablesType
<1>2. lastN \in PostIds \cup {NoPost} /\ firstN \in PostIds \cup {NoPost}
  BY <1>1, OldestNewest DEF TopicRow
<1>3. lastT \in PostIds \cup {NoPost} /\ firstT \in PostIds \cup {NoPost}
  <2>1. rest \ {topic[t].last} \in SUBSET PostIds
    BY PostsOfType
  <2>2. QED
    BY <1>1, <2>1, NewestType DEF TopicRow
<1>4. ts = [topic EXCEPT ![n] = rowN, ![t] = rowT]
  BY DEF SplitTopics
<1> HIDE DEF size, lastN, firstN, lastT, firstT, ts
<1>5. rowN \in TopicRow
  BY <1>1, <1>2 DEF TopicRow
<1>6. rowT \in TopicRow
  BY <1>1, <1>3 DEF TopicRow, BlankTopic
<1>7. rowN.forum = topic[n].forum /\ rowN.count = topic[n].count + size
  OBVIOUS
<1>8. IF size = topic[t].count
      THEN rowT = BlankTopic
      ELSE rowT.forum = topic[t].forum /\ rowT.count = topic[t].count - size
  OBVIOUS
<1> HIDE DEF rowN, rowT
<1>9. /\ ts \in [TopicIds -> TopicRow]
      /\ ts[n] = rowN /\ ts[t] = rowT
      /\ \A s \in TopicIds \ {t, n} : ts[s] = topic[s]
  BY <1>4, <1>5, <1>6 DEF TablesType
<1>10. QED
  BY <1>7, <1>8, <1>9 DEF ts, size

(* The forum rows of a split, from whatever rows the request had loaded.   *)
LEMMA SplitForumsType ==
    ASSUME TablesType, NEW P \in SUBSET PostIds, P # {},
           NEW f \in Forums, NEW g \in Forums, NEW seen,
           seen[f].posts \in Int, seen[g].posts \in Int,
           NEW some \in PostIds \cup {NoPost}
    PROVE  SplitForums(P, f, g, seen, some) \in [Forums -> ForumRow]
<1>1. CASE f = g
  BY <1>1 DEF SplitForums, TablesType
<1>2. CASE f # g
  <2> DEFINE fewer == seen[f].posts - Cardinality(P)
             more  == seen[g].posts + Cardinality(P)
             lastF == IF seen[f].last = Newest(P) THEN some ELSE forum[f].last
             lastG == IF seen[g].last = NoPost \/ Newest(P) > seen[g].last
                      THEN Newest(P) ELSE forum[g].last
             rowF == [forum[f] EXCEPT !.posts = fewer, !.last = lastF]
             rowG == [forum[g] EXCEPT !.posts = more, !.last = lastG]
  <2>1. forum \in [Forums -> ForumRow] /\ Cardinality(P) \in Nat
    BY IdsFinite DEF TablesType
  <2>2. fewer \in Int /\ more \in Int
    BY <2>1
  <2>3. lastF \in PostIds \cup {NoPost} /\ lastG \in PostIds \cup {NoPost}
    BY <2>1, OldestNewest DEF ForumRow
  <2>4. SplitForums(P, f, g, seen, some) =
            [forum EXCEPT ![f] = rowF, ![g] = rowG]
    BY <1>2, <2>1 DEF SplitForums
  <2> HIDE DEF fewer, more, lastF, lastG
  <2>5. rowF \in ForumRow /\ rowG \in ForumRow
    BY <2>1, <2>2, <2>3, ForumRowWrite
  <2> HIDE DEF rowF, rowG
  <2>6. QED
    BY <2>1, <2>4, <2>5
<1>3. QED
  BY <1>1, <1>2

(* The counters of the history are numbers.                                *)
LEMMA LeakType ==
    ASSUME CountersType, NEW S \in SUBSET Forums, NEW b \in BOOLEAN,
           leak' = [leak EXCEPT
                       !.topics = [h \in Forums |-> leak.topics[h] +
                                      IF h \in S THEN 1 ELSE 0],
                       !.spread = @ \/ b]
    PROVE  leak' \in [posts : [Forums -> Int], topics : [Forums -> Int],
                      users : [Users -> Int], last : SUBSET Forums,
                      spread : BOOLEAN]
<1> DEFINE ts == [h \in Forums |-> leak.topics[h] + IF h \in S THEN 1 ELSE 0]
<1>1. ts \in [Forums -> Int]
  BY DEF CountersType
<1>2. leak' = [leak EXCEPT !.topics = ts, !.spread = @ \/ b]
  OBVIOUS
<1> HIDE DEF ts
<1>3. (leak.spread \/ b) \in BOOLEAN
  OBVIOUS
<1>4. QED
  BY <1>1, <1>2, <1>3 DEF CountersType

(* Post.split moves the counts with the posts, and removes a topic only    *)
(* with its last post.                                                     *)
LEMMA SplitKeeps ==
    ASSUME IInv, NEW t \in TopicIds, NEW n \in TopicIds \ {t},
           TopicExists(t), TopicExists(n),
           NEW P \in SUBSET PostsOf(t), P # {},
           NEW seen, seen[topic[t].forum].posts \in Int,
           seen[topic[n].forum].posts \in Int,
           Split(P, t, n, seen), UNCHANGED <<nextTopic, nextPost>>
    PROVE  /\ TablesType' /\ RowsOK' /\ TopicPostCount' /\ PositionsInOrder'
           /\ leak' \in [posts : [Forums -> Int], topics : [Forums -> Int],
                         users : [Users -> Int], last : SUBSET Forums,
                         spread : BOOLEAN]
<1>1. PICK f \in Forums, g \in Forums : f = topic[t].forum /\ g = topic[n].forum
  BY DEF IInv, TypeOK, TablesType, TopicRow, TopicExists
<1> DEFINE A == PostsOf(t)
           removed == Cardinality(P) = topic[t].count
<1>2. TablesType /\ RowsOK /\ TopicPostCount /\ PositionsInOrder /\ CountersType
  BY DEF IInv, TypeOK
<1>3. /\ A \in SUBSET PostIds /\ IsFiniteSet(A) /\ Cardinality(A) \in Nat
      /\ P \in SUBSET PostIds /\ IsFiniteSet(P) /\ Cardinality(P) \in Nat
      /\ PostsOf(n) \in SUBSET PostIds /\ IsFiniteSet(PostsOf(n))
      /\ Cardinality(PostsOf(n)) \in Nat
  BY PostsOfType, IdsFinite
<1>4. /\ post' \in [PostIds -> PostRow]
      /\ PostsOf(t)' = A \ P
      /\ PostsOf(n)' = PostsOf(n) \cup P
      /\ \A s \in TopicIds \ {t, n} : PostsOf(s)' = PostsOf(s)
      /\ PositionsInOrder'
      /\ \A q \in PostIds : PostExists(q)' => PostExists(q)
  <2>1. post' = Renumbered(P, t, n)
    BY DEF Split
  <2>2. QED
    BY <2>1, RenumberedKeeps
<1>5. PICK any \in PostIds : topic' = SplitTopics(P, t, n, any)
  BY DEF Split
<1>6. /\ topic' \in [TopicIds -> TopicRow]
      /\ \A s \in TopicIds \ {t, n} : topic'[s] = topic[s]
      /\ topic'[n].forum = topic[n].forum
      /\ topic'[n].count = topic[n].count + Cardinality(P)
      /\ IF removed
         THEN topic'[t] = BlankTopic
         ELSE /\ topic'[t].forum = topic[t].forum
              /\ topic'[t].count = topic[t].count - Cardinality(P)
  BY <1>2, <1>3, <1>5, SplitTopicsRows
<1>7. removed <=> A \ P = {}
  <2>1. topic[t].count = Cardinality(A)
    BY <1>2 DEF TopicPostCount
  <2>2. Cardinality(P) = Cardinality(A) => P = A
    BY <1>3, FS_Subset
  <2>3. A \ P = {} => P = A
    OBVIOUS
  <2>4. QED
    BY <2>1, <2>2, <2>3
<1>8. TablesType'
  <2>1. forum' \in [Forums -> ForumRow]
    <3>1. PICK some \in PostIds \cup {NoPost} :
             forum' = LET fs == SplitForums(P, f, g, seen, some) IN
                      IF removed THEN WithoutTopic(fs, f, t, post') ELSE fs
      BY <1>1 DEF Split
    <3>2. SplitForums(P, f, g, seen, some) \in [Forums -> ForumRow]
      BY <1>1, <1>2, <1>3, SplitForumsType
    <3>3. QED
      BY <3>1, <3>2, WithoutTopicType
  <2>2. userPosts' \in [Users -> Int]
    <3> DEFINE stay(u) == Cardinality(OwnPosts(u, t) \ P)
    <3>1. userPosts' = [u \in Users |-> userPosts[u] +
             CASE f = g -> 0
               [] g \in UserCountPosts /\ f \notin UserCountPosts -> stay(u)
               [] g \notin UserCountPosts /\ f \in UserCountPosts -> -stay(u)
               [] OTHER -> 0]
      BY <1>1 DEF Split, SplitUsers
    <3>2. \A u \in Users : stay(u) \in Int
      BY IdsFinite DEF OwnPosts, PostsOf
    <3> HIDE DEF stay
    <3>3. QED
      BY <1>2, <3>1, <3>2 DEF TablesType
  <2>3. QED
    BY <1>4, <1>6, <2>1, <2>2 DEF TablesType
<1>9. RowsOK'
  <2>1. ASSUME NEW q \in PostIds, PostExists(q)'
        PROVE  q < nextPost' /\ TopicExists(post[q].topic)'
    <3>1. PostExists(q) /\ q < nextPost
      BY <1>2, <1>4, <2>1 DEF RowsOK
    <3>2. PICK s \in TopicIds : s = post'[q].topic /\ q \in PostsOf(s)'
      BY <1>4, <2>1 DEF PostExists, PostRow, PostsOf
    <3>3. TopicExists(s)'
      <4>1. CASE s = t
        BY <1>1, <1>4, <1>6, <1>7, <3>2, <4>1, ForumsAssumption DEF TopicExists
      <4>2. CASE s = n
        BY <1>1, <1>6, <4>2, ForumsAssumption DEF TopicExists
      <4>3. CASE s \in TopicIds \ {t, n}
        <5>1. post[q].topic = s
          BY <1>4, <3>2, <4>3 DEF PostsOf
        <5>2. QED
          BY <1>2, <1>6, <3>1, <4>3, <5>1 DEF RowsOK, TopicExists
      <4>4. QED
        BY <4>1, <4>2, <4>3
    <3>4. QED
      BY <3>1, <3>2, <3>3 DEF TopicExists
  <2>2. ASSUME NEW s \in TopicIds, TopicExists(s)' PROVE s < nextTopic'
    <3>1. TopicExists(s)
      BY <1>6, <2>2 DEF TopicExists
    <3>2. QED
      BY <1>2, <3>1 DEF RowsOK
  <2>3. QED
    BY <2>1, <2>2 DEF RowsOK
<1>10. TopicPostCount'
  <2>1. topic[t].count = Cardinality(A) /\ topic[n].count = Cardinality(PostsOf(n))
    BY <1>2 DEF TopicPostCount
  <2>2. Cardinality(A \ P) = Cardinality(A) - Cardinality(P)
    <3>1. A \cap P = P
      OBVIOUS
    <3>2. QED
      BY <1>3, <3>1, FS_Difference
  <2>3. Cardinality(PostsOf(n) \cup P) = Cardinality(PostsOf(n)) + Cardinality(P)
    <3>1. PostsOf(n) \cap P = {}
      BY DEF PostsOf
    <3>2. Cardinality({}) = 0
      BY FS_EmptySet
    <3>3. Cardinality(PostsOf(n) \cup P)
              = Cardinality(PostsOf(n)) + Cardinality(P) - Cardinality({})
      BY <1>3, <3>1, FS_Union
    <3>4. QED
      BY <1>3, <3>2, <3>3
  <2>4. topic'[n].count = Cardinality(PostsOf(n)')
    BY <1>4, <1>6, <2>1, <2>3
  <2>5. topic'[t].count = Cardinality(PostsOf(t)')
    <3>1. CASE removed
      <4>1. PostsOf(t)' = {} /\ topic'[t].count = 0
        BY <1>4, <1>6, <1>7, <3>1 DEF BlankTopic
      <4>2. QED
        BY <4>1, FS_EmptySet
    <3>2. CASE ~removed
      BY <1>4, <1>6, <2>1, <2>2, <3>2
    <3>3. QED
      BY <3>1, <3>2
  <2>6. \A s \in TopicIds \ {t, n} : topic'[s].count = Cardinality(PostsOf(s)')
    BY <1>2, <1>4, <1>6 DEF TopicPostCount
  <2>7. QED
    BY <2>4, <2>5, <2>6 DEF TopicPostCount
<1>11. leak' \in [posts : [Forums -> Int], topics : [Forums -> Int],
                  users : [Users -> Int], last : SUBSET Forums,
                  spread : BOOLEAN]
  <2> DEFINE S == {h \in Forums : removed /\ h \in Chain[f] /\ IsCategory(h)}
  <2>1. leak' = [leak EXCEPT
                    !.topics = [h \in Forums |-> leak.topics[h] +
                                   IF h \in S THEN 1 ELSE 0],
                    !.spread = @ \/ f # g]
    BY <1>1 DEF Split
  <2>2. (f # g) \in BOOLEAN
    OBVIOUS
  <2> HIDE DEF S
  <2>3. S \in SUBSET Forums
    BY DEF S
  <2>4. QED
    BY <1>2, <2>1, <2>2, <2>3, LeakType
<1>12. QED
  BY <1>4, <1>8, <1>9, <1>10, <1>11

(* A new topic row, without a post yet.                                    *)
LEMMA NewTopicKeeps ==
    ASSUME IInv, NEW n, n = nextTopic, n <= MaxTopics, NEW f \in Forums,
           topic' = [topic EXCEPT ![n] = [BlankTopic EXCEPT !.forum = f]],
           nextTopic' = n + 1, UNCHANGED <<post, nextPost>>
    PROVE  /\ n \in TopicIds /\ ~TopicExists(n)
           /\ PostsOf(n)' = {}
           /\ TopicExists(n)'
           /\ \A s \in TopicIds : TopicExists(s) => TopicExists(s)'
           /\ topic' \in [TopicIds -> TopicRow] /\ nextTopic' \in Nat \ {0}
           /\ RowsOK' /\ TopicPostCount' /\ PositionsInOrder'
<1>2. /\ TablesType /\ RowsOK /\ TopicPostCount /\ PositionsInOrder
      /\ n \in Nat \ {0}
  BY DEF IInv, TypeOK, CountersType
<1>3. n \in TopicIds /\ nextTopic' \in Nat \ {0} /\ n < nextTopic'
      /\ ~TopicExists(n)
  BY <1>2, BoundsAssumption DEF TopicIds, RowsOK
<1> DEFINE row == [BlankTopic EXCEPT !.forum = f]
<1>4. row \in TopicRow /\ row.count = 0 /\ row.forum = f
  BY DEF BlankTopic, TopicRow
<1>5. topic' = [topic EXCEPT ![n] = row]
  OBVIOUS
<1> HIDE DEF row
<1>6. /\ topic' \in [TopicIds -> TopicRow]
      /\ topic'[n] = row
      /\ \A s \in TopicIds \ {n} : topic'[s] = topic[s]
  BY <1>2, <1>3, <1>4, <1>5 DEF TablesType
<1>7. \A s \in TopicIds : PostsOf(s)' = PostsOf(s)
  BY DEF PostsOf
<1>8. PostsOf(n) = {}
  BY <1>2, <1>3 DEF PostsOf, RowsOK, PostExists, TopicIds, NoTopic
<1>9. f # Null
  BY ForumsAssumption
<1>10. \A s \in TopicIds : TopicExists(s) => TopicExists(s)'
  BY <1>3, <1>6 DEF TopicExists
<1>11. TopicExists(n)'
  BY <1>4, <1>6, <1>9 DEF TopicExists
<1>12. RowsOK'
  <2>1. ASSUME NEW q \in PostIds, PostExists(q)'
        PROVE  q < nextPost' /\ TopicExists(post[q].topic)'
    <3>1. PostExists(q)
      BY <2>1 DEF PostExists
    <3>2. PICK s \in TopicIds : s = post[q].topic
      BY <1>2, <3>1 DEF TablesType, PostRow, PostExists
    <3>3. q < nextPost /\ TopicExists(s)
      BY <1>2, <3>1, <3>2 DEF RowsOK
    <3>4. TopicExists(s)'
      BY <1>10, <3>3
    <3>5. QED
      BY <3>2, <3>3, <3>4 DEF TopicExists
  <2>2. ASSUME NEW s \in TopicIds, TopicExists(s)' PROVE s < nextTopic'
    <3>1. CASE s = n
      BY <1>3, <3>1
    <3>2. CASE s # n
      <4>1. s < n
        BY <1>2, <1>6, <2>2, <3>2 DEF RowsOK, TopicExists
      <4>2. QED
        BY <1>2, <4>1 DEF TopicIds
    <3>3. QED
      BY <3>1, <3>2
  <2>3. QED
    BY <2>1, <2>2 DEF RowsOK
<1>13. TopicPostCount'
  <2>1. topic'[n].count = Cardinality(PostsOf(n)')
    BY <1>3, <1>4, <1>6, <1>7, <1>8, FS_EmptySet
  <2>2. \A s \in TopicIds \ {n} : topic'[s].count = Cardinality(PostsOf(s)')
    BY <1>2, <1>6, <1>7 DEF TopicPostCount
  <2>3. QED
    BY <2>1, <2>2 DEF TopicPostCount
<1>14. PositionsInOrder'
  <2>1. \A s \in TopicIds : \A q \in PostsOf(s)' :
           post'[q].pos = Rank(q, PostsOf(s)')
    BY <1>2, <1>7 DEF PositionsInOrder
  <2>2. QED
    BY <2>1 DEF PositionsInOrder, Rank
<1>15. PostsOf(n)' = {}
  BY <1>3, <1>7, <1>8
<1>16. QED
  BY <1>3, <1>6, <1>10, <1>11, <1>12, <1>13, <1>14, <1>15

-----------------------------------------------------------------------------
(* Each action preserves the invariant.                                    *)

(* A step that writes neither a topic nor a post.                          *)
LEMMA SameRowsKeep ==
    ASSUME IInv, UNCHANGED <<topic, post, nextTopic, nextPost>>
    PROVE  /\ RowsOK' /\ TopicPostCount' /\ PositionsInOrder'
           /\ \A s \in TopicIds : PostsOf(s)' = PostsOf(s)
           /\ \A s \in TopicIds : TopicExists(s)' <=> TopicExists(s)
<1>1. \A s \in TopicIds : PostsOf(s)' = PostsOf(s)
  BY DEF PostsOf
<1>2. \A s \in TopicIds : TopicExists(s)' <=> TopicExists(s)
  BY DEF TopicExists
<1>3. RowsOK'
  BY DEF IInv, RowsOK, PostExists, TopicExists
<1>4. TopicPostCount'
  BY <1>1 DEF IInv, TopicPostCount
<1>5. PositionsInOrder'
  <2>1. \A s \in TopicIds : \A q \in PostsOf(s)' :
           post'[q].pos = Rank(q, PostsOf(s)')
    BY <1>1 DEF IInv, PositionsInOrder
  <2>2. QED
    BY <2>1 DEF PositionsInOrder, Rank
<1>6. QED
  BY <1>1, <1>2, <1>3, <1>4, <1>5

LEMMA AddTopicsType ==
    ASSUME TablesType, NEW S, NEW n \in Int
    PROVE  AddTopics(S, n) \in [Forums -> ForumRow]
<1>1. \A f \in Forums : forum[f] \in ForumRow /\ forum[f].topics + n \in Int
  BY DEF TablesType, ForumRow
<1>2. \A f \in Forums : [forum[f] EXCEPT !.topics = @ + n] \in ForumRow
  BY <1>1, ForumCountsWrite
<1>3. QED
  BY <1>1, <1>2 DEF AddTopics

LEMMA CreateTopicKeeps ==
    ASSUME IInv, NEW f \in Forums, CreateTopic(f)
    PROVE  IInv'
<1>1. PICK n : n = nextTopic
  OBVIOUS
<1>2. /\ n <= MaxTopics /\ nextTopic' = n + 1
      /\ topic' = [topic EXCEPT ![n] = [BlankTopic EXCEPT !.forum = f]]
      /\ forum' = AddTopics(Chain[f], 1)
      /\ req' = [Idle EXCEPT !.op = "post", !.topic = n]
      /\ UNCHANGED <<post, userPosts, nextPost, moderations, leak>>
  BY <1>1 DEF CreateTopic
<1>3. /\ n \in TopicIds /\ PostsOf(n)' = {} /\ TopicExists(n)'
      /\ topic' \in [TopicIds -> TopicRow] /\ nextTopic' \in Nat \ {0}
      /\ RowsOK' /\ TopicPostCount' /\ PositionsInOrder'
  BY <1>1, <1>2, NewTopicKeeps
<1>4. TablesType'
  <2>1. forum' \in [Forums -> ForumRow]
    BY <1>2, AddTopicsType DEF IInv, TypeOK
  <2>2. QED
    BY <1>2, <1>3, <2>1 DEF IInv, TypeOK, TablesType
<1>5. ReqType' /\ CountersType'
  BY <1>2, <1>3 DEF ReqType, CountersType, Idle, IInv, TypeOK
<1>6. ReqOK'
  BY <1>2, <1>3 DEF ReqOK, Idle, PostsOf, TopicExists
<1>7. QED
  BY <1>3, <1>4, <1>5, <1>6 DEF IInv, TypeOK

LEMMA CreatePostKeeps ==
    ASSUME IInv, NEW u \in Users, CreatePost(u)
    PROVE  IInv'
<1>1. PICK t \in TopicIds : t = req.topic
  BY DEF CreatePost, IInv, ReqOK
<1>2. TopicExists(t) /\ Cardinality(PostsOf(t)) = 0
  BY <1>1, FS_EmptySet DEF CreatePost, IInv, ReqOK
<1>3. InsertPost(t, u, Cardinality(PostsOf(t)))
  BY <1>1, <1>2 DEF CreatePost
<1>4. req' = Idle /\ UNCHANGED <<nextTopic, moderations, leak>>
  BY DEF CreatePost
<1>5. /\ TablesType' /\ nextPost' \in Nat \ {0}
      /\ RowsOK' /\ TopicPostCount' /\ PositionsInOrder'
  BY <1>2, <1>3, <1>4, InsertKeeps
<1>6. TypeOK'
  BY <1>4, <1>5 DEF IInv, TypeOK, ReqType, CountersType, Idle
<1>7. ReqOK'
  BY <1>4 DEF ReqOK, Idle
<1>8. QED
  BY <1>5, <1>6, <1>7 DEF IInv

LEMMA ReplyKeeps ==
    ASSUME IInv, NEW t \in TopicIds, NEW u \in Users, Reply(t, u)
    PROVE  IInv'
<1>1. TopicExists(t) /\ req = Idle
      /\ UNCHANGED <<req, nextTopic, moderations, leak>>
  BY DEF Reply
<1>2. InsertPost(t, u, Cardinality(PostsOf(t)))
  BY NextPositionIs DEF Reply, IInv, TypeOK
<1>3. /\ TablesType' /\ nextPost' \in Nat \ {0}
      /\ RowsOK' /\ TopicPostCount' /\ PositionsInOrder'
  BY <1>1, <1>2, InsertKeeps
<1>4. TypeOK'
  BY <1>1, <1>3 DEF IInv, TypeOK, ReqType, CountersType
<1>5. ReqOK'
  BY <1>1 DEF ReqOK, Idle
<1>6. QED
  BY <1>3, <1>4, <1>5 DEF IInv

LEMMA MoveOutKeeps ==
    ASSUME IInv, NEW t \in TopicIds, NEW g \in Forums, MoveOut(t, g)
    PROVE  IInv'
<1> DEFINE c == Chain[topic[t].forum]
<1>1. /\ TopicExists(t)
      /\ forum' = [h \in Forums |->
                      IF h \in c
                      THEN [forum[h] EXCEPT !.topics = @ - 1,
                                            !.posts  = @ - topic[t].count]
                      ELSE forum[h]]
      /\ req' = [Idle EXCEPT !.op = "set", !.topic = t, !.to = g]
      /\ moderations' = moderations + 1
      /\ UNCHANGED <<topic, post, userPosts, nextTopic, nextPost, leak>>
  BY DEF MoveOut
<1> HIDE DEF c
<1>2. /\ RowsOK' /\ TopicPostCount' /\ PositionsInOrder'
      /\ TopicExists(t)'
  BY <1>1, SameRowsKeep
<1>3. forum' \in [Forums -> ForumRow]
  <2>1. \A h \in Forums : forum[h] \in ForumRow
           /\ forum[h].topics - 1 \in Int /\ forum[h].posts - topic[t].count \in Int
    BY DEF IInv, TypeOK, TablesType, ForumRow, TopicRow
  <2>2. \A h \in Forums : [forum[h] EXCEPT !.topics = @ - 1,
                              !.posts = @ - topic[t].count] \in ForumRow
    BY <2>1, ForumCountsWrite
  <2>3. QED
    BY <1>1, <2>1, <2>2
<1>4. TypeOK'
  <2>1. TablesType'
    BY <1>1, <1>3 DEF IInv, TypeOK, TablesType
  <2>2. ReqType'
    BY <1>1 DEF ReqType, Idle
  <2>3. CountersType'
    <3>1. CountersType /\ moderations' = moderations + 1
          /\ UNCHANGED <<nextTopic, nextPost, leak>>
      BY <1>1 DEF IInv, TypeOK
    <3>2. QED
      BY <3>1 DEF CountersType
  <2>4. QED
    BY <2>1, <2>2, <2>3 DEF TypeOK
<1>5. ReqOK'
  BY <1>1, <1>2 DEF ReqOK, Idle, TopicExists
<1>6. QED
  BY <1>2, <1>4, <1>5 DEF IInv

LEMMA MoveSetKeeps ==
    ASSUME IInv, MoveSet
    PROVE  IInv'
<1>1. PICK t \in TopicIds, g \in Forums :
         t = req.topic /\ g = req.to /\ TopicExists(t)
  BY DEF MoveSet, IInv, ReqOK
<1>2. /\ topic' = [topic EXCEPT ![t].forum = g]
      /\ req.op = "set"
      /\ req' = [req EXCEPT !.op = "in", !.from = topic[t].forum]
      /\ UNCHANGED <<forum, post, userPosts, nextTopic, nextPost, moderations,
                     leak>>
  BY <1>1 DEF MoveSet
<1>3. TypeOK /\ RowsOK /\ TopicPostCount /\ PositionsInOrder
  BY DEF IInv
<1>4. topic[t] \in TopicRow /\ [topic[t] EXCEPT !.forum = g] \in TopicRow
  BY <1>3 DEF TypeOK, TablesType, TopicRow
<1>5. /\ topic' \in [TopicIds -> TopicRow]
      /\ topic'[t].forum = g
      /\ \A s \in TopicIds : topic'[s].count = topic[s].count
      /\ \A s \in TopicIds \ {t} : topic'[s] = topic[s]
  <2>1. topic' = [topic EXCEPT ![t] = [topic[t] EXCEPT !.forum = g]]
    BY <1>2
  <2>2. QED
    BY <1>3, <1>4, <2>1 DEF TypeOK, TablesType, TopicRow
<1>6. \A s \in TopicIds : TopicExists(s)' <=> TopicExists(s)
  BY <1>1, <1>5, ForumsAssumption DEF TopicExists
<1>7. \A s \in TopicIds : PostsOf(s)' = PostsOf(s)
  BY <1>2 DEF PostsOf
<1>8. RowsOK'
  <2>1. ASSUME NEW q \in PostIds, PostExists(q)'
        PROVE  q < nextPost' /\ TopicExists(post[q].topic)'
    <3>1. PostExists(q)
      BY <1>2, <2>1 DEF PostExists
    <3>2. PICK s \in TopicIds : s = post[q].topic
      BY <1>3, <3>1 DEF TypeOK, TablesType, PostRow, PostExists
    <3>3. q < nextPost /\ TopicExists(s)'
      BY <1>3, <1>6, <3>1, <3>2 DEF RowsOK
    <3>4. QED
      BY <1>2, <3>2, <3>3 DEF TopicExists
  <2>2. \A s \in TopicIds : TopicExists(s)' => s < nextTopic'
    BY <1>2, <1>3, <1>6 DEF RowsOK
  <2>3. QED
    BY <2>1, <2>2 DEF RowsOK
<1>9. TopicPostCount'
  BY <1>3, <1>5, <1>7 DEF TopicPostCount
<1>10. PositionsInOrder'
  <2>1. \A s \in TopicIds : \A q \in PostsOf(s)' :
           post'[q].pos = Rank(q, PostsOf(s)')
    BY <1>2, <1>3, <1>7 DEF PositionsInOrder
  <2>2. QED
    BY <2>1 DEF PositionsInOrder, Rank
<1>11. TypeOK'
  BY <1>2, <1>3, <1>4, <1>5
     DEF TypeOK, TablesType, ReqType, CountersType, TopicRow
<1>12. ReqOK'
  <2>1. req'.op = "in" /\ req'.topic = t
    BY <1>1, <1>2, <1>3 DEF TypeOK, ReqType
  <2>2. TopicExists(t)'
    BY <1>1, <1>6
  <2>3. QED
    BY <2>1, <2>2 DEF ReqOK, TopicExists
<1>13. QED
  BY <1>8, <1>9, <1>10, <1>11, <1>12 DEF IInv

LEMMA MoveInKeeps ==
    ASSUME IInv, MoveIn
    PROVE  IInv'
<1>1. PICK t \in TopicIds : t = req.topic /\ TopicExists(t)
  BY DEF MoveIn, IInv, ReqOK
<1> DEFINE c == Chain[topic[t].forum]
<1>2. /\ forum' = [h \in Forums |->
                      IF h \in c
                      THEN [forum[h] EXCEPT !.topics = @ + 1,
                                            !.posts  = @ + topic[t].count]
                      ELSE forum[h]]
      /\ req' = [req EXCEPT !.op = "users"]
      /\ UNCHANGED <<topic, post, userPosts, nextTopic, nextPost, moderations,
                     leak>>
  BY <1>1 DEF MoveIn
<1> HIDE DEF c
<1>3. RowsOK' /\ TopicPostCount' /\ PositionsInOrder' /\ TopicExists(t)'
  BY <1>1, <1>2, SameRowsKeep
<1>4. forum' \in [Forums -> ForumRow]
  <2>1. \A h \in Forums : forum[h] \in ForumRow
           /\ forum[h].topics + 1 \in Int /\ forum[h].posts + topic[t].count \in Int
    BY DEF IInv, TypeOK, TablesType, ForumRow, TopicRow
  <2>2. \A h \in Forums : [forum[h] EXCEPT !.topics = @ + 1,
                              !.posts = @ + topic[t].count] \in ForumRow
    BY <2>1, ForumCountsWrite
  <2>3. QED
    BY <1>2, <2>1, <2>2
<1>5. TypeOK'
  BY <1>2, <1>4 DEF IInv, TypeOK, TablesType, ReqType, CountersType
<1>6. ReqOK'
  <2>1. req'.op = "users" /\ req'.topic = t
    BY <1>1, <1>2 DEF IInv, TypeOK, ReqType
  <2>2. QED
    BY <1>3, <2>1 DEF ReqOK, TopicExists
<1>7. QED
  BY <1>3, <1>5, <1>6 DEF IInv

LEMMA UserShareType ==
    ASSUME NEW u, NEW t, NEW f, NEW g
    PROVE  UserShare(u, t, f, g) \in Int
<1>1. Cardinality(OwnPosts(u, t)) \in Nat
  BY IdsFinite DEF OwnPosts, PostsOf
<1>2. QED
  BY <1>1 DEF UserShare

LEMMA MoveUsersKeeps ==
    ASSUME IInv, MoveUsers
    PROVE  IInv'
<1>1. PICK t \in TopicIds : t = req.topic /\ TopicExists(t)
  BY DEF MoveUsers, IInv, ReqOK
<1> DEFINE share(u) == UserShare(u, req.topic, req.from, req.to)
<1>2. /\ userPosts' = [u \in Users |-> userPosts[u] + share(u)]
      /\ req' = [req EXCEPT !.op = "last"]
      /\ UNCHANGED <<forum, topic, post, nextTopic, nextPost, moderations, leak>>
  BY DEF MoveUsers
<1>3. RowsOK' /\ TopicPostCount' /\ PositionsInOrder' /\ TopicExists(t)'
  BY <1>1, <1>2, SameRowsKeep
<1>4. \A u \in Users : share(u) \in Int
  BY UserShareType
<1> HIDE DEF share
<1>5. userPosts' \in [Users -> Int]
  BY <1>2, <1>4 DEF IInv, TypeOK, TablesType
<1>6. TypeOK'
  BY <1>2, <1>5 DEF IInv, TypeOK, TablesType, ReqType, CountersType
<1>7. ReqOK'
  <2>1. req'.op = "last" /\ req'.topic = t
    BY <1>1, <1>2 DEF IInv, TypeOK, ReqType
  <2>2. QED
    BY <1>3, <2>1 DEF ReqOK, TopicExists
<1>8. QED
  BY <1>3, <1>6, <1>7 DEF IInv

LEMMA MoveLastKeeps ==
    ASSUME IInv, MoveLast
    PROVE  IInv'
<1> DEFINE b == BelowCategory(req.to) \cup BelowCategory(req.from)
           new(g) == Newest({q \in PostIds :
                        PostExists(q) /\ topic[post[q].topic].forum = g})
<1>1. /\ forum' = [g \in Forums |->
                      IF g \in b THEN [forum[g] EXCEPT !.last = new(g)]
                      ELSE forum[g]]
      /\ req' = Idle
      /\ UNCHANGED <<topic, post, userPosts, nextTopic, nextPost, moderations,
                     leak>>
  BY DEF MoveLast
<1>2. RowsOK' /\ TopicPostCount' /\ PositionsInOrder'
  BY <1>1, SameRowsKeep
<1>3. \A g \in Forums : new(g) \in PostIds \cup {NoPost}
  BY NewestType
<1> HIDE DEF b, new
<1>4. forum' \in [Forums -> ForumRow]
  <2>1. \A g \in Forums : forum[g] \in ForumRow
    BY DEF IInv, TypeOK, TablesType
  <2>2. \A g \in Forums : [forum[g] EXCEPT !.last = new(g)] \in ForumRow
    BY <1>3, <2>1 DEF ForumRow
  <2>3. QED
    BY <1>1, <2>1, <2>2
<1>5. TypeOK'
  BY <1>1, <1>4 DEF IInv, TypeOK, TablesType, ReqType, CountersType, Idle
<1>6. ReqOK'
  BY <1>1 DEF ReqOK, Idle
<1>7. QED
  BY <1>2, <1>5, <1>6 DEF IInv

LEMMA SplitNewKeeps ==
    ASSUME IInv, NEW t \in TopicIds, NEW P \in SUBSET PostIds,
           NEW g \in Forums, SplitNew(t, P, g)
    PROVE  IInv'
<1>1. PICK n : n = nextTopic
  OBVIOUS
<1>2. TopicExists(t) /\ P # {} /\ P \subseteq PostsOf(t)
      /\ moderations' = moderations + 1
  BY DEF SplitNew, MaySplit
<1>3. /\ n <= MaxTopics /\ nextTopic' = n + 1
      /\ topic' = [topic EXCEPT ![n] = [BlankTopic EXCEPT !.forum = g]]
      /\ forum' = AddTopics(Chain[g], 1)
      /\ req' = [Idle EXCEPT !.op = "count", !.topic = t, !.new = n,
                             !.to = g, !.posts = P]
      /\ UNCHANGED <<post, userPosts, nextPost, leak>>
  BY <1>1 DEF SplitNew
<1>4. /\ n \in TopicIds /\ ~TopicExists(n) /\ TopicExists(n)' /\ TopicExists(t)'
      /\ topic' \in [TopicIds -> TopicRow] /\ nextTopic' \in Nat \ {0}
      /\ RowsOK' /\ TopicPostCount' /\ PositionsInOrder'
  BY <1>1, <1>2, <1>3, NewTopicKeeps
<1>5. forum' \in [Forums -> ForumRow]
  BY <1>3, AddTopicsType DEF IInv, TypeOK
<1>6. TypeOK'
  <2>1. TablesType'
    BY <1>3, <1>4, <1>5 DEF IInv, TypeOK, TablesType
  <2>2. ReqType'
    BY <1>3, <1>4 DEF ReqType, Idle
  <2>3. CountersType'
    BY <1>2, <1>3, <1>4 DEF IInv, TypeOK, CountersType
  <2>4. QED
    BY <2>1, <2>2, <2>3 DEF TypeOK
<1>7. ReqOK'
  <2>1. /\ req'.op = "count" /\ req'.topic = t /\ req'.new = n
        /\ req'.to = g /\ req'.posts = P
    BY <1>3 DEF Idle
  <2>2. n # t
    BY <1>2, <1>4
  <2>3. PostsOf(t)' = PostsOf(t)
    BY <1>3 DEF PostsOf
  <2>4. P \subseteq PostsOf(t)'
    BY <1>2, <2>3
  <2>5. QED
    BY <1>2, <1>4, <2>1, <2>2, <2>4 DEF ReqOK, TopicExists, PostsOf
<1>8. QED
  BY <1>4, <1>6, <1>7 DEF IInv

LEMMA SplitCountKeeps ==
    ASSUME IInv, SplitCount
    PROVE  IInv'
<1>1. PICK g \in Forums : g = req.to
  BY DEF SplitCount, IInv, ReqOK
<1>2. /\ req.op = "count"
      /\ forum' = AddTopics({g}, 1)
      /\ leak' = [leak EXCEPT !.topics[g] = @ + 1]
      /\ req' = [req EXCEPT !.op = "split"]
      /\ UNCHANGED <<topic, post, userPosts, nextTopic, nextPost, moderations>>
  BY <1>1 DEF SplitCount
<1>3. /\ RowsOK' /\ TopicPostCount' /\ PositionsInOrder'
      /\ \A s \in TopicIds : PostsOf(s)' = PostsOf(s)
      /\ \A s \in TopicIds : TopicExists(s)' <=> TopicExists(s)
  BY <1>2, SameRowsKeep
<1>4. forum' \in [Forums -> ForumRow]
  BY <1>2, AddTopicsType DEF IInv, TypeOK
<1>5. TypeOK'
  <2>1. TablesType'
    BY <1>2, <1>4 DEF IInv, TypeOK, TablesType
  <2>2. ReqType'
    BY <1>2 DEF IInv, TypeOK, ReqType
  <2>3. CountersType'
    BY <1>2 DEF IInv, TypeOK, CountersType
  <2>4. QED
    BY <2>1, <2>2, <2>3 DEF TypeOK
<1>6. ReqOK'
  <2>1. PICK t \in TopicIds, n \in TopicIds, P \in SUBSET PostIds :
           /\ t = req.topic /\ n = req.new /\ P = req.posts
           /\ TopicExists(t) /\ n # t /\ TopicExists(n)
           /\ P # {} /\ P \subseteq PostsOf(t)
    BY <1>2 DEF IInv, TypeOK, ReqType, ReqOK
  <2>2. /\ req'.op = "split" /\ req'.topic = t /\ req'.new = n
        /\ req'.posts = P
    BY <1>2, <2>1 DEF IInv, TypeOK, ReqType
  <2>3. P \subseteq PostsOf(t)' /\ TopicExists(t)' /\ TopicExists(n)'
    BY <1>3, <2>1
  <2>4. QED
    BY <2>1, <2>2, <2>3 DEF ReqOK, TopicExists, PostsOf
<1>7. QED
  BY <1>3, <1>5, <1>6 DEF IInv

(* The row of a forum that a topic is in has an integer post count.        *)
LEMMA ForumOfTopic ==
    ASSUME TablesType, NEW t \in TopicIds, TopicExists(t)
    PROVE  topic[t].forum \in Forums /\ forum[topic[t].forum].posts \in Int
BY DEF TablesType, TopicRow, TopicExists, ForumRow

LEMMA SplitPostsKeeps ==
    ASSUME IInv, SplitPosts
    PROVE  IInv'
<1>1. PICK t \in TopicIds, n \in TopicIds, P \in SUBSET PostIds :
         /\ t = req.topic /\ n = req.new /\ P = req.posts
         /\ n # t /\ P # {} /\ P \subseteq PostsOf(t)
         /\ TopicExists(t) /\ TopicExists(n)
  BY DEF SplitPosts, IInv, ReqOK, TypeOK, ReqType
<1>2. /\ Split(P, t, n, forum) /\ req' = Idle
      /\ UNCHANGED <<nextTopic, nextPost, moderations>>
  BY <1>1 DEF SplitPosts
<1>3. forum[topic[t].forum].posts \in Int /\ forum[topic[n].forum].posts \in Int
  BY <1>1, ForumOfTopic DEF IInv, TypeOK
<1>4. /\ TablesType' /\ RowsOK' /\ TopicPostCount' /\ PositionsInOrder'
      /\ leak' \in [posts : [Forums -> Int], topics : [Forums -> Int],
                    users : [Users -> Int], last : SUBSET Forums,
                    spread : BOOLEAN]
  <2>1. nextTopic' = nextTopic /\ nextPost' = nextPost
    BY <1>2
  <2>2. QED
    BY <1>1, <1>2, <1>3, <2>1, SplitKeeps
<1>5. TypeOK'
  <2>1. ReqType'
    BY <1>2 DEF ReqType, Idle
  <2>2. CountersType'
    BY <1>2, <1>4 DEF IInv, TypeOK, CountersType
  <2>3. QED
    BY <1>4, <2>1, <2>2 DEF TypeOK
<1>6. ReqOK'
  BY <1>2 DEF ReqOK, Idle
<1>7. QED
  BY <1>4, <1>5, <1>6 DEF IInv

LEMMA SplitIntoKeeps ==
    ASSUME IInv, NEW t \in TopicIds, NEW P \in SUBSET PostIds,
           NEW n \in TopicIds, SplitInto(t, P, n)
    PROVE  IInv'
<1>1. PICK f, g : f = topic[t].forum /\ g = topic[n].forum
  OBVIOUS
<1>2. /\ TopicExists(t) /\ TopicExists(n) /\ n # t
      /\ P # {} /\ P \subseteq PostsOf(t) /\ req = Idle
      /\ moderations' = moderations + 1
      /\ UNCHANGED <<req, nextTopic, nextPost>>
  BY DEF SplitInto, MaySplit
<1>3. PICK seen : /\ Split(P, t, n, seen)
                  /\ seen[f].posts \in Int /\ seen[g].posts \in Int
  <2>1. CASE Split(P, t, n, forum)
    BY <1>1, <1>2, <2>1, ForumOfTopic DEF IInv, TypeOK
  <2>2. CASE \E old \in [{f, g} -> OldRows] : Split(P, t, n, old)
    <3>1. \A r \in OldRows : r.posts \in Int
      BY BoundsAssumption
    <3>2. PICK old \in [{f, g} -> OldRows] : Split(P, t, n, old)
      BY <2>2
    <3>3. old[f] \in OldRows /\ old[g] \in OldRows
      OBVIOUS
    <3>4. QED
      BY <3>1, <3>2, <3>3
  <2>3. QED
    BY <1>1, <2>1, <2>2 DEF SplitInto
<1>4. /\ TablesType' /\ RowsOK' /\ TopicPostCount' /\ PositionsInOrder'
      /\ leak' \in [posts : [Forums -> Int], topics : [Forums -> Int],
                    users : [Users -> Int], last : SUBSET Forums,
                    spread : BOOLEAN]
  <2>1. nextTopic' = nextTopic /\ nextPost' = nextPost
    BY <1>2
  <2>2. QED
    BY <1>1, <1>2, <1>3, <2>1, SplitKeeps
<1>5. TypeOK'
  <2>1. ReqType'
    BY <1>2 DEF IInv, TypeOK, ReqType
  <2>2. CountersType'
    BY <1>2, <1>4 DEF IInv, TypeOK, CountersType
  <2>3. QED
    BY <1>4, <2>1, <2>2 DEF TypeOK
<1>6. ReqOK'
  BY <1>2 DEF ReqOK, Idle
<1>7. QED
  BY <1>4, <1>5, <1>6 DEF IInv

LEMMA CrashKeeps ==
    ASSUME IInv, Crash
    PROVE  IInv'
<1> DEFINE t == req.topic
           missing == CASE req.op = "set" -> Chain[topic[t].forum]
                        [] req.op = "in"  -> Chain[topic[t].forum]
                        [] OTHER          -> {}
           share(u) == UserShare(u, t, req.from, req.to)
           ps == [f \in Forums |-> leak.posts[f] -
                     IF f \in missing THEN topic[t].count ELSE 0]
           ts == [f \in Forums |-> leak.topics[f] -
                     IF f \in missing THEN 1 ELSE 0]
           us == [u \in Users |-> leak.users[u] -
                     IF req.op \in {"in", "users"} THEN share(u) ELSE 0]
           fs == leak.last \cup IF req.op \in {"in", "users", "last"}
                                THEN {topic[t].forum} ELSE {}
<1>1. /\ leak' = [leak EXCEPT !.posts = ps, !.topics = ts, !.users = us,
                               !.last = fs]
      /\ req' = Idle
      /\ UNCHANGED <<tables, nextTopic, nextPost, moderations>>
  BY DEF Crash
<1>2. UNCHANGED <<forum, topic, post, userPosts, nextTopic, nextPost, moderations>>
  BY <1>1 DEF tables
<1>3. RowsOK' /\ TopicPostCount' /\ PositionsInOrder'
  BY <1>2, SameRowsKeep
<1>4. TablesType /\ CountersType
  BY DEF IInv, TypeOK
<1>5. req.op # "idle" => t \in TopicIds /\ topic[t].forum \in Forums
                         /\ topic[t].count \in Int
  BY <1>4 DEF IInv, TypeOK, ReqType, ReqOK, TopicExists, TablesType, TopicRow
<1>6. \A u \in Users : share(u) \in Int
  BY UserShareType
<1> HIDE DEF share
<1>7. us \in [Users -> Int]
  BY <1>4, <1>6 DEF CountersType
<1>8. ts \in [Forums -> Int]
  <2> HIDE DEF missing
  <2> QED BY <1>4 DEF CountersType
<1>9. ps \in [Forums -> Int]
  <2>1. CASE req.op \in {"set", "in"}
    <3> HIDE DEF missing
    <3> QED BY <1>4, <1>5, <2>1 DEF CountersType
  <2>2. CASE req.op \notin {"set", "in"}
    <3>1. missing = {}
      BY <2>2
    <3> HIDE DEF missing
    <3>2. \A f \in Forums : leak.posts[f] \in Int
      BY <1>4 DEF CountersType
    <3>3. QED
      BY <3>1, <3>2
  <2>3. QED
    BY <2>1, <2>2
<1>10. fs \in SUBSET Forums
  BY <1>4, <1>5 DEF CountersType
<1> HIDE DEF ps, ts, us, fs
<1>11. TypeOK'
  <2>1. TablesType'
    BY <1>2, <1>4 DEF TablesType
  <2>2. ReqType'
    BY <1>1 DEF ReqType, Idle
  <2>3. CountersType'
    BY <1>1, <1>2, <1>4, <1>7, <1>8, <1>9, <1>10 DEF CountersType
  <2>4. QED
    BY <2>1, <2>2, <2>3 DEF TypeOK
<1>12. ReqOK'
  BY <1>1 DEF ReqOK, Idle
<1>13. QED
  BY <1>3, <1>11, <1>12 DEF IInv

-----------------------------------------------------------------------------
(* The theorems.                                                           *)

LEMMA InitKeeps == Init => IInv
<1> SUFFICES ASSUME Init PROVE IInv
  OBVIOUS
<1>1. TypeOK
  <2>1. TablesType
    BY DEF Init, TablesType, BlankTopic, BlankPost, TopicRow, PostRow, ForumRow
  <2>2. ReqType
    BY DEF Init, ReqType, Idle
  <2>3. CountersType
    BY DEF Init, CountersType
  <2>4. QED
    BY <2>1, <2>2, <2>3 DEF TypeOK
<1>2. RowsOK
  BY DEF Init, RowsOK, PostExists, TopicExists, BlankTopic, BlankPost
<1>3. ReqOK
  BY DEF Init, ReqOK, Idle
<1>4. \A t \in TopicIds : PostsOf(t) = {}
  BY DEF Init, PostsOf, BlankPost, TopicIds, NoTopic
<1>5. TopicPostCount
  BY <1>4, FS_EmptySet DEF Init, TopicPostCount, BlankTopic
<1>6. PositionsInOrder
  BY <1>4 DEF PositionsInOrder
<1>7. QED
  BY <1>1, <1>2, <1>3, <1>5, <1>6 DEF IInv

LEMMA StepKeeps == IInv /\ [Next]_vars => IInv'
<1> SUFFICES ASSUME IInv, [Next]_vars PROVE IInv'
  OBVIOUS
<1>1. ASSUME NEW f \in Forums, CreateTopic(f) PROVE IInv'
  BY <1>1, CreateTopicKeeps
<1>2. ASSUME NEW u \in Users, CreatePost(u) PROVE IInv'
  BY <1>2, CreatePostKeeps
<1>3. ASSUME NEW t \in TopicIds, NEW u \in Users, Reply(t, u) PROVE IInv'
  BY <1>3, ReplyKeeps
<1>4. ASSUME NEW p \in PostIds, DeletePost(p) PROVE IInv'
  BY <1>4, DeletePostKeeps
<1>5. ASSUME NEW t \in TopicIds, DeleteTopic(t) PROVE IInv'
  BY <1>5, DeleteTopicKeeps
<1>6. ASSUME NEW t \in TopicIds, NEW g \in Forums, MoveOut(t, g) PROVE IInv'
  BY <1>6, MoveOutKeeps
<1>7. CASE MoveSet
  BY <1>7, MoveSetKeeps
<1>8. CASE MoveIn
  BY <1>8, MoveInKeeps
<1>9. CASE MoveUsers
  BY <1>9, MoveUsersKeeps
<1>10. CASE MoveLast
  BY <1>10, MoveLastKeeps
<1>11. ASSUME NEW t \in TopicIds, NEW P \in SUBSET PostIds, NEW g \in Forums,
              SplitNew(t, P, g)
       PROVE  IInv'
  BY <1>11, SplitNewKeeps
<1>12. CASE SplitPosts
  BY <1>12, SplitPostsKeeps
<1>13. ASSUME NEW t \in TopicIds, NEW n \in TopicIds, NEW P \in SUBSET PostIds,
              SplitInto(t, P, n)
       PROVE  IInv'
  BY <1>13, SplitIntoKeeps
<1>14. CASE Crash
  BY <1>14, CrashKeeps
<1>15. CASE UNCHANGED vars
  <2>1. RowsOK' /\ TopicPostCount' /\ PositionsInOrder'
    BY <1>15, SameRowsKeep DEF vars
  <2>2. TypeOK'
    BY <1>15 DEF vars, IInv, TypeOK, TablesType, ReqType, CountersType
  <2>3. ReqOK'
    BY <1>15 DEF vars, IInv, ReqOK, PostsOf, TopicExists
  <2>4. QED
    BY <2>1, <2>2, <2>3 DEF IInv
<1>16. CASE SplitCount
  BY <1>16, SplitCountKeeps
<1>17. QED
  BY <1>1, <1>2, <1>3, <1>4, <1>5, <1>6, <1>7, <1>8, <1>9, <1>10, <1>11,
     <1>12, <1>13, <1>14, <1>15, <1>16 DEF Next

(* Every execution of the forum keeps the inductive invariant: rows are    *)
(* typed and refer to rows that are there, the request in progress works   *)
(* on existing rows, and topic counters and positions are exact.           *)
THEOREM InvariantHolds == Spec => []IInv
<1>1. Init => IInv
  BY InitKeeps
<1>2. IInv /\ [Next]_vars => IInv'
  BY StepKeeps
<1>3. QED
  BY <1>1, <1>2, PTL DEF Spec

(* No request writes a value outside the columns' types, in particular no  *)
(* position computed from an empty topic and no pointer that is not an id. *)
THEOREM TypesHold == Spec => []TypeOK
<1>1. IInv => TypeOK
  BY DEF IInv
<1>2. QED
  BY <1>1, InvariantHolds, PTL

(* For every forum tree, every order of requests, and crashes between any  *)
(* two commits, Topic.post_count is the number of the topic's posts.       *)
THEOREM TopicPostCountHolds == Spec => []TopicPostCount
<1>1. IInv => TopicPostCount
  BY DEF IInv
<1>2. QED
  BY <1>1, InvariantHolds, PTL

(* For every forum tree and every order of requests, positions are dense   *)
(* and follow the ids in each topic, so url_for_post finds the right page. *)
THEOREM PositionsHold == Spec => []PositionsInOrder
<1>1. IInv => PositionsInOrder
  BY DEF IInv
<1>2. QED
  BY <1>1, InvariantHolds, PTL

-----------------------------------------------------------------------------
(* First and last posts of topics.                                         *)

(* What LastPostsNotBehind says of one topic.                              *)
PointersOK(t) ==
    /\ topic[t].count > 0 => topic[t].first # NoPost
    /\ \A p \in PostsOf(t) : p <= topic[t].last

LEMMA PointersOfAll ==
    LastPostsNotBehind <=> \A t \in TopicIds : PointersOK(t)
BY DEF LastPostsNotBehind, FirstPostSet, TopicLastNotBehind, PointersOK

LEMMA PointersOfAllNext ==
    LastPostsNotBehind' <=> \A t \in TopicIds : PointersOK(t)'
BY DEF LastPostsNotBehind, FirstPostSet, TopicLastNotBehind, PointersOK

(* A topic whose row is the same and that has got no new post.             *)
LEMMA PointersKept ==
    ASSUME NEW t, PointersOK(t), topic'[t] = topic[t],
           \A p \in PostsOf(t)' : p \in PostsOf(t)
    PROVE  PointersOK(t)'
BY DEF PointersOK

LEMMA BlankPointers ==
    ASSUME NEW t, topic'[t].count = 0, PostsOf(t)' = {}
    PROVE  PointersOK(t)'
BY DEF PointersOK

(* A step that leaves posts and the columns of topics but one's forum.     *)
LEMMA PointersUntouched ==
    ASSUME IInv, LastPostsNotBehind, post' = post,
           \A t \in TopicIds : /\ topic'[t].count = topic[t].count
                               /\ topic'[t].first = topic[t].first
                               /\ topic'[t].last = topic[t].last
    PROVE  LastPostsNotBehind'
<1>1. \A t \in TopicIds : PostsOf(t)' = PostsOf(t)
  BY DEF PostsOf
<1>2. \A t \in TopicIds : PointersOK(t)'
  BY <1>1, PointersOfAll DEF PointersOK
<1>3. QED
  BY <1>2, PointersOfAllNext

LEMMA NewTopicPointers ==
    ASSUME IInv, LastPostsNotBehind, NEW f \in Forums, nextTopic <= MaxTopics,
           topic' = [topic EXCEPT ![nextTopic] = [BlankTopic EXCEPT !.forum = f]],
           post' = post
    PROVE  LastPostsNotBehind'
<1>0. PICK n : n = nextTopic
  OBVIOUS
<1>1. TablesType /\ n \in TopicIds /\ ~TopicExists(n)
  BY <1>0, BoundsAssumption DEF IInv, TypeOK, CountersType, TopicIds, RowsOK
<1>2. PostsOf(n) = {}
  BY <1>1 DEF IInv, PostsOf, RowsOK, PostExists, TopicIds, NoTopic
<1>3. \A t \in TopicIds : PostsOf(t)' = PostsOf(t)
  BY DEF PostsOf
<1>4. topic'[n].count = 0 /\ \A t \in TopicIds \ {n} : topic'[t] = topic[t]
  BY <1>0, <1>1 DEF TablesType, BlankTopic
<1>5. PointersOK(n)'
  BY <1>1, <1>2, <1>3, <1>4, BlankPointers
<1>6. \A t \in TopicIds \ {n} : PointersOK(t)'
  BY <1>3, <1>4, PointersOfAll, PointersKept
<1>7. QED
  BY <1>5, <1>6, PointersOfAllNext

(* Ids grow, so a new post is the newest of its topic.                     *)
LEMMA InsertPointers ==
    ASSUME IInv, LastPostsNotBehind, NEW t \in TopicIds, NEW u, NEW pos,
           InsertPost(t, u, pos)
    PROVE  LastPostsNotBehind'
<1>0. PICK p : p = nextPost
  OBVIOUS
<1>1. /\ TablesType /\ RowsOK
      /\ p \in PostIds
  <2>1. TablesType /\ RowsOK /\ p \in Nat \ {0} /\ p <= MaxPosts
    BY <1>0 DEF InsertPost, IInv, TypeOK, CountersType
  <2>2. QED
    BY <2>1, BoundsAssumption DEF PostIds
<1>2. /\ post' = [post EXCEPT ![p] = [topic |-> t, pos |-> pos, author |-> u]]
      /\ topic' = [topic EXCEPT ![t].count = @ + 1, ![t].last = p,
                                ![t].first = FirstPostAfter(@, p)]
  BY <1>0 DEF InsertPost
<1>3. \A s \in TopicIds \ {t} :
         topic'[s] = topic[s] /\ \A q \in PostsOf(s)' : q \in PostsOf(s)
  <2>1. \A s \in TopicIds \ {t} : topic'[s] = topic[s]
    BY <1>1, <1>2 DEF TablesType
  <2>2. \A q \in PostIds : post'[q] = IF q = p THEN [topic |-> t, pos |-> pos,
                                                    author |-> u]
                                     ELSE post[q]
    BY <1>1, <1>2 DEF TablesType
  <2>3. \A s \in TopicIds \ {t} : \A q \in PostsOf(s)' : q \in PostsOf(s)
    BY <2>2 DEF PostsOf
  <2>4. QED
    BY <2>1, <2>3
<1>4. \A s \in TopicIds \ {t} : PointersOK(s)'
  BY <1>3, PointersOfAll, PointersKept
<1>5. topic'[t].last = p /\ topic'[t].first # NoPost
  BY <1>1, <1>2 DEF TablesType, TopicRow, FirstPostAfter, PostIds, NoPost
<1>6. \A q \in PostsOf(t)' : q <= p
  <2>1. ASSUME NEW q \in PostsOf(t)' PROVE q <= p
    <3>1. q \in PostIds /\ (q # p => PostExists(q))
      BY <1>1, <1>2, <2>1 DEF PostsOf, PostExists, TablesType, TopicIds, NoTopic
    <3>2. q # p => q < p
      BY <1>0, <1>1, <3>1 DEF RowsOK
    <3>3. QED
      BY <1>1, <3>1, <3>2 DEF PostIds
  <2>2. QED
    BY <2>1
<1>7. PointersOK(t)'
  BY <1>5, <1>6 DEF PointersOK
<1>8. QED
  BY <1>4, <1>7, PointersOfAllNext

(* The newest of all other posts is not older than those of the topic.     *)
LEMMA DeletePostPointers ==
    ASSUME IInv, LastPostsNotBehind, NEW p \in PostIds, DeletePost(p)
    PROVE  LastPostsNotBehind'
<1>1. TablesType /\ RowsOK /\ TopicPostCount
  BY DEF IInv, TypeOK
<1>2. PICK t \in TopicIds : t = post[p].topic
  BY <1>1 DEF DeletePost, TablesType, PostRow, PostExists
<1>3. /\ topic[t].first # NoPost
      /\ topic' = [topic EXCEPT
                      ![t].last  = IF @ = p THEN NewestOther(p) ELSE @,
                      ![t].count = @ - 1]
      /\ \A q \in PostIds : post'[q].topic = IF q = p THEN NoTopic
                                             ELSE post[q].topic
  <2>1. /\ post'[p] = BlankPost
        /\ \A q \in PostIds \ {p} :
              \/ post'[q] = post[q]
              \/ post'[q] = [post[q] EXCEPT !.pos = @ - 1]
    BY <1>2 DEF DeletePost
  <2>2. \A q \in PostIds : post'[q].topic = IF q = p THEN NoTopic
                                           ELSE post[q].topic
    <3>1. post'[p].topic = NoTopic
      BY <2>1 DEF BlankPost
    <3>2. \A q \in PostIds : post[q] \in PostRow
      BY <1>1 DEF TablesType
    <3>3. \A q \in PostIds \ {p} : post'[q].topic = post[q].topic
      BY <2>1, <3>2 DEF PostRow
    <3>4. QED
      BY <3>1, <3>3
  <2>3. QED
    BY <1>2, <2>2 DEF DeletePost
<1>4. \A s \in TopicIds : \A q \in PostsOf(s)' :
         q \in PostsOf(s) /\ q \in PostIds \ {p} /\ PostExists(q)
  BY <1>3 DEF PostsOf, PostExists, TopicIds, NoTopic
<1>5. \A s \in TopicIds \ {t} : PointersOK(s)'
  BY <1>1, <1>3, <1>4, PointersOfAll, PointersKept DEF TablesType
<1>6. topic'[t].first # NoPost
  BY <1>1, <1>3 DEF TablesType, TopicRow
<1>7. topic'[t].last = IF topic[t].last = p THEN NewestOther(p)
                       ELSE topic[t].last
  BY <1>1, <1>3 DEF TablesType, TopicRow
<1>8. \A q \in PostsOf(t)' : q <= NewestOther(p)
  <2> DEFINE others == {q \in PostIds : PostExists(q) /\ q # p}
  <2>1. others \in SUBSET PostIds /\ \A q \in PostsOf(t)' : q \in others
    BY <1>4
  <2>2. others # {} => \A q \in others : q <= Newest(others)
    BY <2>1, OldestNewest
  <2>3. QED
    BY <2>1, <2>2 DEF NewestOther
<1>9. \A q \in PostsOf(t)' : q <= topic[t].last
  BY <1>4, PointersOfAll DEF PointersOK
<1>10. PointersOK(t)'
  BY <1>6, <1>7, <1>8, <1>9 DEF PointersOK
<1>11. QED
  BY <1>5, <1>10, PointersOfAllNext

LEMMA DeleteTopicPointers ==
    ASSUME IInv, LastPostsNotBehind, NEW t \in TopicIds, DeleteTopic(t)
    PROVE  LastPostsNotBehind'
<1>1. /\ topic'[t].count = 0
      /\ \A s \in TopicIds \ {t} : topic'[s] = topic[s]
  BY DEF IInv, TypeOK, TablesType, DeleteTopic, BlankTopic
<1>2. \A s \in TopicIds : PostsOf(s)' = IF s = t THEN {} ELSE PostsOf(s)
  BY DEF DeleteTopic, PostsOf, BlankPost, TopicIds, NoTopic
<1>3. PointersOK(t)'
  BY <1>1, <1>2, BlankPointers
<1>4. \A s \in TopicIds \ {t} : PointersOK(s)'
  BY <1>1, <1>2, PointersOfAll, PointersKept
<1>5. QED
  BY <1>3, <1>4, PointersOfAllNext

(* A split finds the newest of what has come and of what stays.            *)
LEMMA SplitPointers ==
    ASSUME IInv, LastPostsNotBehind,
           NEW t \in TopicIds, NEW n \in TopicIds \ {t},
           TopicExists(t), TopicExists(n),
           NEW P \in SUBSET PostsOf(t), P # {}, NEW seen,
           Split(P, t, n, seen)
    PROVE  LastPostsNotBehind'
<1> DEFINE A == PostsOf(t)
           B == PostsOf(n)
<1>1. TablesType /\ TopicPostCount
  BY DEF IInv, TypeOK
<1>2. /\ PostsOf(t)' = A \ P
      /\ PostsOf(n)' = B \cup P
      /\ \A s \in TopicIds \ {t, n} : PostsOf(s)' = PostsOf(s)
  <2>1. post' = Renumbered(P, t, n)
    BY DEF Split
  <2>2. QED
    BY <2>1, RenumberedKeeps
<1>3. PICK any \in PostIds : topic' = SplitTopics(P, t, n, any)
  BY DEF Split
<1>4. A \in SUBSET PostIds /\ B \in SUBSET PostIds /\ P \in SUBSET PostIds
  BY PostsOfType
<1>5. /\ Newest(P) \in P /\ \A q \in P : q <= Newest(P)
      /\ Oldest(P) \in P
  BY <1>4, OldestNewest
<1>6. /\ topic[t].first # NoPost
      /\ topic[t] \in TopicRow /\ topic[n] \in TopicRow
      /\ PointersOK(t) /\ PointersOK(n)
  BY <1>1, PointersOfAll DEF Split, TablesType
<1>7. \A s \in TopicIds \ {t, n} : topic'[s] = topic[s]
  BY <1>1, <1>3 DEF SplitTopics, TablesType
<1>8. \A s \in TopicIds \ {t, n} : PointersOK(s)'
  BY <1>2, <1>7, PointersOfAll, PointersKept
<1>9. /\ topic'[n].last = IF topic[n].last = NoPost \/ Newest(P) > topic[n].last
                          THEN Newest(P) ELSE topic[n].last
      /\ topic'[n].first = IF topic[n].first = NoPost \/ Oldest(P) < topic[n].first
                           THEN Oldest(P) ELSE topic[n].first
  BY <1>1, <1>3 DEF SplitTopics, TablesType
<1>10. PointersOK(n)'
  <2>1. topic'[n].first # NoPost
    BY <1>4, <1>5, <1>9 DEF PostIds, NoPost
  <2>2. ASSUME NEW q \in B \cup P PROVE q <= topic'[n].last
    <3>1. q \in PostIds /\ Newest(P) \in PostIds
          /\ topic[n].last \in PostIds \cup {NoPost}
      BY <1>4, <1>5, <1>6 DEF TopicRow
    <3>2. q \in B => q <= topic[n].last
      BY <1>6 DEF PointersOK
    <3>3. q \in P => q <= Newest(P)
      BY <1>5
    <3> HIDE DEF B
    <3>4. QED
      BY <1>9, <3>1, <3>2, <3>3 DEF PostIds, NoPost
  <2>3. QED
    BY <1>2, <2>1, <2>2 DEF PointersOK
<1>11. PointersOK(t)'
  <2>1. CASE Cardinality(P) = topic[t].count
    <3>1. topic'[t] = BlankTopic
      BY <1>1, <1>3, <2>1 DEF SplitTopics, TablesType
    <3>2. P = A
      BY <1>1, <1>4, <2>1, IdsFinite, FS_Subset DEF TopicPostCount
    <3>3. QED
      BY <1>2, <3>1, <3>2, BlankPointers DEF BlankTopic
  <2>2. CASE Cardinality(P) # topic[t].count
    <3>1. /\ topic'[t].last = IF topic[t].last = Newest(P)
                              THEN Newest((A \ P) \ {topic[t].last})
                              ELSE topic[t].last
          /\ topic'[t].first = IF topic[t].first = Oldest(P) THEN any
                               ELSE topic[t].first
      BY <1>1, <1>3, <2>2 DEF SplitTopics, TablesType
    <3>2. topic'[t].first # NoPost
      BY <1>6, <3>1 DEF PostIds, NoPost
    <3>3. ASSUME NEW q \in A \ P PROVE q <= topic'[t].last
      <4>1. q <= topic[t].last
        BY <1>6 DEF PointersOK
      <4>2. CASE topic[t].last = Newest(P)
        <5>1. (A \ P) \ {topic[t].last} = A \ P
          BY <1>5, <4>2
        <5>2. q <= Newest(A \ P)
          BY <1>4, OldestNewest
        <5>3. QED
          BY <3>1, <4>2, <5>1, <5>2
      <4>3. CASE topic[t].last # Newest(P)
        BY <3>1, <4>1, <4>3
      <4>4. QED
        BY <4>2, <4>3
    <3>4. QED
      BY <1>2, <3>2, <3>3 DEF PointersOK
  <2>3. QED
    BY <2>1, <2>2
<1>12. QED
  BY <1>8, <1>10, <1>11, PointersOfAllNext

LEMMA PointersStep ==
    ASSUME IInv, LastPostsNotBehind, [Next]_vars
    PROVE  LastPostsNotBehind'
<1>1. ASSUME NEW f \in Forums, CreateTopic(f) PROVE LastPostsNotBehind'
  BY <1>1, NewTopicPointers DEF CreateTopic
<1>2. ASSUME NEW u \in Users, CreatePost(u) PROVE LastPostsNotBehind'
  <2>1. req.topic \in TopicIds
    BY <1>2 DEF CreatePost, IInv, ReqOK
  <2>2. QED
    BY <1>2, <2>1, InsertPointers DEF CreatePost
<1>3. ASSUME NEW t \in TopicIds, NEW u \in Users, Reply(t, u)
      PROVE  LastPostsNotBehind'
  BY <1>3, InsertPointers DEF Reply
<1>4. ASSUME NEW p \in PostIds, DeletePost(p) PROVE LastPostsNotBehind'
  BY <1>4, DeletePostPointers
<1>5. ASSUME NEW t \in TopicIds, DeleteTopic(t) PROVE LastPostsNotBehind'
  BY <1>5, DeleteTopicPointers
<1>6. CASE MoveSet
  <2>1. topic \in [TopicIds -> TopicRow]
    BY DEF IInv, TypeOK, TablesType
  <2>2. topic' = [topic EXCEPT ![req.topic].forum = req.to] /\ post' = post
    BY <1>6 DEF MoveSet
  <2>3. \A t \in TopicIds : /\ topic'[t].count = topic[t].count
                            /\ topic'[t].first = topic[t].first
                            /\ topic'[t].last = topic[t].last
    BY <2>1, <2>2 DEF TopicRow
  <2>4. QED
    BY <2>2, <2>3, PointersUntouched
<1>7. ASSUME UNCHANGED <<topic, post>> PROVE LastPostsNotBehind'
  BY <1>7, PointersUntouched
<1>8. ASSUME NEW t \in TopicIds, NEW P \in SUBSET PostIds, NEW g \in Forums,
             SplitNew(t, P, g)
      PROVE  LastPostsNotBehind'
  BY <1>8, NewTopicPointers DEF SplitNew
<1>9. CASE SplitPosts
  <2>1. /\ req.topic \in TopicIds /\ req.new \in TopicIds \ {req.topic}
        /\ TopicExists(req.topic) /\ TopicExists(req.new)
        /\ req.posts # {} /\ req.posts \in SUBSET PostsOf(req.topic)
    BY <1>9 DEF SplitPosts, IInv, ReqOK
  <2>2. QED
    BY <1>9, <2>1, SplitPointers DEF SplitPosts
<1>10. ASSUME NEW t \in TopicIds, NEW n \in TopicIds, NEW P \in SUBSET PostIds,
              SplitInto(t, P, n)
       PROVE  LastPostsNotBehind'
  <2>1. /\ n \in TopicIds \ {t} /\ TopicExists(t) /\ TopicExists(n)
        /\ P # {} /\ P \in SUBSET PostsOf(t)
    BY <1>10 DEF SplitInto, MaySplit
  <2>2. PICK seen : Split(P, t, n, seen)
    BY <1>10 DEF SplitInto
  <2>3. QED
    BY <2>1, <2>2, SplitPointers
<1>11. ASSUME NEW t \in TopicIds, NEW g \in Forums, MoveOut(t, g)
       PROVE  LastPostsNotBehind'
  BY <1>7, <1>11 DEF MoveOut
<1>12. CASE MoveIn \/ MoveUsers \/ MoveLast \/ SplitCount \/ Crash
  BY <1>7, <1>12 DEF MoveIn, MoveUsers, MoveLast, SplitCount, Crash, tables
<1>13. CASE UNCHANGED vars
  BY <1>7, <1>13 DEF vars
<1>14. QED
  BY <1>1, <1>2, <1>3, <1>4, <1>5, <1>6, <1>8, <1>9, <1>10, <1>11, <1>12,
     <1>13 DEF Next

(* For every forum tree and every order of requests, with splits inside    *)
(* and across forums and crashes: a topic that has posts names a first     *)
(* one, and its last post is not older than any of them.                   *)
THEOREM LastPostsHold == Spec => []LastPostsNotBehind
<1>1. Init => LastPostsNotBehind
  <2> SUFFICES ASSUME Init PROVE LastPostsNotBehind
    OBVIOUS
  <2>1. \A t \in TopicIds : PostsOf(t) = {}
    BY DEF Init, PostsOf, BlankPost, TopicIds, NoTopic
  <2>2. QED
    BY <2>1 DEF Init, LastPostsNotBehind, FirstPostSet, TopicLastNotBehind,
                BlankTopic
<1>2. IInv /\ LastPostsNotBehind /\ [Next]_vars => LastPostsNotBehind'
  BY PointersStep
<1>3. QED
  BY <1>1, <1>2, InvariantHolds, PTL DEF Spec

-----------------------------------------------------------------------------
(***************************************************************************)
(* The denormalised counters.                                              *)
(*                                                                         *)
(* A move of a topic takes its posts out of the counters of the old chain, *)
(* then sets the topic's forum, then counts them in the new chain and in   *)
(* the users' rows, each in a transaction of its own.  The invariant says  *)
(* between any two of them what the counters still lack.                   *)
(***************************************************************************)

(* A topic that is being moved goes to a forum that is no category, and is *)
(* there once its row is set.                                              *)
MoveOK ==
    /\ req.op \in {"set", "in", "users", "last"} =>
          req.to \in Forums /\ ~IsCategory(req.to)
    /\ req.op \in {"in", "users", "last"} => topic[req.topic].forum = req.to

(* The forums that do not count the topic that is being moved.             *)
Uncounted == IF req.op \in {"set", "in"} THEN Chain[topic[req.topic].forum]
                                         ELSE {}

(* The posts and topics that forum f does not count and the posts that     *)
(* user u's row does not, because the move has not come so far.            *)
MissingPosts(f) == IF f \in Uncounted THEN topic[req.topic].count ELSE 0
MissingTopics(f) == IF f \in Uncounted THEN 1 ELSE 0
MissingUser(u) == IF req.op \in {"in", "users"}
                  THEN UserShare(u, req.topic, req.from, req.to) ELSE 0

PostsFit ==
    \A f \in Forums : forum[f].posts =
        Cardinality(PostsBelow(f)) + leak.posts[f] - MissingPosts(f)
TopicsFit ==
    \A f \in Forums : forum[f].topics =
        Cardinality(TopicsBelow(f)) + leak.topics[f] - MissingTopics(f)
UsersFit ==
    \A u \in Users : userPosts[u] =
        Cardinality(CountedPosts(u)) + leak.users[u] - MissingUser(u)

(* The posts of the topic that is being moved, from the moment it is in    *)
(* its new forum.                                                          *)
OnTheMove(p) == req.op \in {"in", "users", "last"} /\ post[p].topic = req.topic

LastsFit ==
    \A p \in PostIds :
        (/\ PostExists(p)
         /\ ~OnTheMove(p)
         /\ topic[post[p].topic].forum \notin leak.last)
            => p <= forum[topic[post[p].topic].forum].last

Fits == PostsFit /\ TopicsFit /\ UsersFit /\ LastsFit

(* What the steps keep.                                                    *)
CountersInv == MoveOK /\ (~leak.spread => Fits)

-----------------------------------------------------------------------------
(* Sets of rows.                                                           *)

LEMMA TakeOut ==
    ASSUME NEW S, IsFiniteSet(S), NEW T \in SUBSET S
    PROVE  /\ Cardinality(S) \in Nat /\ Cardinality(T) \in Nat
           /\ Cardinality(S \ T) = Cardinality(S) - Cardinality(T)
<1>1. S \cap T = T
  OBVIOUS
<1>2. IsFiniteSet(T)
  BY FS_Subset
<1>3. Cardinality(S) \in Nat /\ Cardinality(T) \in Nat
  BY <1>2, FS_CardinalityType
<1>4. QED
  BY <1>1, <1>3, FS_Difference

LEMMA PutIn ==
    ASSUME NEW S, IsFiniteSet(S), NEW x, x \notin S
    PROVE  /\ Cardinality(S) \in Nat
           /\ Cardinality(S \cup {x}) = Cardinality(S) + 1
BY FS_AddElement, FS_CardinalityType

LEMMA BelowType ==
    /\ \A f : /\ PostsBelow(f) \in SUBSET PostIds
             /\ IsFiniteSet(PostsBelow(f))
             /\ Cardinality(PostsBelow(f)) \in Nat
    /\ \A f : /\ TopicsBelow(f) \in SUBSET TopicIds
             /\ IsFiniteSet(TopicsBelow(f))
             /\ Cardinality(TopicsBelow(f)) \in Nat
    /\ \A u : /\ CountedPosts(u) \in SUBSET PostIds
             /\ IsFiniteSet(CountedPosts(u))
             /\ Cardinality(CountedPosts(u)) \in Nat
<1>1. \A f : PostsBelow(f) \in SUBSET PostIds
  BY DEF PostsBelow
<1>2. \A f : TopicsBelow(f) \in SUBSET TopicIds
  BY DEF TopicsBelow
<1>3. \A u : CountedPosts(u) \in SUBSET PostIds
  BY DEF CountedPosts
<1>4. IsFiniteSet(TopicIds)
  BY FS_Interval, BoundsAssumption DEF TopicIds
<1>5. \A f : IsFiniteSet(TopicsBelow(f)) /\ Cardinality(TopicsBelow(f)) \in Nat
  BY <1>2, <1>4, FS_Subset, FS_CardinalityType
<1>6. QED
  BY <1>1, <1>2, <1>3, <1>5, IdsFinite

LEMMA InChain ==
    ASSUME NEW f \in Forums
    PROVE  f \in Chain[f] /\ (~IsCategory(f) => f \in BelowCategory(f))
BY DEF Chain, BelowCategory

(* Posts that stay where they are are counted where they were.             *)
LEMMA SamePosts ==
    ASSUME \A q \in PostIds :
              /\ PostExists(q)' <=> PostExists(q)
              /\ PostExists(q) =>
                    /\ post'[q].author = post[q].author
                    /\ topic'[post'[q].topic].forum = topic[post[q].topic].forum
    PROVE  /\ \A f : PostsBelow(f)' = PostsBelow(f)
           /\ \A u : CountedPosts(u)' = CountedPosts(u)
BY DEF PostsBelow, CountedPosts

LEMMA SameTopics ==
    ASSUME \A t \in TopicIds : topic'[t].forum = topic[t].forum
    PROVE  \A f : TopicsBelow(f)' = TopicsBelow(f)
BY DEF TopicsBelow, TopicExists

(* While nothing is moved, nothing is missing.                             *)
LEMMA NothingMissing ==
    ASSUME req.op \notin {"set", "in", "users", "last"}
    PROVE  /\ \A f : MissingPosts(f) = 0 /\ MissingTopics(f) = 0
           /\ \A u : MissingUser(u) = 0
           /\ \A p : ~OnTheMove(p)
BY DEF MissingPosts, MissingTopics, MissingUser, OnTheMove, Uncounted

LEMMA NothingMissingNext ==
    ASSUME req'.op \notin {"set", "in", "users", "last"}
    PROVE  /\ \A f : MissingPosts(f)' = 0 /\ MissingTopics(f)' = 0
           /\ \A u : MissingUser(u)' = 0
           /\ \A p : ~OnTheMove(p)'
BY DEF MissingPosts, MissingTopics, MissingUser, OnTheMove, Uncounted

LEMMA HistoryType ==
    ASSUME IInv
    PROVE  /\ leak.posts \in [Forums -> Int]
           /\ leak.topics \in [Forums -> Int]
           /\ leak.users \in [Users -> Int]
BY DEF IInv, TypeOK, CountersType

(* Where a post is, and who wrote it.                                      *)
LEMMA PlaceType ==
    ASSUME IInv, NEW q \in PostIds, PostExists(q)
    PROVE  /\ post[q].topic \in TopicIds
           /\ topic[post[q].topic].forum \in Forums
           /\ q \in PostsOf(post[q].topic)
           /\ q < nextPost
<1>1. post[q] \in PostRow /\ topic \in [TopicIds -> TopicRow]
  BY DEF IInv, TypeOK, TablesType
<1>2. post[q].topic \in TopicIds /\ q < nextPost /\ TopicExists(post[q].topic)
  BY <1>1 DEF PostRow, PostExists, IInv, RowsOK
<1>3. topic[post[q].topic].forum \in Forums
  BY <1>1, <1>2 DEF TopicRow, TopicExists
<1>4. QED
  BY <1>2, <1>3 DEF PostsOf

LEMMA BelowTypeNext ==
    /\ \A f : Cardinality(PostsBelow(f)') \in Nat
    /\ \A f : Cardinality(TopicsBelow(f)') \in Nat
    /\ \A u : Cardinality(CountedPosts(u)') \in Nat
<1>1. /\ \A f : PostsBelow(f)' \in SUBSET PostIds
      /\ \A u : CountedPosts(u)' \in SUBSET PostIds
      /\ \A f : TopicsBelow(f)' \in SUBSET TopicIds
  BY DEF PostsBelow, CountedPosts, TopicsBelow
<1>2. IsFiniteSet(TopicIds)
  BY FS_Interval, BoundsAssumption DEF TopicIds
<1>3. \A f : Cardinality(TopicsBelow(f)') \in Nat
  BY <1>1, <1>2, FS_Subset, FS_CardinalityType
<1>4. QED
  BY <1>1, <1>3, IdsFinite

(* What the invariant says while nothing is moved.                         *)
LEMMA FitsNow ==
    ASSUME IInv, Fits, req.op \notin {"set", "in", "users", "last"}
    PROVE  /\ \A f \in Forums : forum[f].posts =
                 Cardinality(PostsBelow(f)) + leak.posts[f]
           /\ \A f \in Forums : forum[f].topics =
                 Cardinality(TopicsBelow(f)) + leak.topics[f]
           /\ \A u \in Users : userPosts[u] =
                 Cardinality(CountedPosts(u)) + leak.users[u]
           /\ \A q \in PostIds :
                 PostExists(q) /\ topic[post[q].topic].forum \notin leak.last
                    => q <= forum[topic[post[q].topic].forum].last
<1>1. ASSUME NEW f \in Forums
      PROVE  /\ forum[f].posts = Cardinality(PostsBelow(f)) + leak.posts[f]
             /\ forum[f].topics = Cardinality(TopicsBelow(f)) + leak.topics[f]
  <2>1. /\ Cardinality(PostsBelow(f)) \in Int
        /\ Cardinality(TopicsBelow(f)) \in Int
        /\ leak.posts[f] \in Int /\ leak.topics[f] \in Int
        /\ MissingPosts(f) = 0 /\ MissingTopics(f) = 0
    BY BelowType, HistoryType, NothingMissing
  <2>2. QED
    BY <2>1 DEF Fits, PostsFit, TopicsFit
<1>2. ASSUME NEW u \in Users
      PROVE  userPosts[u] = Cardinality(CountedPosts(u)) + leak.users[u]
  <2>1. /\ Cardinality(CountedPosts(u)) \in Int /\ leak.users[u] \in Int
        /\ MissingUser(u) = 0
    BY BelowType, HistoryType, NothingMissing
  <2>2. QED
    BY <2>1 DEF Fits, UsersFit
<1>3. ASSUME NEW q \in PostIds, PostExists(q),
             topic[post[q].topic].forum \notin leak.last
      PROVE  q <= forum[topic[post[q].topic].forum].last
  BY <1>3, NothingMissing DEF Fits, LastsFit
<1>4. QED
  BY <1>1, <1>2, <1>3

(* What a step has to show when nothing is moved after it.                 *)
LEMMA FitsNext ==
    ASSUME IInv', req'.op \notin {"set", "in", "users", "last"},
           \A f \in Forums : forum'[f].posts =
              Cardinality(PostsBelow(f)') + leak'.posts[f],
           \A f \in Forums : forum'[f].topics =
              Cardinality(TopicsBelow(f)') + leak'.topics[f],
           \A u \in Users : userPosts'[u] =
              Cardinality(CountedPosts(u)') + leak'.users[u],
           \A q \in PostIds :
              PostExists(q)' /\ topic'[post'[q].topic].forum \notin leak'.last
                 => q <= forum'[topic'[post'[q].topic].forum].last
    PROVE  Fits'
<1>1. /\ \A f \in Forums : leak'.posts[f] \in Int /\ leak'.topics[f] \in Int
      /\ \A u \in Users : leak'.users[u] \in Int
  BY DEF IInv, TypeOK, CountersType
<1>2. PostsFit'
  <2> SUFFICES ASSUME NEW f \in Forums
               PROVE  forum'[f].posts = Cardinality(PostsBelow(f)') +
                         leak'.posts[f] - MissingPosts(f)'
    BY DEF PostsFit
  <2>1. MissingPosts(f)' = 0 /\ Cardinality(PostsBelow(f)') \in Int
    BY NothingMissingNext, BelowTypeNext
  <2>2. QED
    BY <1>1, <2>1
<1>3. TopicsFit'
  <2> SUFFICES ASSUME NEW f \in Forums
               PROVE  forum'[f].topics = Cardinality(TopicsBelow(f)') +
                         leak'.topics[f] - MissingTopics(f)'
    BY DEF TopicsFit
  <2>1. MissingTopics(f)' = 0 /\ Cardinality(TopicsBelow(f)') \in Int
    BY NothingMissingNext, BelowTypeNext
  <2>2. QED
    BY <1>1, <2>1
<1>4. UsersFit'
  <2> SUFFICES ASSUME NEW u \in Users
               PROVE  userPosts'[u] = Cardinality(CountedPosts(u)') +
                         leak'.users[u] - MissingUser(u)'
    BY DEF UsersFit
  <2>1. MissingUser(u)' = 0 /\ Cardinality(CountedPosts(u)') \in Int
    BY NothingMissingNext, BelowTypeNext
  <2>2. QED
    BY <1>1, <2>1
<1>5. LastsFit'
  BY DEF LastsFit
<1>6. QED
  BY <1>2, <1>3, <1>4, <1>5 DEF Fits

-----------------------------------------------------------------------------
(* Writing.                                                                *)

(* A new post is counted once in every forum of its chain, and for its     *)
(* author where posts are counted.                                         *)
LEMMA InsertFits ==
    ASSUME IInv, IInv', Fits, NEW t \in TopicIds, TopicExists(t), NEW u \in Users,
           NEW pos, InsertPost(t, u, pos), leak' = leak,
           req.op \notin {"set", "in", "users", "last"},
           req'.op \notin {"set", "in", "users", "last"}
    PROVE  Fits'
<1>1. PICK p, f : p = nextPost /\ f = topic[t].forum
  OBVIOUS
<1>2. /\ TablesType /\ RowsOK /\ CountersType
      /\ p \in PostIds /\ ~PostExists(p) /\ f \in Forums
  <2>1. TablesType /\ RowsOK /\ CountersType /\ p \in Nat \ {0} /\ p <= MaxPosts
    BY <1>1 DEF InsertPost, IInv, TypeOK, CountersType
  <2>2. p \in PostIds
    BY <2>1, BoundsAssumption DEF PostIds
  <2>3. ~(p < p)
    BY <2>1
  <2>4. QED
    BY <1>1, <2>1, <2>2, <2>3 DEF RowsOK, TablesType, TopicRow, TopicExists
<1>3. /\ post' = [post EXCEPT ![p] = [topic |-> t, pos |-> pos, author |-> u]]
      /\ userPosts' = [userPosts EXCEPT
                           ![u] = IF f \in UserCountPosts THEN @ + 1 ELSE @]
      /\ forum' = [g \in Forums |->
                      IF g \in Chain[f]
                      THEN [forum[g] EXCEPT !.posts = @ + 1, !.last = p]
                      ELSE forum[g]]
  BY <1>1 DEF InsertPost
<1>4. \A s \in TopicIds : topic'[s].forum = topic[s].forum
  <2>1. topic' = [topic EXCEPT ![t].count = @ + 1, ![t].last = p,
                               ![t].first = FirstPostAfter(@, p)]
    BY <1>1 DEF InsertPost
  <2>2. QED
    BY <1>2, <2>1 DEF TablesType, TopicRow
<1>5. /\ post'[p].topic = t /\ post'[p].author = u
      /\ \A q \in PostIds \ {p} : post'[q] = post[q]
  BY <1>2, <1>3 DEF TablesType
<1>6. /\ PostExists(p)'
      /\ \A q \in PostIds \ {p} : PostExists(q)' <=> PostExists(q)
      /\ \A q \in PostIds \ {p} : PostExists(q) =>
            topic'[post'[q].topic].forum = topic[post[q].topic].forum
  BY <1>4, <1>5, PlaceType DEF PostExists, TopicIds, NoTopic
<1>7. topic'[post'[p].topic].forum = f
  BY <1>1, <1>4, <1>5
<1>8. \A g \in Forums :
         /\ forum'[g].topics = forum[g].topics
         /\ g \in Chain[f] => /\ forum'[g].posts = forum[g].posts + 1
                              /\ forum'[g].last = p
         /\ g \notin Chain[f] => forum'[g] = forum[g]
  BY <1>2, <1>3 DEF TablesType, ForumRow
<1>9. PostsFit'
  <2>1. \A g \in Forums : /\ p \notin PostsBelow(g)
                          /\ PostsBelow(g)' = IF g \in Chain[f]
                                              THEN PostsBelow(g) \cup {p}
                                              ELSE PostsBelow(g)
    BY <1>2, <1>5, <1>6, <1>7 DEF PostsBelow
  <2>2. \A g \in Forums : Cardinality(PostsBelow(g)') =
           Cardinality(PostsBelow(g)) + IF g \in Chain[f] THEN 1 ELSE 0
    BY <2>1, BelowType, PutIn
  <2>3. \A g \in Forums : forum[g].posts =
           Cardinality(PostsBelow(g)) + leak.posts[g]
    BY BelowType, NothingMissing, HistoryType DEF Fits, PostsFit
  <2>4. QED
    BY <2>2, <2>3, <1>8, BelowType, HistoryType, NothingMissingNext
       DEF PostsFit
<1>10. TopicsFit'
  <2>1. \A g \in Forums : TopicsBelow(g)' = TopicsBelow(g)
    BY <1>4, SameTopics
  <2>2. QED
    BY <2>1, <1>8, NothingMissing, NothingMissingNext DEF Fits, TopicsFit
<1>11. UsersFit'
  <2>1. \A v \in Users : /\ p \notin CountedPosts(v)
                         /\ CountedPosts(v)' = IF v = u /\ f \in UserCountPosts
                                               THEN CountedPosts(v) \cup {p}
                                               ELSE CountedPosts(v)
    BY <1>2, <1>5, <1>6, <1>7 DEF CountedPosts
  <2>2. \A v \in Users : Cardinality(CountedPosts(v)') =
           Cardinality(CountedPosts(v)) +
              IF v = u /\ f \in UserCountPosts THEN 1 ELSE 0
    BY <2>1, BelowType, PutIn
  <2>3. \A v \in Users : userPosts[v] =
           Cardinality(CountedPosts(v)) + leak.users[v]
    BY BelowType, NothingMissing, HistoryType DEF Fits, UsersFit
  <2>4. \A v \in Users : userPosts'[v] = userPosts[v] +
           IF v = u /\ f \in UserCountPosts THEN 1 ELSE 0
    <3>1. userPosts \in [Users -> Int]
      BY <1>2 DEF TablesType
    <3>2. userPosts' = [userPosts EXCEPT
                           ![u] = IF f \in UserCountPosts THEN @ + 1 ELSE @]
      BY <1>3
    <3>3. QED
      BY <3>1, <3>2
  <2>5. \A v \in Users : userPosts'[v] =
           Cardinality(CountedPosts(v)') + leak.users[v]
    BY <2>2, <2>3, <2>4, BelowType, HistoryType
  <2>6. QED
    BY <2>5, BelowType, HistoryType, NothingMissingNext DEF UsersFit
<1>12. LastsFit'
  <2>1. ASSUME NEW q \in PostIds, PostExists(q)',
               topic'[post'[q].topic].forum \notin leak'.last
        PROVE  q <= forum'[topic'[post'[q].topic].forum].last
    <3>1. CASE q = p
      <4>1. forum'[f].last = p
        BY <1>2, <1>8, InChain
      <4>2. QED
        BY <1>2, <1>7, <3>1, <4>1 DEF PostIds
    <3>2. CASE q # p
      <4>1. /\ PostExists(q) /\ q < p
            /\ topic'[post'[q].topic].forum = topic[post[q].topic].forum
        BY <1>1, <1>6, <2>1, <3>2, PlaceType
      <4>2. PICK h \in Forums : h = topic[post[q].topic].forum
        BY <4>1, PlaceType
      <4>3. q <= forum[h].last
        BY <2>1, <4>1, <4>2, NothingMissing DEF Fits, LastsFit
      <4>4. forum'[h].last = p \/ forum'[h].last = forum[h].last
        BY <1>8
      <4>5. QED
        BY <1>2, <4>1, <4>2, <4>3, <4>4 DEF PostIds
    <3>3. QED
      BY <3>1, <3>2
  <2>2. QED
    BY <2>1 DEF LastsFit
<1>13. QED
  BY <1>9, <1>10, <1>11, <1>12 DEF Fits

(* A new topic is counted once in every forum of its chain.                *)
LEMMA NewTopicFits ==
    ASSUME IInv, IInv', Fits, NEW f \in Forums, nextTopic <= MaxTopics,
           topic' = [topic EXCEPT ![nextTopic] = [BlankTopic EXCEPT !.forum = f]],
           forum' = AddTopics(Chain[f], 1),
           UNCHANGED <<post, userPosts, leak>>,
           req.op \notin {"set", "in", "users", "last"},
           req'.op \notin {"set", "in", "users", "last"}
    PROVE  Fits'
<1>1. PICK n : n = nextTopic
  OBVIOUS
<1>2. TablesType /\ n \in TopicIds /\ ~TopicExists(n) /\ f # Null
  BY <1>1, BoundsAssumption, ForumsAssumption
     DEF IInv, TypeOK, CountersType, TopicIds, RowsOK
<1>3. topic'[n].forum = f /\ \A t \in TopicIds \ {n} : topic'[t] = topic[t]
  BY <1>1, <1>2 DEF TablesType, BlankTopic
<1>4. \A q \in PostIds :
         /\ PostExists(q)' <=> PostExists(q)
         /\ PostExists(q) =>
               /\ post'[q].author = post[q].author
               /\ topic'[post'[q].topic].forum = topic[post[q].topic].forum
  <2>1. \A q \in PostIds : PostExists(q) => post[q].topic \in TopicIds \ {n}
    BY <1>2, PlaceType DEF IInv, RowsOK
  <2>2. QED
    BY <1>3, <2>1 DEF PostExists
<1>5. /\ \A g : PostsBelow(g)' = PostsBelow(g)
      /\ \A u : CountedPosts(u)' = CountedPosts(u)
  BY <1>4, SamePosts
<1>6. \A g \in Forums : /\ forum'[g].posts = forum[g].posts
                        /\ forum'[g].last = forum[g].last
                        /\ forum'[g].topics = forum[g].topics +
                              IF g \in Chain[f] THEN 1 ELSE 0
  BY <1>2 DEF AddTopics, TablesType, ForumRow
<1>7. PostsFit'
  BY <1>5, <1>6, NothingMissing, NothingMissingNext DEF Fits, PostsFit
<1>8. TopicsFit'
  <2>1. \A g \in Forums : /\ n \notin TopicsBelow(g)
                          /\ TopicsBelow(g)' = IF g \in Chain[f]
                                               THEN TopicsBelow(g) \cup {n}
                                               ELSE TopicsBelow(g)
    BY <1>2, <1>3 DEF TopicsBelow, TopicExists
  <2>2. \A g \in Forums : Cardinality(TopicsBelow(g)') =
           Cardinality(TopicsBelow(g)) + IF g \in Chain[f] THEN 1 ELSE 0
    BY <2>1, BelowType, PutIn
  <2>3. \A g \in Forums : forum[g].topics =
           Cardinality(TopicsBelow(g)) + leak.topics[g]
    BY BelowType, NothingMissing, HistoryType DEF Fits, TopicsFit
  <2>4. QED
    BY <2>2, <2>3, <1>6, BelowType, HistoryType, NothingMissingNext DEF TopicsFit
<1>9. UsersFit'
  BY <1>5, NothingMissing, NothingMissingNext DEF Fits, UsersFit
<1>10. LastsFit'
  <2>1. ASSUME NEW q \in PostIds, PostExists(q)',
               topic'[post'[q].topic].forum \notin leak'.last
        PROVE  q <= forum'[topic'[post'[q].topic].forum].last
    <3>1. PICK h \in Forums : h = topic[post[q].topic].forum
      BY <1>4, <2>1, PlaceType
    <3>2. q <= forum[h].last
      BY <1>4, <2>1, <3>1, NothingMissing DEF Fits, LastsFit
    <3>3. QED
      BY <1>4, <1>6, <2>1, <3>1, <3>2
  <2>2. QED
    BY <2>1 DEF LastsFit
<1>11. QED
  BY <1>7, <1>8, <1>9, <1>10 DEF Fits

-----------------------------------------------------------------------------
(* Deleting.                                                               *)

(* A deleted post leaves every counter that counted it, and no forum names *)
(* a last post older than one it keeps.                                    *)
LEMMA DeletePostFits ==
    ASSUME IInv, IInv', Fits, NEW p \in PostIds, DeletePost(p)
    PROVE  Fits'
<1>0. PICK t, f, u : t = post[p].topic /\ f = topic[t].forum /\ u = post[p].author
  OBVIOUS
<1>1. TablesType /\ t \in TopicIds /\ f \in Forums /\ PostExists(p)
  BY <1>0, PlaceType DEF DeletePost, IInv, TypeOK
<1>2. /\ req.op = "idle" /\ req' = req /\ leak' = leak
  BY DEF DeletePost, Idle
<1>3. \A s \in TopicIds : topic'[s].forum = topic[s].forum
  <2>1. topic' = [topic EXCEPT ![t].last  = IF @ = p THEN NewestOther(p) ELSE @,
                               ![t].count = @ - 1]
    BY <1>0 DEF DeletePost
  <2>2. QED
    BY <1>1, <2>1 DEF TablesType, TopicRow
<1>4. /\ ~PostExists(p)'
      /\ \A q \in PostIds \ {p} : post'[q].topic = post[q].topic
                                 /\ post'[q].author = post[q].author
  <2>1. /\ post'[p] = BlankPost
        /\ \A q \in PostIds \ {p} :
              \/ post'[q] = post[q]
              \/ post'[q] = [post[q] EXCEPT !.pos = @ - 1]
    BY <1>0 DEF DeletePost
  <2>2. \A q \in PostIds : post[q] \in PostRow
    BY <1>1 DEF TablesType
  <2>3. \A q \in PostIds \ {p} : post'[q].topic = post[q].topic
                                /\ post'[q].author = post[q].author
    BY <2>1, <2>2 DEF PostRow
  <2>4. QED
    BY <2>1, <2>3 DEF BlankPost, PostExists
<1>5. \A q \in PostIds \ {p} :
         /\ PostExists(q)' <=> PostExists(q)
         /\ PostExists(q) =>
               topic'[post'[q].topic].forum = topic[post[q].topic].forum
  BY <1>3, <1>4, PlaceType DEF PostExists
<1>6. \A g \in Forums :
         /\ forum'[g].topics = forum[g].topics
         /\ forum'[g].posts = forum[g].posts - IF g \in Chain[f] THEN 1 ELSE 0
         /\ forum'[g].last = forum[g].last \/ forum'[g].last = NewestOther(p)
  <2> DEFINE c == Chain[f]
  <2>1. PICK matches \in BOOLEAN :
           forum' = [g \in Forums |->
               IF g \in c
               THEN [forum[g] EXCEPT
                        !.posts = @ - 1,
                        !.last  = IF matches /\ @ = p THEN NewestOther(p)
                                                      ELSE @]
               ELSE forum[g]]
    BY <1>0 DEF DeletePost
  <2> HIDE DEF c
  <2>2. \A g \in Forums : forum[g] \in ForumRow
    BY <1>1 DEF TablesType
  <2>3. ASSUME NEW g \in Forums
        PROVE  /\ forum'[g].topics = forum[g].topics
               /\ forum'[g].posts = forum[g].posts - IF g \in c THEN 1 ELSE 0
               /\ \/ forum'[g].last = forum[g].last
                  \/ forum'[g].last = NewestOther(p)
    <3>1. PICK a, b : /\ a = forum[g].posts - 1
                      /\ b = IF matches /\ forum[g].last = p THEN NewestOther(p)
                             ELSE forum[g].last
      OBVIOUS
    <3>2. forum'[g] = IF g \in c THEN [forum[g] EXCEPT !.posts = a, !.last = b]
                      ELSE forum[g]
      BY <2>1, <3>1
    <3>3. QED
      BY <2>2, <3>1, <3>2 DEF ForumRow
  <2>4. QED
    BY <2>3 DEF c
<1>7. PostsFit'
  <2>1. \A g \in Forums : /\ p \in PostsBelow(g) <=> g \in Chain[f]
                          /\ PostsBelow(g)' = PostsBelow(g) \ {p}
    BY <1>0, <1>1, <1>4, <1>5 DEF PostsBelow
  <2>2. \A g \in Forums : Cardinality(PostsBelow(g)') =
           Cardinality(PostsBelow(g)) - IF g \in Chain[f] THEN 1 ELSE 0
    BY <2>1, BelowType, FS_RemoveElement
  <2>3. \A g \in Forums : forum[g].posts =
           Cardinality(PostsBelow(g)) + leak.posts[g]
    BY <1>2, BelowType, NothingMissing, HistoryType DEF Fits, PostsFit
  <2>4. QED
    BY <1>2, <2>2, <2>3, <1>6, BelowType, HistoryType, NothingMissingNext
       DEF PostsFit
<1>8. TopicsFit'
  <2>1. \A g \in Forums : TopicsBelow(g)' = TopicsBelow(g)
    BY <1>3, SameTopics
  <2>2. QED
    BY <1>2, <2>1, <1>6, NothingMissing, NothingMissingNext DEF Fits, TopicsFit
<1>9. UsersFit'
  <2>1. \A v \in Users : /\ p \in CountedPosts(v) <=>
                               v = u /\ f \in UserCountPosts
                         /\ CountedPosts(v)' = CountedPosts(v) \ {p}
    BY <1>0, <1>1, <1>4, <1>5 DEF CountedPosts
  <2>2. \A v \in Users : Cardinality(CountedPosts(v)') =
           Cardinality(CountedPosts(v)) -
              IF v = u /\ f \in UserCountPosts THEN 1 ELSE 0
    BY <2>1, BelowType, FS_RemoveElement
  <2>3. \A v \in Users : userPosts[v] =
           Cardinality(CountedPosts(v)) + leak.users[v]
    BY <1>2, BelowType, NothingMissing, HistoryType DEF Fits, UsersFit
  <2>4. \A v \in Users : userPosts'[v] = userPosts[v] -
           IF v = u /\ f \in UserCountPosts THEN 1 ELSE 0
    BY <1>0 DEF DeletePost
  <2>5. \A v \in Users : userPosts'[v] =
           Cardinality(CountedPosts(v)') + leak.users[v]
    BY <2>2, <2>3, <2>4, BelowType, HistoryType
  <2>6. QED
    BY <1>2, <2>5, BelowType, HistoryType, NothingMissingNext DEF UsersFit
<1>10. LastsFit'
  <2>1. ASSUME NEW q \in PostIds, PostExists(q)',
               topic'[post'[q].topic].forum \notin leak'.last
        PROVE  q <= forum'[topic'[post'[q].topic].forum].last
    <3>1. /\ q # p /\ PostExists(q)
          /\ topic'[post'[q].topic].forum = topic[post[q].topic].forum
      BY <1>4, <1>5, <2>1
    <3>2. PICK h \in Forums : h = topic[post[q].topic].forum
      BY <3>1, PlaceType
    <3>3. q <= forum[h].last
      BY <1>2, <2>1, <3>1, <3>2, NothingMissing DEF Fits, LastsFit
    <3>4. q <= NewestOther(p)
      <4> DEFINE others == {r \in PostIds : PostExists(r) /\ r # p}
      <4>1. others \in SUBSET PostIds /\ q \in others
        BY <3>1
      <4> HIDE DEF others
      <4>2. q <= Newest(others)
        BY <4>1, OldestNewest
      <4>3. QED
        BY <4>2 DEF NewestOther, others
    <3>5. QED
      BY <1>6, <3>1, <3>2, <3>3, <3>4
  <2>2. QED
    BY <2>1 DEF LastsFit
<1>11. QED
  BY <1>7, <1>8, <1>9, <1>10 DEF Fits

(* What before_delete writes, as the rows of one forum.                    *)
LEMMA WithoutTopicRows ==
    ASSUME NEW fs \in [Forums -> ForumRow], NEW f, NEW t, NEW ps, NEW g \in Forums
    PROVE  /\ WithoutTopic(fs, f, t, ps)[g].posts = fs[g].posts
           /\ WithoutTopic(fs, f, t, ps)[g].topics =
                 fs[g].topics - IF g \in BelowCategory(f) THEN 1 ELSE 0
           /\ WithoutTopic(fs, f, t, ps)[g].last =
                 IF g \in BelowCategory(f)
                 THEN Newest({q \in PostIds :
                                /\ ps[q].topic \notin {NoTopic, t}
                                /\ topic[ps[q].topic].forum \in BelowCategory(f)})
                 ELSE fs[g].last
<1> DEFINE left == {q \in PostIds :
                      /\ ps[q].topic \notin {NoTopic, t}
                      /\ topic[ps[q].topic].forum \in BelowCategory(f)}
<1>1. PICK n : n = Newest(left)
  OBVIOUS
<1>2. WithoutTopic(fs, f, t, ps)[g] =
         IF g \in BelowCategory(f)
         THEN [fs[g] EXCEPT !.topics = @ - 1, !.last = n]
         ELSE fs[g]
  BY <1>1 DEF WithoutTopic
<1> HIDE DEF left
<1>3. fs[g] \in ForumRow
  OBVIOUS
<1>4. QED
  <2>1. /\ WithoutTopic(fs, f, t, ps)[g].posts = fs[g].posts
        /\ WithoutTopic(fs, f, t, ps)[g].topics =
              fs[g].topics - IF g \in BelowCategory(f) THEN 1 ELSE 0
        /\ WithoutTopic(fs, f, t, ps)[g].last =
              IF g \in BelowCategory(f) THEN n ELSE fs[g].last
    BY <1>2, <1>3 DEF ForumRow
  <2>2. QED
    BY <1>1, <2>1 DEF left

(* A topic that is gone is one less below its chain.                       *)
LEMMA TopicGone ==
    ASSUME IInv, NEW t \in TopicIds, TopicExists(t), ~TopicExists(t)',
           \A s \in TopicIds \ {t} : topic'[s].forum = topic[s].forum
    PROVE  \A g : Cardinality(TopicsBelow(g)') = Cardinality(TopicsBelow(g)) -
                     IF g \in Chain[topic[t].forum] THEN 1 ELSE 0
<1>1. \A g : /\ t \in TopicsBelow(g) <=> g \in Chain[topic[t].forum]
            /\ TopicsBelow(g)' = TopicsBelow(g) \ {t}
  BY DEF TopicsBelow, TopicExists
<1>2. QED
  BY <1>1, BelowType, FS_RemoveElement

(* The posts of one topic are below the forums of its chain and no other.  *)
LEMMA PostsOfBelow ==
    ASSUME IInv, NEW t \in TopicIds
    PROVE  /\ Cardinality(PostsOf(t)) \in Nat
           /\ \A g : Cardinality(PostsBelow(g) \ PostsOf(t)) =
                 Cardinality(PostsBelow(g)) -
                   IF g \in Chain[topic[t].forum]
                   THEN Cardinality(PostsOf(t)) ELSE 0
<1>1. PostsOf(t) \in SUBSET PostIds /\ \A q \in PostsOf(t) : PostExists(q)
                                     /\ post[q].topic = t
  BY DEF PostsOf, PostExists, TopicIds, NoTopic
<1>2. ASSUME NEW g
      PROVE  Cardinality(PostsBelow(g) \ PostsOf(t)) =
                Cardinality(PostsBelow(g)) -
                   IF g \in Chain[topic[t].forum]
                   THEN Cardinality(PostsOf(t)) ELSE 0
  <2>1. CASE g \in Chain[topic[t].forum]
    <3>1. PostsOf(t) \in SUBSET PostsBelow(g)
      BY <1>1, <2>1 DEF PostsBelow
    <3>2. QED
      BY <2>1, <3>1, BelowType, TakeOut
  <2>2. CASE g \notin Chain[topic[t].forum]
    <3>1. PostsBelow(g) \ PostsOf(t) = PostsBelow(g)
      BY <1>1, <2>2 DEF PostsBelow
    <3>2. QED
      BY <2>2, <3>1, BelowType
  <2>3. QED
    BY <2>1, <2>2
<1>3. QED
  BY <1>1, <1>2, IdsFinite

LEMMA OwnPostsCounted ==
    ASSUME IInv, NEW t \in TopicIds
    PROVE  \A v : /\ Cardinality(OwnPosts(v, t)) \in Nat
                 /\ Cardinality(CountedPosts(v) \ PostsOf(t)) =
                       Cardinality(CountedPosts(v)) -
                         IF topic[t].forum \in UserCountPosts
                         THEN Cardinality(OwnPosts(v, t)) ELSE 0
<1> SUFFICES ASSUME NEW v
             PROVE  /\ Cardinality(OwnPosts(v, t)) \in Nat
                    /\ Cardinality(CountedPosts(v) \ PostsOf(t)) =
                          Cardinality(CountedPosts(v)) -
                            IF topic[t].forum \in UserCountPosts
                            THEN Cardinality(OwnPosts(v, t)) ELSE 0
  OBVIOUS
<1>1. OwnPosts(v, t) \in SUBSET PostIds
  BY DEF OwnPosts, PostsOf
<1>2. \A q \in PostsOf(t) : PostExists(q) /\ post[q].topic = t
  BY DEF PostsOf, PostExists, TopicIds, NoTopic
<1>3. CASE topic[t].forum \in UserCountPosts
  <2>1. OwnPosts(v, t) \in SUBSET CountedPosts(v)
    BY <1>1, <1>2, <1>3 DEF OwnPosts, CountedPosts
  <2>2. CountedPosts(v) \ PostsOf(t) = CountedPosts(v) \ OwnPosts(v, t)
    BY DEF OwnPosts, CountedPosts
  <2>3. QED
    BY <1>3, <2>1, <2>2, BelowType, TakeOut
<1>4. CASE topic[t].forum \notin UserCountPosts
  <2>1. CountedPosts(v) \ PostsOf(t) = CountedPosts(v)
    BY <1>2, <1>4 DEF CountedPosts
  <2>2. Cardinality(OwnPosts(v, t)) \in Nat
    BY <1>1, IdsFinite
  <2>3. Cardinality(CountedPosts(v)) \in Nat
    BY BelowType
  <2>4. QED
    BY <1>4, <2>1, <2>2, <2>3
<1>5. QED
  BY <1>3, <1>4

(* A deleted topic takes its posts out of what is counted and out of no    *)
(* counter: the difference is what the history says.                       *)
LEMMA DeleteTopicFits ==
    ASSUME IInv, IInv', Fits, NEW t \in TopicIds, DeleteTopic(t)
    PROVE  Fits'
<1>0. PICK f \in Forums : f = topic[t].forum
  BY DEF DeleteTopic, IInv, TypeOK, TablesType, TopicRow, TopicExists
<1>9. /\ TablesType /\ TopicExists(t)
      /\ req.op = "idle" /\ req'.op = "idle" /\ userPosts' = userPosts
  BY DEF DeleteTopic, Idle, IInv, TypeOK
<1>1. /\ topic' = [topic EXCEPT ![t] = BlankTopic]
      /\ post' = [q \in PostIds |->
                     IF post[q].topic = t THEN BlankPost ELSE post[q]]
  BY DEF DeleteTopic
<1>10. \A g \in Forums :
         /\ forum'[g].posts = forum[g].posts
         /\ forum'[g].topics =
               forum[g].topics - IF g \in BelowCategory(f) THEN 1 ELSE 0
         /\ forum'[g].last =
               IF g \in BelowCategory(f)
               THEN Newest({q \in PostIds :
                              /\ post[q].topic \notin {NoTopic, t}
                              /\ topic[post[q].topic].forum \in BelowCategory(f)})
               ELSE forum[g].last
  <2>1. forum' = WithoutTopic(forum, f, t, post)
    BY <1>0 DEF DeleteTopic
  <2>2. forum \in [Forums -> ForumRow]
    BY <1>9 DEF TablesType
  <2>3. QED
    BY <2>1, <2>2, WithoutTopicRows
<1>2. /\ \A g \in Forums :
            /\ leak'.posts[g] = leak.posts[g] +
                  IF g \in Chain[f] THEN Cardinality(PostsOf(t)) ELSE 0
            /\ leak'.topics[g] = leak.topics[g] +
                  IF g \in Chain[f] /\ IsCategory(g) THEN 1 ELSE 0
      /\ \A v \in Users : leak'.users[v] = leak.users[v] +
            IF f \in UserCountPosts THEN Cardinality(OwnPosts(v, t)) ELSE 0
      /\ leak'.last = leak.last
  <2> DEFINE ps == [g \in Forums |-> leak.posts[g] +
                      IF g \in Chain[f] THEN Cardinality(PostsOf(t)) ELSE 0]
             ts == [g \in Forums |-> leak.topics[g] +
                      IF g \in Chain[f] /\ IsCategory(g) THEN 1 ELSE 0]
             us == [u \in Users |-> leak.users[u] +
                      IF f \in UserCountPosts
                      THEN Cardinality(OwnPosts(u, t)) ELSE 0]
  <2>1. leak' = [leak EXCEPT !.posts = ps, !.topics = ts, !.users = us]
    BY <1>0 DEF DeleteTopic
  <2>2. leak \in [posts : [Forums -> Int], topics : [Forums -> Int],
                  users : [Users -> Int], last : SUBSET Forums, spread : BOOLEAN]
    BY DEF IInv, TypeOK, CountersType
  <2> HIDE DEF ps, ts, us
  <2>3. /\ leak'.posts = ps /\ leak'.topics = ts /\ leak'.users = us
        /\ leak'.last = leak.last
    BY <2>1, <2>2
  <2>4. QED
    BY <2>3 DEF ps, ts, us
<1>3. /\ ~TopicExists(t)'
      /\ \A s \in TopicIds \ {t} : topic'[s] = topic[s]
  BY <1>9, <1>1 DEF TablesType, BlankTopic, TopicExists
<1>4. \A q \in PostIds :
         /\ PostExists(q)' <=> PostExists(q) /\ q \notin PostsOf(t)
         /\ PostExists(q)' =>
               /\ post'[q] = post[q]
               /\ topic'[post'[q].topic].forum = topic[post[q].topic].forum
  <2>1. \A q \in PostIds : PostExists(q) => post[q].topic \in TopicIds
    BY PlaceType
  <2>2. QED
    BY <1>1, <1>3, <2>1 DEF PostExists, PostsOf, BlankPost, TopicIds, NoTopic
<1>5. \A g \in Forums : forum'[g].posts =
         Cardinality(PostsBelow(g)') + leak'.posts[g]
  <2>1. \A g \in Forums : PostsBelow(g)' = PostsBelow(g) \ PostsOf(t)
    BY <1>4 DEF PostsBelow
  <2>2. \A g \in Forums : Cardinality(PostsBelow(g)') =
           Cardinality(PostsBelow(g)) -
             IF g \in Chain[f] THEN Cardinality(PostsOf(t)) ELSE 0
    BY <1>0, <2>1, PostsOfBelow
  <2>3. \A g \in Forums : forum[g].posts =
           Cardinality(PostsBelow(g)) + leak.posts[g]
    BY <1>9, FitsNow
  <2>4. ASSUME NEW g \in Forums
        PROVE  forum'[g].posts = Cardinality(PostsBelow(g)') + leak'.posts[g]
    <3> DEFINE d == IF g \in Chain[f] THEN Cardinality(PostsOf(t)) ELSE 0
    <3>1. /\ forum'[g].posts = Cardinality(PostsBelow(g)) + leak.posts[g]
          /\ leak'.posts[g] = leak.posts[g] + d
          /\ Cardinality(PostsBelow(g)') = Cardinality(PostsBelow(g)) - d
      BY <1>2, <1>10, <2>2, <2>3
    <3>2. /\ Cardinality(PostsBelow(g)) \in Int /\ leak.posts[g] \in Int
          /\ d \in Int
      BY BelowType, PostsOfBelow, HistoryType
    <3> HIDE DEF d
    <3>3. QED
      BY <3>1, <3>2
  <2>5. QED
    BY <2>4
<1>6. \A g \in Forums : forum'[g].topics =
         Cardinality(TopicsBelow(g)') + leak'.topics[g]
  <2>1. \A g \in Forums : Cardinality(TopicsBelow(g)') =
           Cardinality(TopicsBelow(g)) - IF g \in Chain[f] THEN 1 ELSE 0
    BY <1>0, <1>9, <1>3, TopicGone
  <2>2. \A g \in Forums : forum[g].topics =
           Cardinality(TopicsBelow(g)) + leak.topics[g]
    BY <1>9, FitsNow
  <2>3. \A g \in Forums :
           g \in BelowCategory(f) <=> g \in Chain[f] /\ ~IsCategory(g)
    BY DEF BelowCategory
  <2>4. ASSUME NEW g \in Forums
        PROVE  forum'[g].topics = Cardinality(TopicsBelow(g)') + leak'.topics[g]
    <3> DEFINE a == IF g \in Chain[f] THEN 1 ELSE 0
               b == IF g \in BelowCategory(f) THEN 1 ELSE 0
               c == IF g \in Chain[f] /\ IsCategory(g) THEN 1 ELSE 0
    <3>1. /\ forum[g].topics = Cardinality(TopicsBelow(g)) + leak.topics[g]
          /\ forum'[g].topics = forum[g].topics - b
          /\ leak'.topics[g] = leak.topics[g] + c
          /\ Cardinality(TopicsBelow(g)') = Cardinality(TopicsBelow(g)) - a
      BY <1>2, <1>10, <2>1, <2>2
    <3>2. /\ Cardinality(TopicsBelow(g)) \in Int /\ leak.topics[g] \in Int
          /\ a \in Int /\ b \in Int /\ c \in Int
      BY BelowType, HistoryType
    <3>3. a = b + c
      BY <2>3
    <3> HIDE DEF a, b, c
    <3>4. QED
      BY <3>1, <3>2, <3>3
  <2>5. QED
    BY <2>4
<1>7. \A v \in Users : userPosts'[v] =
         Cardinality(CountedPosts(v)') + leak'.users[v]
  <2>1. \A v : CountedPosts(v)' = CountedPosts(v) \ PostsOf(t)
    BY <1>4 DEF CountedPosts
  <2>2. \A v \in Users : Cardinality(CountedPosts(v)') =
           Cardinality(CountedPosts(v)) -
             IF f \in UserCountPosts THEN Cardinality(OwnPosts(v, t)) ELSE 0
    BY <1>0, <2>1, OwnPostsCounted
  <2>3. \A v \in Users : userPosts'[v] =
           Cardinality(CountedPosts(v)) + leak.users[v]
    BY <1>9, FitsNow
  <2>4. \A v \in Users : /\ Cardinality(CountedPosts(v)) \in Nat
                         /\ Cardinality(OwnPosts(v, t)) \in Nat
                         /\ leak.users[v] \in Int
    <3>1. \A v : Cardinality(CountedPosts(v)) \in Nat
      BY BelowType
    <3>2. \A v : Cardinality(OwnPosts(v, t)) \in Nat
      BY OwnPostsCounted
    <3>3. QED
      BY <3>1, <3>2, HistoryType
  <2>5. ASSUME NEW v \in Users
        PROVE  userPosts'[v] = Cardinality(CountedPosts(v)') + leak'.users[v]
    <3> DEFINE d == IF f \in UserCountPosts
                    THEN Cardinality(OwnPosts(v, t)) ELSE 0
    <3>1. /\ userPosts'[v] = Cardinality(CountedPosts(v)) + leak.users[v]
          /\ leak'.users[v] = leak.users[v] + d
          /\ Cardinality(CountedPosts(v)') = Cardinality(CountedPosts(v)) - d
      BY <1>2, <2>2, <2>3
    <3>2. d \in Int
      BY <2>4
    <3> HIDE DEF d
    <3>3. QED
      BY <2>4, <3>1, <3>2
  <2>6. QED
    BY <2>5
<1>8. ASSUME NEW q \in PostIds, PostExists(q)',
             topic'[post'[q].topic].forum \notin leak'.last
      PROVE  q <= forum'[topic'[post'[q].topic].forum].last
  <2>1. /\ PostExists(q) /\ q \notin PostsOf(t)
        /\ topic'[post'[q].topic].forum = topic[post[q].topic].forum
    BY <1>4, <1>8
  <2>2. PICK h \in Forums : h = topic[post[q].topic].forum
    BY <2>1, PlaceType
  <2>3. q <= forum[h].last
    BY <1>2, <1>8, <1>9, <2>1, <2>2, FitsNow
  <2>4. CASE h \in BelowCategory(f)
    <3> DEFINE left == {r \in PostIds :
                          /\ post[r].topic \notin {NoTopic, t}
                          /\ topic[post[r].topic].forum \in BelowCategory(f)}
    <3>1. q \in left /\ left \in SUBSET PostIds
      BY <2>1, <2>2, <2>4 DEF PostExists, PostsOf
    <3>2. forum'[h].last = Newest(left)
      BY <1>10, <2>4
    <3> HIDE DEF left
    <3>3. QED
      BY <2>1, <2>2, <3>1, <3>2, OldestNewest
  <2>5. CASE h \notin BelowCategory(f)
    <3>1. forum'[h].last = forum[h].last
      BY <1>10, <2>5
    <3>2. QED
      BY <2>1, <2>2, <2>3, <3>1
  <2>6. QED
    BY <2>4, <2>5
<1>11. QED
  BY <1>5, <1>6, <1>7, <1>8, <1>9, FitsNext

-----------------------------------------------------------------------------
(* Moving.                                                                 *)

(* A step that writes no post and no topic's forum leaves what is counted. *)
LEMMA SameSets ==
    ASSUME post' = post, \A t \in TopicIds : topic'[t].forum = topic[t].forum,
           IInv
    PROVE  /\ \A f : PostsBelow(f)' = PostsBelow(f)
           /\ \A f : TopicsBelow(f)' = TopicsBelow(f)
           /\ \A u : CountedPosts(u)' = CountedPosts(u)
           /\ \A q \in PostIds : PostExists(q) =>
                 topic'[post'[q].topic].forum = topic[post[q].topic].forum
<1>1. \A q \in PostIds :
         /\ PostExists(q)' <=> PostExists(q)
         /\ PostExists(q) =>
               /\ post'[q].author = post[q].author
               /\ topic'[post'[q].topic].forum = topic[post[q].topic].forum
  BY PlaceType DEF PostExists
<1>2. QED
  BY <1>1, SamePosts, SameTopics

(* A step that writes forum rows and the request only.                     *)
LEMMA SameTables ==
    ASSUME IInv, UNCHANGED <<topic, post>>
    PROVE  /\ \A f : PostsBelow(f)' = PostsBelow(f)
           /\ \A f : TopicsBelow(f)' = TopicsBelow(f)
           /\ \A u : CountedPosts(u)' = CountedPosts(u)
           /\ \A u, t : OwnPosts(u, t)' = OwnPosts(u, t)
BY SameSets DEF OwnPosts, PostsOf

(* What a write of two counters leaves in a forum row.                     *)
LEMMA RowWrite ==
    ASSUME NEW r \in ForumRow, NEW x, NEW y
    PROVE  /\ [r EXCEPT !.topics = x, !.posts = y].topics = x
           /\ [r EXCEPT !.topics = x, !.posts = y].posts = y
           /\ [r EXCEPT !.topics = x, !.posts = y].last = r.last
           /\ r.topics \in Int /\ r.topics + 0 = r.topics /\ r.topics - 0 = r.topics
           /\ r.posts \in Int /\ r.posts + 0 = r.posts /\ r.posts - 0 = r.posts
BY DEF ForumRow

(* The counters of the old chain give the topic and its posts back.        *)
LEMMA MoveOutFits ==
    ASSUME IInv, Fits, NEW t \in TopicIds, NEW g \in Forums, MoveOut(t, g)
    PROVE  Fits'
<1>1. PICK f, n : f = topic[t].forum /\ n = topic[t].count
  OBVIOUS
<1>2. /\ req.op = "idle" /\ req' = [Idle EXCEPT !.op = "set", !.topic = t, !.to = g]
      /\ UNCHANGED <<topic, post, userPosts, leak>>
  BY DEF MoveOut, Idle
<1>3. n \in Int /\ TablesType
  BY <1>1 DEF IInv, TypeOK, TablesType, TopicRow
<1>4. \A h \in Forums :
         /\ forum'[h].topics = forum[h].topics - IF h \in Chain[f] THEN 1 ELSE 0
         /\ forum'[h].posts = forum[h].posts - IF h \in Chain[f] THEN n ELSE 0
         /\ forum'[h].last = forum[h].last
  <2> SUFFICES ASSUME NEW h \in Forums
               PROVE  /\ forum'[h].topics =
                            forum[h].topics - IF h \in Chain[f] THEN 1 ELSE 0
                      /\ forum'[h].posts =
                            forum[h].posts - IF h \in Chain[f] THEN n ELSE 0
                      /\ forum'[h].last = forum[h].last
    OBVIOUS
  <2>1. PICK x, y : x = forum[h].topics - 1 /\ y = forum[h].posts - n
    OBVIOUS
  <2>2. forum'[h] = IF h \in Chain[f]
                    THEN [forum[h] EXCEPT !.topics = x, !.posts = y]
                    ELSE forum[h]
    BY <1>1, <2>1 DEF MoveOut
  <2>3. QED
    BY <1>3, <2>1, <2>2, RowWrite DEF TablesType
<1>5. /\ \A h : MissingPosts(h)' = IF h \in Chain[f] THEN n ELSE 0
      /\ \A h : MissingTopics(h)' = IF h \in Chain[f] THEN 1 ELSE 0
      /\ \A u : MissingUser(u)' = 0
      /\ \A q : ~OnTheMove(q)'
  BY <1>1, <1>2 DEF MissingPosts, MissingTopics, MissingUser, OnTheMove,
                    Uncounted, Idle
<1>6. PostsFit' /\ TopicsFit'
  <2>1. ASSUME NEW h \in Forums
        PROVE  /\ forum'[h].posts = Cardinality(PostsBelow(h)') +
                     leak'.posts[h] - MissingPosts(h)'
               /\ forum'[h].topics = Cardinality(TopicsBelow(h)') +
                     leak'.topics[h] - MissingTopics(h)'
    <3>1. /\ forum[h].posts = Cardinality(PostsBelow(h)) + leak.posts[h]
          /\ forum[h].topics = Cardinality(TopicsBelow(h)) + leak.topics[h]
      BY <1>2, FitsNow
    <3>2. /\ Cardinality(PostsBelow(h)) \in Int /\ leak.posts[h] \in Int
          /\ Cardinality(TopicsBelow(h)) \in Int /\ leak.topics[h] \in Int
      BY BelowType, HistoryType
    <3>3. /\ PostsBelow(h)' = PostsBelow(h) /\ TopicsBelow(h)' = TopicsBelow(h)
          /\ leak' = leak
      BY <1>2, SameTables
    <3>4. QED
      BY <1>3, <1>4, <1>5, <3>1, <3>2, <3>3
  <2>2. QED
    BY <2>1 DEF PostsFit, TopicsFit
<1>7. UsersFit'
  <2>1. ASSUME NEW u \in Users
        PROVE  userPosts'[u] = Cardinality(CountedPosts(u)') + leak'.users[u] -
                  MissingUser(u)'
    <3>1. userPosts'[u] = Cardinality(CountedPosts(u)') + leak'.users[u]
      BY <1>2, FitsNow, SameTables
    <3>2. Cardinality(CountedPosts(u)') \in Int /\ leak'.users[u] \in Int
      BY <1>2, BelowTypeNext, HistoryType
    <3>3. QED
      BY <1>5, <3>1, <3>2
  <2>2. QED
    BY <2>1 DEF UsersFit
<1>8. LastsFit'
  <2>1. ASSUME NEW q \in PostIds, PostExists(q)',
               topic'[post'[q].topic].forum \notin leak'.last
        PROVE  q <= forum'[topic'[post'[q].topic].forum].last
    <3>1. PostExists(q) /\ topic[post[q].topic].forum \notin leak.last
      BY <1>2, <2>1 DEF PostExists
    <3>2. /\ q <= forum[topic[post[q].topic].forum].last
          /\ topic[post[q].topic].forum \in Forums
      BY <1>2, <3>1, FitsNow, PlaceType
    <3>3. QED
      BY <1>2, <1>4, <3>2
  <2>2. QED
    BY <2>1 DEF LastsFit
<1>9. QED
  BY <1>6, <1>7, <1>8 DEF Fits

LEMMA Parted ==
    ASSUME NEW T, IsFiniteSet(T), NEW U, IsFiniteSet(U), T \cap U = {}
    PROVE  /\ Cardinality(T) \in Nat /\ Cardinality(U) \in Nat
           /\ Cardinality(T \cup U) = Cardinality(T) + Cardinality(U)
<1>1. /\ Cardinality(T) \in Nat /\ Cardinality(U) \in Nat
      /\ Cardinality(T \cup U) =
            Cardinality(T) + Cardinality(U) - Cardinality(T \cap U)
  BY FS_Union, FS_CardinalityType
<1>2. Cardinality(T \cap U) = 0
  BY FS_EmptySet
<1>3. QED
  BY <1>1, <1>2

(* Setting the topic's forum takes its posts from below one chain to below *)
(* the other, where the counters still lack them.                          *)
LEMMA MoveSetFits ==
    ASSUME IInv, MoveOK, Fits, MoveSet
    PROVE  Fits'
<1>1. PICK t \in TopicIds, f \in Forums, g \in Forums :
         t = req.topic /\ f = topic[t].forum /\ g = req.to
  BY DEF MoveSet, IInv, TypeOK, TablesType, TopicRow, TopicExists, ReqOK
<1> DEFINE T == PostsOf(t)
<1>2. /\ TablesType /\ req \in [op : {"idle", "post", "set", "in", "users",
                                     "last", "count", "split"},
                               topic : TopicIds \cup {NoTopic},
                               new : TopicIds \cup {NoTopic},
                               from : Forums \cup {Null}, to : Forums \cup {Null},
                               posts : SUBSET PostIds]
      /\ TopicExists(t) /\ topic[t].count = Cardinality(T)
  BY <1>1 DEF MoveSet, IInv, TypeOK, ReqType, ReqOK, TopicPostCount
<1>3. /\ req.op = "set" /\ UNCHANGED <<forum, post, userPosts, leak>>
      /\ topic' = [topic EXCEPT ![t].forum = g]
      /\ req' = [req EXCEPT !.op = "in", !.from = f]
  BY <1>1 DEF MoveSet
<1>4. /\ req'.op = "in" /\ req'.topic = t /\ req'.from = f /\ req'.to = g
  BY <1>1, <1>2, <1>3
<1>5. /\ topic'[t].forum = g /\ topic'[t].count = topic[t].count
      /\ \A s \in TopicIds \ {t} : topic'[s] = topic[s]
  BY <1>2, <1>3 DEF TablesType, TopicRow
<1>6. \A q \in PostIds :
         /\ PostExists(q)' <=> PostExists(q)
         /\ q \in T <=> post[q].topic = t
         /\ q \in T => PostExists(q) /\ topic'[post'[q].topic].forum = g
         /\ PostExists(q) /\ q \notin T =>
               topic'[post'[q].topic].forum = topic[post[q].topic].forum
  <2>1. \A q \in PostIds : PostExists(q) => post[q].topic \in TopicIds
    BY PlaceType
  <2>2. QED
    BY <1>3, <1>5, <2>1 DEF PostExists, PostsOf, TopicIds, NoTopic
<1>7. T \in SUBSET PostIds /\ IsFiniteSet(T) /\ Cardinality(T) \in Nat
  BY PostsOfType, IdsFinite
<1>8. PostsFit'
  <2> SUFFICES ASSUME NEW h \in Forums
               PROVE  forum'[h].posts = Cardinality(PostsBelow(h)') +
                         leak'.posts[h] - MissingPosts(h)'
    BY DEF PostsFit
  <2> DEFINE old == IF h \in Chain[f] THEN Cardinality(T) ELSE 0
             new == IF h \in Chain[g] THEN Cardinality(T) ELSE 0
             in  == IF h \in Chain[g] THEN T ELSE {}
             stay == PostsBelow(h) \ T
  <2>1. MissingPosts(h) = old
    BY <1>1, <1>2, <1>3 DEF MissingPosts, Uncounted
  <2>2. MissingPosts(h)' = new
    BY <1>2, <1>4, <1>5 DEF MissingPosts, Uncounted
  <2>3. Cardinality(stay) = Cardinality(PostsBelow(h)) - old
    BY <1>1, PostsOfBelow
  <2>4. /\ PostsBelow(h)' = stay \cup in /\ stay \cap in = {}
        /\ IsFiniteSet(in) /\ IsFiniteSet(stay)
    <3>1. IsFiniteSet(in)
      BY <1>7, FS_EmptySet
    <3>2. PostsBelow(h)' = stay \cup in
      BY <1>6, <1>7 DEF PostsBelow
    <3>3. IsFiniteSet(stay)
      BY BelowType, FS_Difference
    <3>4. QED
      BY <3>1, <3>2, <3>3
  <2>6. Cardinality(in) = new
    BY FS_EmptySet
  <2>7. /\ forum'[h].posts = forum[h].posts /\ leak'.posts[h] = leak.posts[h]
        /\ leak.posts[h] \in Int /\ Cardinality(PostsBelow(h)) \in Nat
        /\ old \in Nat /\ new \in Nat
    BY <1>3, <1>7, HistoryType, BelowType
  <2>8. forum[h].posts = Cardinality(PostsBelow(h)) + leak.posts[h] - old
    BY <2>1 DEF Fits, PostsFit
  <2> HIDE DEF old, new, in, stay
  <2>9. Cardinality(PostsBelow(h)') = Cardinality(stay) + Cardinality(in)
    BY <2>4, Parted
  <2>10. QED
    BY <2>2, <2>3, <2>6, <2>7, <2>8, <2>9
<1>9. TopicsFit'
  <2> SUFFICES ASSUME NEW h \in Forums
               PROVE  forum'[h].topics = Cardinality(TopicsBelow(h)') +
                         leak'.topics[h] - MissingTopics(h)'
    BY DEF TopicsFit
  <2> DEFINE old == IF h \in Chain[f] THEN 1 ELSE 0
             new == IF h \in Chain[g] THEN 1 ELSE 0
             in  == IF h \in Chain[g] THEN {t} ELSE {}
             stay == TopicsBelow(h) \ {t}
  <2>1. MissingTopics(h) = old
    BY <1>1, <1>3 DEF MissingTopics, Uncounted
  <2>2. MissingTopics(h)' = new
    BY <1>4, <1>5 DEF MissingTopics, Uncounted
  <2>3. t \in TopicsBelow(h) <=> h \in Chain[f]
    BY <1>1, <1>2 DEF TopicsBelow
  <2>4. IsFiniteSet(stay) /\ Cardinality(stay) = Cardinality(TopicsBelow(h)) - old
    BY <2>3, BelowType, FS_RemoveElement
  <2>5. TopicsBelow(h)' = stay \cup in
    BY <1>5, ForumsAssumption DEF TopicsBelow, TopicExists
  <2>6. /\ IsFiniteSet(in) /\ Cardinality(in) = new
    BY FS_EmptySet, FS_Singleton
  <2>7. stay \cap in = {}
    OBVIOUS
  <2>8. /\ forum'[h].topics = forum[h].topics /\ leak'.topics[h] = leak.topics[h]
        /\ leak.topics[h] \in Int /\ Cardinality(TopicsBelow(h)) \in Nat
        /\ old \in Nat /\ new \in Nat
    BY <1>3, HistoryType, BelowType
  <2>9. forum[h].topics = Cardinality(TopicsBelow(h)) + leak.topics[h] - old
    BY <2>1 DEF Fits, TopicsFit
  <2> HIDE DEF old, new, in, stay
  <2>10. Cardinality(TopicsBelow(h)') = Cardinality(stay) + Cardinality(in)
    BY <2>4, <2>5, <2>6, <2>7, Parted
  <2>11. QED
    BY <2>2, <2>4, <2>6, <2>8, <2>9, <2>10
<1>10. UsersFit'
  <2> SUFFICES ASSUME NEW v \in Users
               PROVE  userPosts'[v] = Cardinality(CountedPosts(v)') +
                         leak'.users[v] - MissingUser(v)'
    BY DEF UsersFit
  <2> DEFINE own == Cardinality(OwnPosts(v, t))
             old == IF f \in UserCountPosts THEN own ELSE 0
             new == IF g \in UserCountPosts THEN own ELSE 0
             in  == IF g \in UserCountPosts THEN OwnPosts(v, t) ELSE {}
             stay == CountedPosts(v) \ T
  <2>1. MissingUser(v) = 0
    BY <1>3 DEF MissingUser
  <2>2. own \in Nat /\ Cardinality(stay) = Cardinality(CountedPosts(v)) - old
    BY <1>1, OwnPostsCounted
  <2>3. MissingUser(v)' = new - old
    <3>1. OwnPosts(v, t)' = OwnPosts(v, t)
      BY <1>3 DEF OwnPosts, PostsOf
    <3>2. MissingUser(v)' =
             CASE g \in UserCountPosts /\ f \notin UserCountPosts -> own
               [] g \notin UserCountPosts /\ f \in UserCountPosts -> -own
               [] OTHER -> 0
      BY <1>4, <3>1 DEF MissingUser, UserShare
    <3> HIDE DEF own
    <3>3. QED
      BY <2>2, <3>2
  <2>4. CountedPosts(v)' = stay \cup in /\ stay \cap in = {}
    BY <1>3, <1>6, <1>7 DEF CountedPosts, OwnPosts
  <2>5. IsFiniteSet(in) /\ Cardinality(in) = new /\ IsFiniteSet(stay)
    <3>1. OwnPosts(v, t) \in SUBSET PostIds
      BY DEF OwnPosts, PostsOf
    <3>2. QED
      BY <3>1, IdsFinite, FS_EmptySet, BelowType, FS_Difference
  <2>6. /\ userPosts'[v] = userPosts[v] /\ leak'.users[v] = leak.users[v]
        /\ leak.users[v] \in Int /\ Cardinality(CountedPosts(v)) \in Nat
    BY <1>3, HistoryType, BelowType
  <2>7. userPosts[v] = Cardinality(CountedPosts(v)) + leak.users[v]
    BY <2>1, <2>6 DEF Fits, UsersFit
  <2>8. old \in Nat /\ new \in Nat
    BY <2>2
  <2> HIDE DEF old, new, in, stay, own
  <2>9. Cardinality(CountedPosts(v)') = Cardinality(stay) + Cardinality(in)
    BY <2>4, <2>5, Parted
  <2>10. QED
    BY <2>2, <2>3, <2>5, <2>6, <2>7, <2>8, <2>9
<1>11. LastsFit'
  <2>1. ASSUME NEW q \in PostIds, PostExists(q)', ~OnTheMove(q)',
               topic'[post'[q].topic].forum \notin leak'.last
        PROVE  q <= forum'[topic'[post'[q].topic].forum].last
    <3>1. q \notin T
      BY <1>3, <1>4, <1>6, <2>1 DEF OnTheMove
    <3>2. ~OnTheMove(q)
      BY <1>3 DEF OnTheMove
    <3>3. QED
      BY <1>3, <1>6, <2>1, <3>1, <3>2 DEF Fits, LastsFit
  <2>2. QED
    BY <2>1 DEF LastsFit
<1>12. QED
  BY <1>8, <1>9, <1>10, <1>11 DEF Fits

(* The steps of a move keep the request but for its op.                    *)
LEMMA NextOp ==
    ASSUME IInv, NEW op, req' = [req EXCEPT !.op = op]
    PROVE  /\ req'.op = op /\ req'.topic = req.topic
           /\ req'.from = req.from /\ req'.to = req.to
BY DEF IInv, TypeOK, ReqType

LEMMA MovingTopic ==
    ASSUME IInv, req.op \in {"set", "in", "users", "last"}
    PROVE  /\ req.topic \in TopicIds /\ topic[req.topic].forum \in Forums
           /\ topic[req.topic].count \in Int
BY DEF IInv, TypeOK, TablesType, TopicRow, TopicExists, ReqOK

(* The new chain counts the topic and its posts.                           *)
LEMMA MoveInFits ==
    ASSUME IInv, Fits, MoveIn
    PROVE  Fits'
<1>1. PICK t, f, n : /\ t = req.topic /\ f = topic[t].forum
                     /\ n = topic[t].count /\ n \in Int
  BY MovingTopic DEF MoveIn
<1>2. /\ req.op = "in" /\ UNCHANGED <<topic, post, userPosts, leak>>
      /\ req'.op = "users" /\ req'.topic = req.topic
      /\ req'.from = req.from /\ req'.to = req.to
  BY NextOp DEF MoveIn
<1>3. TablesType
  BY DEF IInv, TypeOK
<1>4. \A h \in Forums :
         /\ forum'[h].topics = forum[h].topics + IF h \in Chain[f] THEN 1 ELSE 0
         /\ forum'[h].posts = forum[h].posts + IF h \in Chain[f] THEN n ELSE 0
         /\ forum'[h].last = forum[h].last
  <2> SUFFICES ASSUME NEW h \in Forums
               PROVE  /\ forum'[h].topics =
                            forum[h].topics + IF h \in Chain[f] THEN 1 ELSE 0
                      /\ forum'[h].posts =
                            forum[h].posts + IF h \in Chain[f] THEN n ELSE 0
                      /\ forum'[h].last = forum[h].last
    OBVIOUS
  <2>1. PICK x, y : x = forum[h].topics + 1 /\ y = forum[h].posts + n
    OBVIOUS
  <2>2. forum'[h] = IF h \in Chain[f]
                    THEN [forum[h] EXCEPT !.topics = x, !.posts = y]
                    ELSE forum[h]
    BY <1>1, <2>1 DEF MoveIn
  <2>3. QED
    BY <1>3, <2>1, <2>2, RowWrite DEF TablesType
<1>5. /\ \A h : MissingPosts(h) = IF h \in Chain[f] THEN n ELSE 0
      /\ \A h : MissingTopics(h) = IF h \in Chain[f] THEN 1 ELSE 0
      /\ \A h : MissingPosts(h)' = 0 /\ MissingTopics(h)' = 0
  BY <1>1, <1>2 DEF MissingPosts, MissingTopics, Uncounted
<1>6. PostsFit' /\ TopicsFit'
  <2>1. ASSUME NEW h \in Forums
        PROVE  /\ forum'[h].posts = Cardinality(PostsBelow(h)') +
                     leak'.posts[h] - MissingPosts(h)'
               /\ forum'[h].topics = Cardinality(TopicsBelow(h)') +
                     leak'.topics[h] - MissingTopics(h)'
    <3>1. /\ forum[h].posts =
                Cardinality(PostsBelow(h)) + leak.posts[h] - MissingPosts(h)
          /\ forum[h].topics =
                Cardinality(TopicsBelow(h)) + leak.topics[h] - MissingTopics(h)
      BY DEF Fits, PostsFit, TopicsFit
    <3>2. /\ Cardinality(PostsBelow(h)) \in Int /\ leak.posts[h] \in Int
          /\ Cardinality(TopicsBelow(h)) \in Int /\ leak.topics[h] \in Int
      BY BelowType, HistoryType
    <3>3. /\ PostsBelow(h)' = PostsBelow(h) /\ TopicsBelow(h)' = TopicsBelow(h)
          /\ leak' = leak
      BY <1>2, SameTables
    <3>4. QED
      BY <1>1, <1>4, <1>5, <3>1, <3>2, <3>3
  <2>2. QED
    BY <2>1 DEF PostsFit, TopicsFit
<1>7. UsersFit'
  <2>1. ASSUME NEW u \in Users
        PROVE  userPosts'[u] = Cardinality(CountedPosts(u)') + leak'.users[u] -
                  MissingUser(u)'
    <3>1. MissingUser(u)' = MissingUser(u)
      BY <1>2, SameTables DEF MissingUser, UserShare
    <3>2. CountedPosts(u)' = CountedPosts(u)
      BY <1>2, SameTables
    <3>3. QED
      BY <1>2, <3>1, <3>2 DEF Fits, UsersFit
  <2>2. QED
    BY <2>1 DEF UsersFit
<1>8. LastsFit'
  <2>1. ASSUME NEW q \in PostIds, PostExists(q)', ~OnTheMove(q)',
               topic'[post'[q].topic].forum \notin leak'.last
        PROVE  q <= forum'[topic'[post'[q].topic].forum].last
    <3>1. /\ PostExists(q) /\ ~OnTheMove(q)
          /\ topic[post[q].topic].forum \notin leak.last
      BY <1>2, <2>1 DEF PostExists, OnTheMove
    <3>2. /\ q <= forum[topic[post[q].topic].forum].last
          /\ topic[post[q].topic].forum \in Forums
      BY <3>1, PlaceType DEF Fits, LastsFit
    <3>3. QED
      BY <1>2, <1>4, <3>2
  <2>2. QED
    BY <2>1 DEF LastsFit
<1>9. QED
  BY <1>6, <1>7, <1>8 DEF Fits

(* The users' rows count the topic's posts where it is now.                *)
LEMMA MoveUsersFits ==
    ASSUME IInv, Fits, MoveUsers
    PROVE  Fits'
<1>1. /\ req.op = "users" /\ UNCHANGED <<forum, topic, post, leak>>
      /\ req'.op = "last" /\ req'.topic = req.topic
  BY NextOp DEF MoveUsers
<1>2. /\ \A h : MissingPosts(h) = 0 /\ MissingTopics(h) = 0
      /\ \A h : MissingPosts(h)' = 0 /\ MissingTopics(h)' = 0
      /\ \A u : MissingUser(u)' = 0
      /\ \A q : OnTheMove(q)' <=> OnTheMove(q)
  BY <1>1 DEF MissingPosts, MissingTopics, MissingUser, Uncounted, OnTheMove
<1>3. PostsFit' /\ TopicsFit'
  BY <1>1, <1>2, SameTables DEF Fits, PostsFit, TopicsFit
<1>4. UsersFit'
  <2>1. ASSUME NEW u \in Users
        PROVE  userPosts'[u] = Cardinality(CountedPosts(u)') + leak'.users[u] -
                  MissingUser(u)'
    <3>1. PICK share : share = UserShare(u, req.topic, req.from, req.to)
      OBVIOUS
    <3>2. MissingUser(u) = share /\ userPosts'[u] = userPosts[u] + share
      BY <1>1, <3>1 DEF MissingUser, MoveUsers
    <3>3. /\ userPosts[u] =
                Cardinality(CountedPosts(u)) + leak.users[u] - share
          /\ CountedPosts(u)' = CountedPosts(u)
      BY <1>1, <3>2, SameTables DEF Fits, UsersFit
    <3>4. /\ Cardinality(CountedPosts(u)) \in Int /\ leak.users[u] \in Int
          /\ share \in Int
      BY <3>1, BelowType, HistoryType, UserShareType
    <3>5. QED
      BY <1>1, <1>2, <3>2, <3>3, <3>4
  <2>2. QED
    BY <2>1 DEF UsersFit
<1>5. LastsFit'
  BY <1>1, <1>2 DEF Fits, LastsFit, PostExists
<1>6. QED
  BY <1>3, <1>4, <1>5 DEF Fits

(* A forum on either chain gets the newest of its own posts, those of the  *)
(* topic that has been moved among them.                                   *)
LEMMA MoveLastFits ==
    ASSUME IInv, MoveOK, Fits, MoveLast
    PROVE  Fits'
<1> DEFINE Own(h) == {r \in PostIds : PostExists(r) /\
                                       topic[post[r].topic].forum = h}
           Written == BelowCategory(req.to) \cup BelowCategory(req.from)
<1>1. /\ req.op = "last" /\ UNCHANGED <<topic, post, userPosts, leak>>
      /\ req'.op = "idle"
      /\ forum' = [h \in Forums |-> IF h \in Written
                                    THEN [forum[h] EXCEPT !.last = Newest(Own(h))]
                                    ELSE forum[h]]
  BY DEF MoveLast, Idle
<1>2. forum \in [Forums -> ForumRow]
  BY DEF IInv, TypeOK, TablesType
<1>3. /\ \A h : MissingPosts(h) = 0 /\ MissingTopics(h) = 0
      /\ \A h : MissingPosts(h)' = 0 /\ MissingTopics(h)' = 0
      /\ \A u : MissingUser(u)' = 0 /\ MissingUser(u) = 0
  BY <1>1 DEF MissingPosts, MissingTopics, MissingUser, Uncounted
<1> HIDE DEF Own, Written
<1>4. \A h \in Forums :
         /\ forum'[h].posts = forum[h].posts
         /\ forum'[h].topics = forum[h].topics
         /\ forum'[h].last = IF h \in Written THEN Newest(Own(h))
                                              ELSE forum[h].last
  BY <1>1, <1>2 DEF ForumRow
<1>5. PostsFit' /\ TopicsFit' /\ UsersFit'
  BY <1>1, <1>3, <1>4, SameTables DEF Fits, PostsFit, TopicsFit, UsersFit
<1>6. LastsFit'
  <2>1. ASSUME NEW q \in PostIds, PostExists(q)',
               topic'[post'[q].topic].forum \notin leak'.last
        PROVE  q <= forum'[topic'[post'[q].topic].forum].last
    <3>1. PICK h \in Forums : h = topic[post[q].topic].forum
      BY <1>1, <2>1, PlaceType DEF PostExists
    <3>2. PostExists(q) /\ h \notin leak.last /\ topic'[post'[q].topic].forum = h
      BY <1>1, <2>1, <3>1 DEF PostExists
    <3>3. CASE h \in Written
      <4>1. q \in Own(h) /\ Own(h) \in SUBSET PostIds
        BY <3>1, <3>2 DEF Own
      <4>2. q <= Newest(Own(h))
        BY <4>1, OldestNewest
      <4>3. QED
        BY <1>4, <3>2, <3>3, <4>2
    <3>4. CASE h \notin Written
      <4>1. h # req.to
        BY <1>1, <3>4, InChain DEF MoveOK, Written
      <4>2. ~OnTheMove(q)
        BY <1>1, <3>1, <4>1 DEF OnTheMove, MoveOK
      <4>3. q <= forum[h].last
        BY <3>1, <3>2, <4>2 DEF Fits, LastsFit
      <4>4. QED
        BY <1>4, <3>2, <3>4, <4>3
    <3>5. QED
      BY <3>3, <3>4
  <2>2. QED
    BY <2>1 DEF LastsFit
<1>7. QED
  BY <1>5, <1>6 DEF Fits

(* The history takes what the rest of the move would have counted.         *)
LEMMA CrashFits ==
    ASSUME IInv, IInv', MoveOK, Fits, Crash
    PROVE  Fits'
<1>1. PICK t : t = req.topic
  OBVIOUS
<1>2. /\ UNCHANGED <<forum, topic, post, userPosts>> /\ req'.op = "idle"
  BY DEF Crash, tables, Idle
<1>3. /\ leak \in [posts : [Forums -> Int], topics : [Forums -> Int],
                  users : [Users -> Int], last : SUBSET Forums,
                  spread : BOOLEAN]
      /\ forum \in [Forums -> ForumRow] /\ userPosts \in [Users -> Int]
  BY DEF IInv, TypeOK, CountersType, TablesType
<1> DEFINE lacking == CASE req.op = "set" -> Chain[topic[t].forum]
                        [] req.op = "in"  -> Chain[topic[t].forum]
                        [] OTHER          -> {}
           ps == [f \in Forums |-> leak.posts[f] -
                        IF f \in lacking THEN topic[t].count ELSE 0]
           ts == [f \in Forums |-> leak.topics[f] -
                        IF f \in lacking THEN 1 ELSE 0]
           us == [u \in Users |-> leak.users[u] -
                        IF req.op \in {"in", "users"}
                        THEN UserShare(u, t, req.from, req.to) ELSE 0]
           ls == leak.last \cup IF req.op \in {"in", "users", "last"}
                                THEN {topic[t].forum} ELSE {}
<1>4. leak' = [leak EXCEPT !.posts = ps, !.topics = ts, !.users = us, !.last = ls]
  BY <1>1 DEF Crash
<1>5. lacking = Uncounted
  BY <1>1 DEF Uncounted
<1>6. /\ \A f \in Forums : ps[f] = leak.posts[f] - MissingPosts(f)
      /\ \A f \in Forums : ts[f] = leak.topics[f] - MissingTopics(f)
      /\ \A u \in Users : us[u] = leak.users[u] - MissingUser(u)
  BY <1>1, <1>5 DEF MissingPosts, MissingTopics, MissingUser
<1>7. /\ leak.last \subseteq ls
      /\ req.op \in {"in", "users", "last"} => topic[t].forum \in ls
  OBVIOUS
<1> HIDE DEF ps, ts, us, ls, lacking
<1>8. /\ leak'.posts = ps /\ leak'.topics = ts
      /\ leak'.users = us /\ leak'.last = ls
  BY <1>3, <1>4
<1>9. /\ \A f : MissingPosts(f) \in Int /\ MissingTopics(f) \in Int
      /\ \A u : MissingUser(u) \in Int
  <2>1. req.op \in {"set", "in"} => topic[req.topic].count \in Int
    BY MovingTopic
  <2>2. QED
    BY <2>1, UserShareType DEF MissingPosts, MissingTopics, MissingUser, Uncounted
<1>10. ASSUME NEW f \in Forums
       PROVE  /\ forum'[f].posts = Cardinality(PostsBelow(f)') + leak'.posts[f]
              /\ forum'[f].topics = Cardinality(TopicsBelow(f)') + leak'.topics[f]
  <2>1. /\ forum[f].posts =
              Cardinality(PostsBelow(f)) + leak.posts[f] - MissingPosts(f)
        /\ forum[f].topics =
              Cardinality(TopicsBelow(f)) + leak.topics[f] - MissingTopics(f)
    BY DEF Fits, PostsFit, TopicsFit
  <2>2. /\ Cardinality(PostsBelow(f)) \in Int /\ leak.posts[f] \in Int
        /\ Cardinality(TopicsBelow(f)) \in Int /\ leak.topics[f] \in Int
    BY BelowType, HistoryType
  <2>3. PostsBelow(f)' = PostsBelow(f) /\ TopicsBelow(f)' = TopicsBelow(f)
    BY <1>2, SameTables
  <2>4. leak'.posts[f] = leak.posts[f] - MissingPosts(f)
        /\ leak'.topics[f] = leak.topics[f] - MissingTopics(f)
    BY <1>6, <1>8
  <2>5. QED
    BY <1>2, <1>9, <2>1, <2>2, <2>3, <2>4
<1>11. ASSUME NEW u \in Users
       PROVE  userPosts'[u] = Cardinality(CountedPosts(u)') + leak'.users[u]
  <2>1. userPosts[u] = Cardinality(CountedPosts(u)) + leak.users[u] - MissingUser(u)
    BY DEF Fits, UsersFit
  <2>2. Cardinality(CountedPosts(u)) \in Int /\ leak.users[u] \in Int
    BY BelowType, HistoryType
  <2>3. CountedPosts(u)' = CountedPosts(u)
    BY <1>2, SameTables
  <2>4. leak'.users[u] = leak.users[u] - MissingUser(u)
    BY <1>6, <1>8
  <2>5. QED
    BY <1>2, <1>9, <2>1, <2>2, <2>3, <2>4
<1>12. ASSUME NEW q \in PostIds, PostExists(q)',
              topic'[post'[q].topic].forum \notin leak'.last
       PROVE  q <= forum'[topic'[post'[q].topic].forum].last
  <2>1. PostExists(q) /\ topic[post[q].topic].forum \notin ls
    BY <1>2, <1>8, <1>12 DEF PostExists
  <2>2. ~OnTheMove(q)
    BY <1>1, <1>7, <2>1 DEF OnTheMove
  <2>3. q <= forum[topic[post[q].topic].forum].last
    BY <1>7, <2>1, <2>2 DEF Fits, LastsFit
  <2>4. QED
    BY <1>2, <2>3
<1>13. QED
  BY <1>2, <1>10, <1>11, <1>12, FitsNext

-----------------------------------------------------------------------------
(* Splitting.                                                              *)

(* The second count of a split topic is one that the history has.          *)
LEMMA SplitCountFits ==
    ASSUME IInv, IInv', Fits, SplitCount
    PROVE  Fits'
<1>1. PICK g \in Forums : g = req.to
  BY DEF SplitCount, IInv, ReqOK
<1>2. /\ req.op = "count" /\ req'.op = "split"
      /\ UNCHANGED <<topic, post, userPosts>>
      /\ forum' = AddTopics({g}, 1)
  BY <1>1, NextOp DEF SplitCount
<1>3. \A h \in Forums : /\ forum'[h].posts = forum[h].posts
                        /\ forum'[h].last = forum[h].last
                        /\ forum'[h].topics = forum[h].topics +
                              IF h = g THEN 1 ELSE 0
  BY <1>2 DEF AddTopics, IInv, TypeOK, TablesType, ForumRow
<1>4. /\ leak'.posts = leak.posts /\ leak'.users = leak.users
      /\ leak'.last = leak.last
      /\ \A h \in Forums : leak'.topics[h] = leak.topics[h] +
            IF h = g THEN 1 ELSE 0
  <2>1. leak \in [posts : [Forums -> Int], topics : [Forums -> Int],
                  users : [Users -> Int], last : SUBSET Forums,
                  spread : BOOLEAN]
    BY DEF IInv, TypeOK, CountersType
  <2>2. PICK ts : ts = [leak.topics EXCEPT ![g] = @ + 1]
    OBVIOUS
  <2>3. leak' = [leak EXCEPT !.topics = ts]
    BY <1>1, <2>2 DEF SplitCount
  <2>4. leak'.posts = leak.posts /\ leak'.users = leak.users
        /\ leak'.last = leak.last /\ leak'.topics = ts
    BY <2>1, <2>3
  <2>5. \A h \in Forums : ts[h] = leak.topics[h] + IF h = g THEN 1 ELSE 0
    BY <2>1, <2>2
  <2>6. QED
    BY <2>4, <2>5
<1>5. ASSUME NEW h \in Forums
      PROVE  /\ forum'[h].posts = Cardinality(PostsBelow(h)') + leak'.posts[h]
             /\ forum'[h].topics = Cardinality(TopicsBelow(h)') + leak'.topics[h]
  <2>1. /\ forum[h].posts = Cardinality(PostsBelow(h)) + leak.posts[h]
        /\ forum[h].topics = Cardinality(TopicsBelow(h)) + leak.topics[h]
    BY <1>2, FitsNow
  <2>2. Cardinality(TopicsBelow(h)) \in Int /\ leak.topics[h] \in Int
    BY BelowType, HistoryType
  <2>3. PostsBelow(h)' = PostsBelow(h) /\ TopicsBelow(h)' = TopicsBelow(h)
    BY <1>2, SameTables
  <2>4. QED
    BY <1>3, <1>4, <2>1, <2>2, <2>3
<1>6. \A u \in Users :
         userPosts'[u] = Cardinality(CountedPosts(u)') + leak'.users[u]
  BY <1>2, <1>4, FitsNow, SameTables
<1>7. ASSUME NEW q \in PostIds, PostExists(q)',
             topic'[post'[q].topic].forum \notin leak'.last
      PROVE  q <= forum'[topic'[post'[q].topic].forum].last
  <2>1. PostExists(q) /\ topic[post[q].topic].forum \notin leak.last
    BY <1>2, <1>4, <1>7 DEF PostExists
  <2>2. /\ q <= forum[topic[post[q].topic].forum].last
        /\ topic[post[q].topic].forum \in Forums
    BY <1>2, <2>1, FitsNow, PlaceType
  <2>3. QED
    BY <1>2, <1>3, <2>2
<1>8. QED
  BY <1>2, <1>5, <1>6, <1>7, FitsNext

(* Renumbering leaves who wrote a post.                                    *)
LEMMA RenumberedAuthors ==
    ASSUME TablesType, NEW P, NEW t, NEW n, NEW q \in PostIds
    PROVE  Renumbered(P, t, n)[q].author = post[q].author
<1>1. post[q] \in PostRow
  BY DEF TablesType
<1>2. \A x, y : /\ [post[q] EXCEPT !.topic = x, !.pos = y].author = post[q].author
               /\ [post[q] EXCEPT !.pos = y].author = post[q].author
  BY <1>1 DEF PostRow
<1>3. PICK start, rest, moved :
         /\ start = post[Oldest(P)].pos
         /\ rest = {r \in PostsOf(t) \ P : post[r].pos > start}
         /\ moved = PostsOf(n) \cup P
  OBVIOUS
<1>4. PICK x, y : x = Rank(q, moved) /\ y = start + Rank(q, rest)
  OBVIOUS
<1>5. Renumbered(P, t, n)[q] =
         CASE q \in moved -> [post[q] EXCEPT !.topic = n, !.pos = x]
           [] q \in rest  -> [post[q] EXCEPT !.pos = y]
           [] OTHER       -> post[q]
  BY <1>3, <1>4 DEF Renumbered
<1>6. QED
  BY <1>2, <1>5

(* Within one forum the posts stay where they are counted; a topic that is *)
(* split empty leaves the counters of its chain, but for the category's.   *)
LEMMA SplitFits ==
    ASSUME IInv, IInv', Fits, NEW t \in TopicIds, NEW n \in TopicIds \ {t},
           TopicExists(t), TopicExists(n),
           NEW P \in SUBSET PostsOf(t), P # {}, NEW seen,
           Split(P, t, n, seen), topic[t].forum = topic[n].forum,
           req.op \notin {"set", "in", "users", "last"},
           req'.op \notin {"set", "in", "users", "last"}
    PROVE  Fits'
<1>1. PICK f \in Forums : f = topic[t].forum
  BY DEF IInv, TypeOK, TablesType, TopicRow, TopicExists
<1>2. PICK removed \in BOOLEAN : removed <=> Cardinality(P) = topic[t].count
  OBVIOUS
<1>3. TablesType /\ P \in SUBSET PostIds
  BY PostsOfType DEF IInv, TypeOK
<1>4. /\ post' = Renumbered(P, t, n)
      /\ PostsOf(t)' = PostsOf(t) \ P
      /\ PostsOf(n)' = PostsOf(n) \cup P
      /\ \A s \in TopicIds \ {t, n} : PostsOf(s)' = PostsOf(s)
      /\ \A q \in PostIds : PostExists(q)' => PostExists(q)
  <2>1. post' = Renumbered(P, t, n)
    BY DEF Split
  <2>2. QED
    BY <2>1, RenumberedKeeps
<1>5. /\ \A s \in TopicIds \ {t} : topic'[s].forum = topic[s].forum
      /\ topic'[t].forum = IF removed THEN Null ELSE f
  <2>1. PICK any \in PostIds : topic' = SplitTopics(P, t, n, any)
    BY DEF Split
  <2>2. QED
    BY <1>1, <1>2, <1>3, <2>1, SplitTopicsRows DEF BlankTopic
<1>6. removed => PostsOf(t)' = {}
  <2>1. topic[t].count = Cardinality(PostsOf(t)) /\ IsFiniteSet(PostsOf(t))
    BY PostsOfType, IdsFinite DEF IInv, TopicPostCount
  <2>2. removed => P = PostsOf(t)
    BY <1>2, <2>1, FS_Subset
  <2>3. QED
    BY <1>4, <2>2
<1>7. \A q \in PostIds :
         /\ PostExists(q)' <=> PostExists(q)
         /\ PostExists(q) =>
               /\ post'[q].author = post[q].author
               /\ topic'[post'[q].topic].forum = topic[post[q].topic].forum
  <2> SUFFICES ASSUME NEW q \in PostIds, PostExists(q)
               PROVE  /\ PostExists(q)'
                      /\ topic'[post'[q].topic].forum =
                            topic[post[q].topic].forum
    BY <1>3, <1>4, RenumberedAuthors
  <2>1. PICK s \in TopicIds : s = post[q].topic /\ q \in PostsOf(s)
    BY PlaceType
  <2>2. CASE q \in P
    <3>1. q \in PostsOf(n)' /\ s = t
      BY <1>4, <2>1, <2>2 DEF PostsOf
    <3>2. post'[q].topic = n
      BY <3>1 DEF PostsOf
    <3>3. QED
      BY <1>1, <1>5, <2>1, <3>1, <3>2 DEF PostExists, TopicIds, NoTopic
  <2>3. CASE q \notin P
    <3>1. q \in PostsOf(s)'
      BY <1>4, <2>1, <2>3
    <3>2. post'[q].topic = s
      BY <3>1 DEF PostsOf
    <3>3. s = t => ~removed
      BY <1>6, <3>1
    <3>4. QED
      BY <1>1, <1>5, <2>1, <3>2, <3>3 DEF PostExists, TopicIds, NoTopic
  <2>4. QED
    BY <2>2, <2>3
<1>8. /\ \A h : PostsBelow(h)' = PostsBelow(h)
      /\ \A u : CountedPosts(u)' = CountedPosts(u)
  BY <1>7, SamePosts
<1>9. \A h \in Forums : Cardinality(TopicsBelow(h)') =
         Cardinality(TopicsBelow(h)) - IF removed /\ h \in Chain[f] THEN 1 ELSE 0
  <2>1. CASE removed
    BY <1>1, <1>5, <2>1, TopicGone DEF TopicExists
  <2>2. CASE ~removed
    <3>1. \A h : TopicsBelow(h)' = TopicsBelow(h)
      BY <1>1, <1>5, <2>2, SameTopics
    <3>2. QED
      BY <2>2, <3>1, BelowType
  <2>3. QED
    BY <2>1, <2>2
<1>10. forum' = IF removed THEN WithoutTopic(forum, f, t, post') ELSE forum
  BY <1>1, <1>2 DEF Split, SplitForums
<1>11. \A h \in Forums :
         /\ forum'[h].posts = forum[h].posts
         /\ forum'[h].topics = forum[h].topics -
               IF removed /\ h \in BelowCategory(f) THEN 1 ELSE 0
         /\ ~(removed /\ h \in BelowCategory(f)) =>
               forum'[h].last = forum[h].last
         /\ removed /\ h \in BelowCategory(f) => forum'[h].last =
               Newest({q \in PostIds :
                         /\ post'[q].topic \notin {NoTopic, t}
                         /\ topic[post'[q].topic].forum \in BelowCategory(f)})
  <2>1. forum \in [Forums -> ForumRow]
    BY <1>3 DEF TablesType
  <2>2. CASE removed
    BY <1>10, <2>1, <2>2, WithoutTopicRows
  <2>3. CASE ~removed
    <3>1. \A h \in Forums : forum[h].topics \in Int
      BY <2>1 DEF ForumRow
    <3>2. QED
      BY <1>10, <2>3, <3>1
  <2>4. QED
    BY <2>2, <2>3
<1>12. /\ leak'.posts = leak.posts /\ leak'.users = leak.users
       /\ leak'.last = leak.last
       /\ \A h \in Forums : leak'.topics[h] = leak.topics[h] +
             IF removed /\ h \in Chain[f] /\ IsCategory(h) THEN 1 ELSE 0
  <2>1. leak \in [posts : [Forums -> Int], topics : [Forums -> Int],
                  users : [Users -> Int], last : SUBSET Forums,
                  spread : BOOLEAN]
    BY DEF IInv, TypeOK, CountersType
  <2> DEFINE ts == [h \in Forums |-> leak.topics[h] +
                IF removed /\ h \in Chain[f] /\ IsCategory(h) THEN 1 ELSE 0]
  <2>2. leak' = [leak EXCEPT !.topics = ts, !.spread = @ \/ f # topic[n].forum]
    BY <1>1, <1>2 DEF Split
  <2> HIDE DEF ts
  <2>3. leak'.posts = leak.posts /\ leak'.users = leak.users
        /\ leak'.last = leak.last /\ leak'.topics = ts
    BY <2>1, <2>2
  <2>4. QED
    BY <2>3 DEF ts
<1>13. ASSUME NEW h \in Forums
       PROVE  /\ forum'[h].posts = Cardinality(PostsBelow(h)') + leak'.posts[h]
              /\ forum'[h].topics = Cardinality(TopicsBelow(h)') + leak'.topics[h]
  <2>1. /\ forum[h].posts = Cardinality(PostsBelow(h)) + leak.posts[h]
        /\ forum[h].topics = Cardinality(TopicsBelow(h)) + leak.topics[h]
    BY FitsNow
  <2>2. Cardinality(TopicsBelow(h)) \in Int /\ leak.topics[h] \in Int
    BY BelowType, HistoryType
  <2>3. h \in BelowCategory(f) <=> h \in Chain[f] /\ ~IsCategory(h)
    BY DEF BelowCategory
  <2> DEFINE gone == IF removed /\ h \in Chain[f] THEN 1 ELSE 0
             cut  == IF removed /\ h \in BelowCategory(f) THEN 1 ELSE 0
             kept == IF removed /\ h \in Chain[f] /\ IsCategory(h) THEN 1 ELSE 0
  <2>4. gone = cut + kept /\ gone \in Int /\ cut \in Int /\ kept \in Int
    BY <2>3
  <2>5. /\ Cardinality(TopicsBelow(h)') = Cardinality(TopicsBelow(h)) - gone
        /\ forum'[h].topics = forum[h].topics - cut
        /\ leak'.topics[h] = leak.topics[h] + kept
    BY <1>9, <1>11, <1>12
  <2> HIDE DEF gone, cut, kept
  <2>6. forum'[h].topics = Cardinality(TopicsBelow(h)') + leak'.topics[h]
    BY <2>1, <2>2, <2>4, <2>5
  <2>7. QED
    BY <1>8, <1>11, <1>12, <2>1, <2>6
<1>14. ASSUME NEW u \in Users
       PROVE  userPosts'[u] = Cardinality(CountedPosts(u)') + leak'.users[u]
  <2>1. userPosts'[u] = userPosts[u]
    BY <1>1, <1>3 DEF Split, SplitUsers, TablesType
  <2>2. QED
    BY <1>8, <1>12, <2>1, FitsNow
<1>15. ASSUME NEW q \in PostIds, PostExists(q)',
              topic'[post'[q].topic].forum \notin leak'.last
       PROVE  q <= forum'[topic'[post'[q].topic].forum].last
  <2>1. PostExists(q) /\ topic'[post'[q].topic].forum = topic[post[q].topic].forum
    BY <1>7, <1>15
  <2>2. PICK h \in Forums : h = topic[post[q].topic].forum
    BY <2>1, PlaceType
  <2>3. CASE removed /\ h \in BelowCategory(f)
    <3> DEFINE left == {r \in PostIds :
                   /\ post'[r].topic \notin {NoTopic, t}
                   /\ topic[post'[r].topic].forum \in BelowCategory(f)}
    <3>1. PICK s \in TopicIds : s = post'[q].topic
      BY <1>15 DEF PostExists, IInv, TypeOK, TablesType, PostRow
    <3>2. s # t /\ s # NoTopic
      BY <1>6, <1>15, <2>3, <3>1 DEF PostsOf, PostExists
    <3>3. topic[s].forum = h
      BY <1>5, <2>1, <2>2, <3>1, <3>2
    <3>4. q \in left /\ left \in SUBSET PostIds
      BY <2>3, <3>1, <3>2, <3>3
    <3>5. forum'[h].last = Newest(left)
      BY <1>11, <2>3
    <3> HIDE DEF left
    <3>6. QED
      BY <2>1, <2>2, <3>4, <3>5, OldestNewest
  <2>4. CASE ~(removed /\ h \in BelowCategory(f))
    <3>1. q <= forum[h].last
      BY <1>12, <1>15, <2>1, <2>2, FitsNow
    <3>2. QED
      BY <1>11, <2>1, <2>2, <2>4, <3>1
  <2>5. QED
    BY <2>3, <2>4
<1>16. QED
  BY <1>13, <1>14, <1>15, FitsNext

-----------------------------------------------------------------------------
(* Every step.                                                             *)

LEMMA MoveOKStep ==
    ASSUME IInv, MoveOK, [Next]_vars
    PROVE  MoveOK'
<1>1. CASE req'.op \notin {"set", "in", "users", "last"}
  BY <1>1 DEF MoveOK
<1>2. ASSUME NEW t \in TopicIds, NEW g \in Forums, MoveOut(t, g)
      PROVE  MoveOK'
  <2>1. req'.op = "set" /\ req'.to = g /\ ~IsCategory(g)
    BY <1>2 DEF MoveOut, Idle
  <2>2. QED
    BY <2>1 DEF MoveOK
<1>3. CASE MoveSet
  <2>1. PICK t \in TopicIds, g \in Forums :
           t = req.topic /\ g = req.to /\ ~IsCategory(g)
    BY <1>3, MovingTopic DEF MoveSet, MoveOK
  <2>2. /\ req'.op = "in" /\ req'.topic = t /\ req'.to = g
        /\ topic' = [topic EXCEPT ![t].forum = g]
    BY <1>3, <2>1 DEF MoveSet, IInv, TypeOK, ReqType
  <2>3. topic'[t].forum = g
    BY <2>1, <2>2 DEF IInv, TypeOK, TablesType, TopicRow
  <2>4. QED
    BY <2>1, <2>2, <2>3 DEF MoveOK
<1>4. CASE MoveIn
  BY <1>4, NextOp DEF MoveIn, MoveOK
<1>5. CASE MoveUsers
  BY <1>5, NextOp DEF MoveUsers, MoveOK
<1>6. CASE UNCHANGED vars
  BY <1>6 DEF vars, MoveOK
<1>7. ASSUME NEW t \in TopicIds, NEW P \in SUBSET PostIds, NEW g \in Forums,
             SplitNew(t, P, g)
      PROVE  req'.op = "count"
  BY <1>7 DEF SplitNew, Idle
<1>8. CASE SplitCount
  BY <1>8, <1>1, NextOp DEF SplitCount
<1>9. /\ \A f \in Forums : CreateTopic(f) => req'.op = "post"
      /\ \A u \in Users : CreatePost(u) => req'.op = "idle"
      /\ \A t \in TopicIds, u \in Users : Reply(t, u) => req'.op = "idle"
      /\ \A p \in PostIds : DeletePost(p) => req'.op = "idle"
      /\ \A t \in TopicIds : DeleteTopic(t) => req'.op = "idle"
      /\ MoveLast \/ SplitPosts \/ Crash => req'.op = "idle"
      /\ \A t, n \in TopicIds, P \in SUBSET PostIds :
            SplitInto(t, P, n) => req'.op = "idle"
  <2>1. \A f \in Forums : CreateTopic(f) => req'.op = "post"
    BY DEF CreateTopic, Idle
  <2>2. /\ \A u \in Users : CreatePost(u) => req'.op = "idle"
        /\ \A t \in TopicIds, u \in Users : Reply(t, u) => req'.op = "idle"
    BY DEF CreatePost, Reply, Idle
  <2>3. /\ \A p \in PostIds : DeletePost(p) => req'.op = "idle"
        /\ \A t \in TopicIds : DeleteTopic(t) => req'.op = "idle"
    <3>1. ASSUME NEW p, DeletePost(p)
          PROVE  req = Idle /\ req' = req
      BY <3>1 DEF DeletePost
    <3>2. ASSUME NEW t, DeleteTopic(t)
          PROVE  req = Idle /\ req' = req
      BY <3>2 DEF DeleteTopic
    <3>3. Idle.op = "idle"
      BY DEF Idle
    <3>4. QED
      BY <3>1, <3>2, <3>3
  <2>4. MoveLast \/ SplitPosts \/ Crash => req'.op = "idle"
    BY DEF MoveLast, SplitPosts, Crash, Idle
  <2>5. \A t, n \in TopicIds, P \in SUBSET PostIds :
           SplitInto(t, P, n) => req'.op = "idle"
    BY DEF SplitInto, MaySplit, Idle
  <2>6. QED
    BY <2>1, <2>2, <2>3, <2>4, <2>5
<1>10. QED
  BY <1>1, <1>2, <1>3, <1>4, <1>5, <1>6, <1>7, <1>8, <1>9 DEF Next

(* What has spread stays so.                                               *)
LEMMA SpreadKept ==
    ASSUME IInv, [Next]_vars, leak.spread
    PROVE  leak'.spread
<1>1. leak \in [posts : [Forums -> Int], topics : [Forums -> Int],
                users : [Users -> Int], last : SUBSET Forums,
                spread : BOOLEAN]
  BY DEF IInv, TypeOK, CountersType
<1>2. ASSUME NEW P, NEW t, NEW n, NEW seen, Split(P, t, n, seen)
      PROVE  leak'.spread
  <2>1. PICK ts, x : leak' = [leak EXCEPT !.topics = ts, !.spread = @ \/ x]
    BY <1>2 DEF Split
  <2>2. QED
    BY <1>1, <2>1
<1>3. ASSUME NEW t, DeleteTopic(t)
      PROVE  leak'.spread
  <2>1. PICK ps, ts, us :
           leak' = [leak EXCEPT !.posts = ps, !.topics = ts, !.users = us]
    BY <1>3 DEF DeleteTopic
  <2>2. QED
    BY <1>1, <2>1
<1>4. CASE Crash
  <2>1. PICK ps, ts, us, ls :
           leak' = [leak EXCEPT !.posts = ps, !.topics = ts, !.users = us,
                                !.last = ls]
    BY <1>4 DEF Crash
  <2>2. QED
    BY <1>1, <2>1
<1>5. CASE SplitCount
  <2>1. PICK ts : ts = [leak.topics EXCEPT ![req.to] = @ + 1]
    OBVIOUS
  <2>2. leak' = [leak EXCEPT !.topics = ts]
    BY <1>5, <2>1 DEF SplitCount
  <2>3. QED
    BY <1>1, <2>2
<1>6. CASE leak' = leak
  BY <1>6
<1>7. QED
  BY <1>2, <1>3, <1>4, <1>5, <1>6
     DEF Next, vars, CreateTopic, CreatePost, Reply, DeletePost, MoveOut,
         MoveSet, MoveIn, MoveUsers, MoveLast, SplitNew, SplitPosts, SplitInto

(* While no posts have gone to another forum by a split, the counters are  *)
(* what the invariant says after every step.                               *)
LEMMA FitsStep ==
    ASSUME IInv, IInv', MoveOK, Fits, [Next]_vars, ~leak'.spread
    PROVE  Fits'
<1>1. ASSUME NEW f \in Forums, CreateTopic(f)
      PROVE  Fits'
  <2>1. /\ nextTopic <= MaxTopics
        /\ topic' = [topic EXCEPT ![nextTopic] = [BlankTopic EXCEPT !.forum = f]]
        /\ forum' = AddTopics(Chain[f], 1)
        /\ UNCHANGED <<post, userPosts, leak>>
        /\ req.op = "idle" /\ req'.op = "post"
    BY <1>1 DEF CreateTopic, Idle
  <2>2. QED
    BY <2>1, NewTopicFits
<1>2. ASSUME NEW u \in Users, CreatePost(u)
      PROVE  Fits'
  <2>1. PICK t \in TopicIds : t = req.topic /\ TopicExists(t)
    BY <1>2 DEF CreatePost, IInv, ReqOK
  <2>2. /\ InsertPost(t, u, 0) /\ leak' = leak
        /\ req.op = "post" /\ req'.op = "idle"
    BY <1>2, <2>1 DEF CreatePost, Idle
  <2>3. QED
    BY <2>1, <2>2, InsertFits
<1>3. ASSUME NEW t \in TopicIds, NEW u \in Users, Reply(t, u)
      PROVE  Fits'
  <2>1. PICK pos : pos = NextPosition(t)
    OBVIOUS
  <2>2. /\ InsertPost(t, u, pos) /\ leak' = leak /\ TopicExists(t)
        /\ req.op = "idle" /\ req'.op = "idle"
    BY <1>3, <2>1 DEF Reply, Idle
  <2>3. QED
    BY <2>2, InsertFits
<1>4. ASSUME NEW t \in TopicIds, NEW P \in SUBSET PostIds, NEW g \in Forums,
             SplitNew(t, P, g)
      PROVE  Fits'
  <2>1. /\ nextTopic <= MaxTopics
        /\ topic' = [topic EXCEPT ![nextTopic] = [BlankTopic EXCEPT !.forum = g]]
        /\ forum' = AddTopics(Chain[g], 1)
        /\ UNCHANGED <<post, userPosts, leak>>
        /\ req.op = "idle" /\ req'.op = "count"
    BY <1>4 DEF SplitNew, MaySplit, Idle
  <2>2. QED
    BY <2>1, NewTopicFits
<1>5. ASSUME NEW t \in TopicIds, NEW n \in TopicIds, NEW P, NEW seen,
             Split(P, t, n, seen)
      PROVE  topic[t].forum = topic[n].forum
  <2>1. PICK ts :
           leak' = [leak EXCEPT !.topics = ts,
                       !.spread = @ \/ topic[t].forum # topic[n].forum]
    BY <1>5 DEF Split
  <2>2. leak'.spread = (leak.spread \/ topic[t].forum # topic[n].forum)
    BY <2>1 DEF IInv, TypeOK, CountersType
  <2>3. QED
    BY <2>2
<1>6. CASE SplitPosts
  <2>1. PICK t \in TopicIds, n \in TopicIds, P \in SUBSET PostIds :
           /\ t = req.topic /\ n = req.new /\ P = req.posts
           /\ n # t /\ P # {} /\ P \subseteq PostsOf(t)
           /\ TopicExists(t) /\ TopicExists(n)
    BY <1>6 DEF SplitPosts, IInv, ReqOK, TypeOK, ReqType
  <2>2. PICK seen : /\ Split(P, t, n, seen)
                    /\ req.op = "split" /\ req'.op = "idle"
    BY <1>6, <2>1 DEF SplitPosts, Idle
  <2>3. topic[t].forum = topic[n].forum
    BY <1>5, <2>2
  <2>4. QED
    BY <2>1, <2>2, <2>3, SplitFits
<1>7. ASSUME NEW t \in TopicIds, NEW n \in TopicIds, NEW P \in SUBSET PostIds,
             SplitInto(t, P, n)
      PROVE  Fits'
  <2>1. /\ TopicExists(t) /\ TopicExists(n) /\ n # t
        /\ P # {} /\ P \subseteq PostsOf(t)
        /\ req.op = "idle" /\ req'.op = "idle"
    BY <1>7 DEF SplitInto, MaySplit, Idle
  <2>2. PICK seen : Split(P, t, n, seen)
    BY <1>7 DEF SplitInto
  <2>3. topic[t].forum = topic[n].forum
    BY <1>5, <2>2
  <2>4. QED
    BY <2>1, <2>2, <2>3, SplitFits
<1>8. CASE UNCHANGED vars
  BY <1>8, SameTables
     DEF vars, Fits, PostsFit, TopicsFit, UsersFit, LastsFit, MissingPosts,
         MissingTopics, MissingUser, Uncounted, UserShare, OnTheMove, PostExists
<1>9. ASSUME NEW p \in PostIds, DeletePost(p)
      PROVE  Fits'
  BY <1>9, DeletePostFits
<1>10. ASSUME NEW t \in TopicIds, DeleteTopic(t)
       PROVE  Fits'
  BY <1>10, DeleteTopicFits
<1>11. ASSUME NEW t \in TopicIds, NEW g \in Forums, MoveOut(t, g)
       PROVE  Fits'
  BY <1>11, MoveOutFits
<1>12. MoveSet \/ MoveIn \/ MoveUsers \/ MoveLast \/ SplitCount \/ Crash => Fits'
  BY MoveSetFits, MoveInFits, MoveUsersFits, MoveLastFits, SplitCountFits,
     CrashFits
<1>13. QED
  BY <1>1, <1>2, <1>3, <1>4, <1>6, <1>7, <1>8, <1>9, <1>10, <1>11, <1>12 DEF Next

LEMMA CountersInit == Init => CountersInv
<1> SUFFICES ASSUME Init
             PROVE  CountersInv
  OBVIOUS
<1>1. IInv /\ req.op = "idle"
  BY InitKeeps DEF Init, Idle
<1>2. /\ \A f : MissingPosts(f) = 0 /\ MissingTopics(f) = 0
      /\ \A u : MissingUser(u) = 0
  BY <1>1, NothingMissing
<1>3. /\ \A p \in PostIds : ~PostExists(p)
      /\ \A t \in TopicIds : ~TopicExists(t)
  BY DEF Init, PostExists, TopicExists, BlankPost, BlankTopic
<1>4. /\ \A f : PostsBelow(f) = {} /\ TopicsBelow(f) = {}
      /\ \A u : CountedPosts(u) = {}
  BY <1>3 DEF PostsBelow, TopicsBelow, CountedPosts
<1>5. Cardinality({}) = 0
  BY FS_EmptySet
<1>6. /\ \A f \in Forums : /\ forum[f].posts = 0 /\ forum[f].topics = 0
                           /\ leak.posts[f] = 0 /\ leak.topics[f] = 0
      /\ \A u \in Users : userPosts[u] = 0 /\ leak.users[u] = 0
  BY DEF Init
<1>7. PostsFit /\ TopicsFit /\ UsersFit
  <2>1. \A f : Cardinality(PostsBelow(f)) = 0 /\ Cardinality(TopicsBelow(f)) = 0
    BY <1>4, <1>5
  <2>2. \A u : Cardinality(CountedPosts(u)) = 0
    BY <1>4, <1>5
  <2>3. 0 = 0 + 0 - 0
    OBVIOUS
  <2>4. PostsFit
    BY <1>2, <1>6, <2>1, <2>3 DEF PostsFit
  <2>5. TopicsFit
    BY <1>2, <1>6, <2>1, <2>3 DEF TopicsFit
  <2>6. UsersFit
    BY <1>2, <1>6, <2>2, <2>3 DEF UsersFit
  <2>7. QED
    BY <2>4, <2>5, <2>6
<1>8. LastsFit
  BY <1>3 DEF LastsFit
<1>9. MoveOK
  BY <1>1 DEF MoveOK
<1>10. QED
  BY <1>7, <1>8, <1>9 DEF CountersInv, Fits

(* In every execution the counters of forums and users are, between any    *)
(* two transactions, those of the posts and topics below them, but for     *)
(* what a move has yet to count and for what the history explains.         *)
THEOREM CountersInvariant == Spec => []CountersInv
<1>1. IInv /\ IInv' /\ CountersInv /\ [Next]_vars => CountersInv'
  <2> SUFFICES ASSUME IInv, IInv', CountersInv, [Next]_vars
               PROVE  CountersInv'
    OBVIOUS
  <2>1. MoveOK'
    BY MoveOKStep DEF CountersInv
  <2>2. ASSUME ~leak'.spread
        PROVE  Fits'
    <3>1. ~leak.spread
      BY <2>2, SpreadKept
    <3>2. QED
      BY <2>2, <3>1, FitsStep DEF CountersInv
  <2>3. QED
    BY <2>1, <2>2 DEF CountersInv
<1>2. QED
  BY <1>1, CountersInit, InvariantHolds, PTL DEF Spec

(* For every forum tree, every order of requests and crashes between any   *)
(* two commits: until a split sends posts to another forum, the counters   *)
(* of a forum and of a user deviate from what they count only where a      *)
(* topic was deleted or counted twice or a move was cut short, and no      *)
(* forum's last post is older than one of its own.                         *)
THEOREM CountersHold == Spec => []CountersAddUp
<1>1. IInv /\ CountersInv => CountersAddUp
  <2> SUFFICES ASSUME IInv, Fits, req.op = "idle"
               PROVE  CountersExplained /\ ForumLastNotBehind
    BY DEF CountersInv, CountersAddUp, CountersExplained, ForumLastNotBehind, Idle
  <2>1. QED
    BY FitsNow DEF CountersExplained, ForumLastNotBehind
<1>2. QED
  BY <1>1, InvariantHolds, CountersInvariant, PTL

=============================================================================
