-------------------------- MODULE ReadStatusProofs --------------------------
(***************************************************************************)
(* What a user has read stays read, the forums agree with their topics,    *)
(* and the link to the first unread post is right: for any tree of forums, *)
(* any number of topics and posts, and any FORUM_LIMIT_UNREAD.             *)
(***************************************************************************)
EXTENDS ReadStatus, FiniteSetTheorems, NaturalLemmas, TLAPS

-----------------------------------------------------------------------------
(* The tree of forums.                                                     *)

\* Parents[f] is closed under "the parent of" and the least such set.
LEMMA ParentsLeast ==
    ASSUME ReadStatusAssumption, NEW f \in Forums
    PROVE  /\ Parents[f] \subseteq Forums
           /\ Up(f) \subseteq Parents[f]
           /\ \A y \in Parents[f] : Up(y) \subseteq Parents[f]
           /\ \A S \in SUBSET Forums :
                 Up(f) \subseteq S /\ (\A h \in S : Up(h) \subseteq S) => Parents[f] \subseteq S
<1> DEFINE Closed(S) == Up(f) \subseteq S /\ \A h \in S : Up(h) \subseteq S
<1>1. Parents[f] = {g \in Forums : \A S \in SUBSET Forums : Closed(S) => g \in S}
  BY DEF Parents
<1>2. \A y \in Forums : Up(y) \subseteq Forums
  BY DEF Up, ReadStatusAssumption
<1>3. Up(f) \subseteq Parents[f]
  BY <1>1, <1>2
<1>4. ASSUME NEW y \in Parents[f], NEW z \in Up(y) PROVE z \in Parents[f]
  <2>1. y \in Forums /\ z \in Forums
    BY <1>1, <1>2, <1>4
  <2>2. ASSUME NEW S \in SUBSET Forums, Closed(S) PROVE z \in S
    <3>1. y \in S
      BY <1>1, <1>4, <2>2
    <3>2. QED
      BY <1>4, <2>2, <3>1
  <2>3. QED
    BY <1>1, <2>1, <2>2
<1>5. QED
  BY <1>1, <1>3, <1>4

LEMMA ChainsNested ==
    ASSUME ReadStatusAssumption, NEW f \in Forums, NEW y \in Chain[f]
    PROVE  y \in Forums /\ Chain[y] \subseteq Chain[f] /\ (y # f => Chain[y] \subseteq Parents[f])
<1>1. Chain[f] = Parents[f] \cup {f} /\ y \in Forums
  BY ParentsLeast DEF Chain
<1>2. Chain[y] = Parents[y] \cup {y}
  BY <1>1 DEF Chain
<1>3. CASE y = f
  BY <1>1, <1>3
<1>4. CASE y # f
  <2>1. y \in Parents[f] /\ Parents[f] \in SUBSET Forums
    BY <1>1, <1>4, ParentsLeast
  <2>2. Up(y) \subseteq Parents[f] /\ \A h \in Parents[f] : Up(h) \subseteq Parents[f]
    BY <2>1, ParentsLeast
  <2>3. Parents[y] \subseteq Parents[f]
    BY <1>1, <2>1, <2>2, ParentsLeast
  <2>4. QED
    BY <1>1, <1>2, <2>1, <2>3
<1>5. QED
  BY <1>3, <1>4

\* What is above a forum is its parent and what is above that one.
LEMMA AboveAChild ==
    ASSUME ReadStatusAssumption, NEW c \in Forums, NEW h \in Forums, Parent[c] = h
    PROVE  Parents[c] = Chain[h]
<1>1. Up(c) = {h} /\ Chain[h] = Parents[h] \cup {h}
  BY DEF Up, Chain, ReadStatusAssumption
<1>2. h \in Parents[c] /\ h \in Chain[c]
  BY <1>1, ParentsLeast DEF Chain
<1>3. Chain[h] \subseteq Parents[c]
  <2>1. h \in Parents[c] /\ Parents[c] \in SUBSET Forums
    BY <1>2, ParentsLeast
  <2>2. Up(h) \subseteq Parents[c] /\ \A y \in Parents[c] : Up(y) \subseteq Parents[c]
    BY <2>1, ParentsLeast
  <2>3. Parents[h] \subseteq Parents[c]
    BY <2>1, <2>2, ParentsLeast
  <2>4. QED
    BY <1>1, <2>1, <2>3
<1>4. Parents[c] \subseteq Chain[h]
  <2>1. Chain[h] \in SUBSET Forums /\ Up(c) \subseteq Chain[h]
    BY <1>1, ParentsLeast
  <2>2. \A y \in Chain[h] : Up(y) \subseteq Chain[h]
    BY <1>1, ParentsLeast
  <2>3. QED
    BY <2>1, <2>2, ParentsLeast
<1>5. QED
  BY <1>3, <1>4

\* Two forums above a third one are above each other one way or the other.
LEMMA ChainIsLine ==
    ASSUME ReadStatusAssumption, NEW k \in Forums, NEW f \in Chain[k], NEW g \in Chain[k]
    PROVE  g \in Chain[f] \/ f \in Chain[g]
<1> DEFINE S == {y \in Forums : y \in Chain[f] \/ f \in Chain[y]}
<1>1. f \in Forums /\ g \in Forums
  BY ChainsNested
<1>2. ASSUME NEW h \in Forums, h \in Chain[f] \/ f \in Chain[h], NEW y \in Up(h) PROVE y \in S
  <2>1. y \in Forums /\ Parent[h] = y
    BY <1>2 DEF Up, ReadStatusAssumption
  <2>2. Parents[h] = Chain[y] /\ Chain[h] = Parents[h] \cup {h}
    BY <2>1, AboveAChild DEF Chain
  <2>3. y \in Chain[y]
    BY <2>1 DEF Chain
  <2>4. CASE h \in Chain[f]
    <3>1. Chain[h] \subseteq Chain[f]
      BY <1>1, <2>4, ChainsNested
    <3>2. QED
      BY <2>1, <2>2, <2>3, <3>1
  <2>5. CASE f \in Chain[h]
    BY <2>1, <2>2, <2>3, <2>5
  <2>6. QED
    BY <1>2, <2>4, <2>5
<1>3. Up(k) \subseteq S
  BY <1>2
<1>4. \A h \in S : Up(h) \subseteq S
  BY <1>2
<1>5. Parents[k] \subseteq S
  <2>1. S \in SUBSET Forums
    OBVIOUS
  <2> HIDE DEF S
  <2>2. QED
    BY <1>3, <1>4, <2>1, ParentsLeast
<1>6. k \in S
  OBVIOUS
<1>7. g \in S
  BY <1>5, <1>6 DEF Chain
<1>8. QED
  BY <1>7

LEMMA NoTwoAboveEachOther ==
    ASSUME ReadStatusAssumption, Trees, NEW f \in Forums, NEW g \in Chain[f], f \in Chain[g]
    PROVE  f = g
<1>1. g \in Forums /\ (g # f => Chain[g] \subseteq Parents[f])
  BY ChainsNested
<1>2. QED
  BY <1>1 DEF Trees

\* The way from a forum to one above it leads through a child of that one.
LEMMA WayLeadsThroughChild ==
    ASSUME ReadStatusAssumption, NEW f \in Forums, NEW g \in Parents[f]
    PROVE  \E c \in Children(g) : c \in Chain[f]
<1>1. SUFFICES ASSUME \A c \in Children(g) : c \notin Chain[f] PROVE FALSE
  OBVIOUS
<1> DEFINE S == Parents[f] \ {g}
<1>2. Parents[f] \subseteq Forums /\ Chain[f] = Parents[f] \cup {f}
  BY ParentsLeast DEF Chain
<1>3. \A y \in Chain[f] : g \notin Up(y)
  BY <1>1, <1>2 DEF Children, Up
<1>4. Up(f) \subseteq S /\ \A h \in S : Up(h) \subseteq S
  BY <1>2, <1>3, ParentsLeast
<1>5. Parents[f] \subseteq S
  <2>1. S \in SUBSET Forums
    BY <1>2
  <2> HIDE DEF S
  <2>2. QED
    BY <1>4, <2>1, ParentsLeast
<1>6. QED
  BY <1>5

\* The way from k up to g, which is above f, meets the way from f in some h.
LEMMA WaysMeet ==
    ASSUME ReadStatusAssumption, NEW f \in Forums, NEW g \in Parents[f], NEW k \in Below[g],
           k \notin Chain[f], k \notin Below[f]
    PROVE  \E h \in Parents[f] : h \in Below[g] /\
               \E c \in Children(h) : c \in Chain[k] /\ c \notin Chain[f]
<1>1. /\ g \in Forums /\ k \in Forums /\ g \in Chain[k] /\ g \in Chain[f]
      /\ Chain[f] = Parents[f] \cup {f} /\ Chain[k] = Parents[k] \cup {k} /\ f \notin Chain[k]
  BY ParentsLeast DEF Chain, Below
<1> DEFINE S == Chain[k] \ Chain[f]
<1>2. PICK c \in S : ~(Up(c) \subseteq S)
  <2>1. SUFFICES ASSUME \A c \in S : Up(c) \subseteq S PROVE FALSE
    OBVIOUS
  <2>2. S \in SUBSET Forums /\ k \in S
    BY <1>1, ParentsLeast
  <2>3. Parents[k] \subseteq S
    <3> HIDE DEF S
    <3>1. QED
      BY <1>1, <2>1, <2>2, ParentsLeast
  <2>4. QED
    BY <1>1, <2>3
<1>3. c \in Forums /\ Chain[c] \subseteq Chain[k] /\ Chain[c] = Parents[c] \cup {c}
  BY <1>1, <1>2, ChainsNested DEF Chain
<1>4. PICK h \in Up(c) : h \notin S
  BY <1>2
<1>5. h \in Forums /\ Parent[c] = h /\ Parents[c] = Chain[h] /\ h \in Chain[h]
  <2>1. h \in Forums /\ Parent[c] = h
    BY <1>3, <1>4 DEF Up, ReadStatusAssumption
  <2>2. h \in Chain[h]
    BY <2>1 DEF Chain
  <2>3. QED
    BY <1>3, <2>1, <2>2, AboveAChild
<1>6. h \in Chain[k] /\ h \in Chain[f] /\ h # f
  BY <1>1, <1>3, <1>4, <1>5
<1>7. g \in Chain[h]
  <2>1. g \in Chain[c] \/ c \in Chain[g]
    BY <1>1, <1>2, ChainIsLine
  <2>2. Chain[g] \subseteq Chain[f]
    BY <1>1, ChainsNested
  <2>3. g # c /\ c \notin Chain[g]
    BY <1>1, <1>2, <2>2
  <2>4. QED
    BY <1>3, <1>5, <2>1, <2>3
<1>8. QED
  BY <1>1, <1>2, <1>3, <1>5, <1>6, <1>7 DEF Below, Children

-----------------------------------------------------------------------------
(* Greatest and n-th elements.                                             *)

LEMMA GreatestFound ==
    ASSUME NEW n \in Nat, NEW S \in SUBSET (0..n)
    PROVE  /\ Greatest(S) \in 0..n
           /\ \A y \in S : y <= Greatest(S)
           /\ S # {} => Greatest(S) \in S
<1>1. CASE S = {}
  BY <1>1 DEF Greatest, None
<1>2. CASE S # {}
  <2>1. \E x \in S : \A y \in S : y <= x
    <3>1. CASE S \ {0} = {}
      <4>1. S = {0}
        BY <1>2, <3>1
      <4>2. QED
        BY <4>1
    <3>2. CASE S \ {0} # {}
      <4>1. S \ {0} \in SUBSET (1..n)
        OBVIOUS
      <4>2. PICK p \in S \ {0} : \A q \in S \ {0} : q <= p
        BY <3>2, <4>1, GreatestNatural
      <4>3. QED
        BY <4>1, <4>2
    <3>3. QED
      BY <3>1, <3>2
  <2>2. Greatest(S) \in S /\ \A y \in S : y <= Greatest(S)
    <3>1. Greatest(S) = CHOOSE x \in S : \A y \in S : y <= x
      BY <1>2 DEF Greatest
    <3>2. QED
      BY <2>1, <3>1
  <2>3. QED
    BY <2>2
<1>3. QED
  BY <1>1, <1>2

\* A finite set of ids has an n-th element, and a later one if there are more.
LEMMA NthFound ==
    ASSUME NEW m \in Nat, NEW S \in SUBSET (1..m), NEW n \in Nat, n + 1 < Cardinality(S)
    PROVE  Nth(S, n) \in S /\ \E y \in S : Nth(S, n) < y
<1> DEFINE Before(x) == {y \in S : y < x}
           L == {x \in S : Cardinality(Before(x)) >= n}
<1>1. IsFiniteSet(S) /\ Cardinality(S) \in Nat /\ S \in SUBSET Nat
  <2>1. IsFiniteSet(1..m)
    BY FS_Interval
  <2>2. IsFiniteSet(S)
    BY <2>1, FS_Subset
  <2>3. QED
    BY <2>2, FS_CardinalityType
<1>2. \A x \in S : IsFiniteSet(Before(x)) /\ Cardinality(Before(x)) \in Nat
  BY <1>1, FS_Subset, FS_CardinalityType
<1>3. S # {}
  BY <1>1, FS_EmptySet
<1>4. PICK last \in S : \A y \in S : y <= last
  BY <1>3, GreatestNatural
<1>5. Cardinality(Before(last)) = Cardinality(S) - 1
  <2>1. Before(last) = S \ {last}
    <3>1. \A y \in S : y < last <=> y # last
      BY <1>1, <1>4
    <3>2. QED
      BY <3>1
  <2> HIDE DEF Before
  <2>2. QED
    BY <1>1, <1>4, <2>1, FS_RemoveElement
<1>6. last \in L
  BY <1>1, <1>4, <1>5
<1>7. PICK x \in L : \A y \in L : x <= y
  <2>1. L \in SUBSET Nat
    BY <1>1
  <2> HIDE DEF L
  <2>2. QED
    BY <1>6, <2>1, LeastNatural
<1>8. Cardinality(Before(x)) = n
  <2>1. x \in S /\ Cardinality(Before(x)) >= n /\ Cardinality(Before(x)) \in Nat
    <3> HIDE DEF Before
    <3>1. QED
      BY <1>2, <1>7
  <2>2. SUFFICES ASSUME Cardinality(Before(x)) > n PROVE FALSE
    <3> HIDE DEF Before
    <3>1. QED
      BY <2>1
  <2>3. Before(x) # {}
    <3> HIDE DEF Before
    <3>1. QED
      BY <2>1, <2>2, FS_EmptySet
  <2>4. Before(x) \in SUBSET (1..m)
    OBVIOUS
  <2>5. PICK y \in Before(x) : \A z \in Before(x) : z <= y
    <3> HIDE DEF Before
    <3>1. QED
      BY <2>3, <2>4, GreatestNatural
  <2>6. Before(y) = Before(x) \ {y}
    <3>1. y \in S /\ y < x /\ x \in Nat /\ \A z \in S : z \in Nat /\ (z < x => z <= y)
      BY <1>1, <2>1, <2>5
    <3>2. \A z \in S : z < y <=> z < x /\ z # y
      BY <3>1
    <3>3. QED
      BY <3>2
  <2>7. Cardinality(Before(y)) = Cardinality(Before(x)) - 1
    <3>1. IsFiniteSet(Before(x))
      BY <1>2, <2>1
    <3> HIDE DEF Before
    <3>2. QED
      BY <2>5, <2>6, <3>1, FS_RemoveElement
  <2>8. y \in S /\ y < x /\ y \in Nat /\ x \in Nat
    BY <1>1, <2>1, <2>5
  <2>9. y \in L
    BY <2>1, <2>2, <2>7, <2>8
  <2>10. QED
    <3> HIDE DEF L
    <3>1. QED
      BY <1>7, <2>8, <2>9
<1>9. Nth(S, n) \in S /\ Cardinality(Before(Nth(S, n))) = n
  <2>1. x \in S
    BY <1>7
  <2>2. Nth(S, n) = CHOOSE z \in S : Cardinality(Before(z)) = n
    BY DEF Nth
  <2> HIDE DEF Before
  <2>3. QED
    BY <1>8, <2>1, <2>2
<1>10. Nth(S, n) # last
  <2> HIDE DEF Before
  <2>1. QED
    BY <1>1, <1>5, <1>9
<1>11. Nth(S, n) < last
  <2>1. \A y \in S : y \in Int /\ y <= last
    BY <1>1, <1>4
  <2>2. Nth(S, n) \in S
    BY <1>9
  <2>3. last \in Int /\ Nth(S, n) \in Int /\ Nth(S, n) <= last
    BY <2>1, <2>2
  <2>4. \A a, b \in Int : a <= b /\ a # b => a < b
    OBVIOUS
  <2>5. QED
    BY <1>10, <2>3, <2>4
<1>12. QED
  BY <1>4, <1>9, <1>11

-----------------------------------------------------------------------------
(* The invariant.                                                          *)

Posts == DOMAIN topicOf

PostsKept ==
    /\ IsFiniteSet(Posts) /\ Posts = 1..(NextPost - 1)
    /\ topicOf \in [Posts -> Topics]
    /\ at \in [Topics -> Forums \cup {Null}]
    /\ \A t \in Topics : Exists(t) <=> PostsOf(t) # {}
    /\ forumLast \in [Forums -> Nat] /\ \A f \in Forums : forumLast[f] < NextPost
    /\ \A t \in Topics : Exists(t) => TopicLast(t) <= forumLast[at[t]]
    /\ moves \in Nat

Rows == [Forums -> [upto : Nat, posts : SUBSET Posts]]

\* The mark of a forum is no newer than the topics read one by one.
RowsKept ==
    /\ data \in Rows
    /\ \A f \in Forums : data[f].upto < NextPost
    /\ \A f \in Forums : \A p \in data[f].posts : data[f].upto <= p

\* A visit is remembered by the mark or by one of the topic's last posts, and
\* what the status says of a topic is due to the mark or to a visit.
Remembered(to, row, own) ==
    /\ to <= row.upto \/ \E p \in row.posts \cap own : to <= p
    /\ \A p \in row.posts \cap own : p <= to \/ p <= row.upto

VisitsKept ==
    /\ readTo \in [Topics -> [Forums -> Nat]]
    /\ \A t \in Topics, f \in Forums : Remembered(readTo[t][f], data[f], PostsOf(t))

\* The last post of a forum is no older than those of the topics below it.
LastFound ==
    \A f \in Forums :
        /\ \A t \in Topics : Exists(t) /\ at[t] \in Below[f] => TopicLast(t) <= forumLast[f]
        /\ \A p \in data[f].posts : p <= forumLast[f]

Cover(d) ==
    \A f \in Forums : ForumRead(d, f) =>
        \A t \in Topics : Exists(t) /\ at[t] \in Below[f] => TopicRead(d, t)

LastOwn(f) == \E t \in Topics : at[t] = f /\ TopicLast(t) = forumLast[f]

\* A forum whose children are read is unread for a topic of its own.
Complete(d, f) ==
    (\A c \in Children(f) : ForumRead(d, c)) /\ (forumLast[f] \in d[f].posts \/ ~LastOwn(f))
        => ForumRead(d, f)

Unmoved == moves = 0 => LastFound /\ Cover(data) /\ \A f \in Forums : Complete(data, f)

ReadInv == PostsKept /\ RowsKept /\ VisitsKept /\ Unmoved

LEMMA LastPosts ==
    ASSUME PostsKept
    PROVE  /\ NextPost \in Nat \ {0}
           /\ \A t \in Topics :
                 /\ PostsOf(t) \in SUBSET (1..(NextPost - 1))
                 /\ TopicLast(t) \in Nat /\ TopicLast(t) < NextPost
                 /\ \A p \in PostsOf(t) : p <= TopicLast(t)
                 /\ Exists(t) => TopicLast(t) \in PostsOf(t)
<1>1. NextPost - 1 = Cardinality(Posts) /\ Cardinality(Posts) \in Nat /\ NextPost \in Nat \ {0}
  BY FS_CardinalityType DEF NextPost, PostsKept, Posts
<1>2. SUFFICES ASSUME NEW t \in Topics
               PROVE  /\ PostsOf(t) \in SUBSET (1..(NextPost - 1))
                      /\ TopicLast(t) \in Nat /\ TopicLast(t) < NextPost
                      /\ \A p \in PostsOf(t) : p <= TopicLast(t)
                      /\ Exists(t) => TopicLast(t) \in PostsOf(t)
  BY <1>1
<1>3. PostsOf(t) \in SUBSET (1..(NextPost - 1)) /\ PostsOf(t) \in SUBSET (0..(NextPost - 1))
  BY <1>1 DEF PostsOf, PostsKept, Posts
<1>4. /\ TopicLast(t) \in 0..(NextPost - 1)
      /\ \A p \in PostsOf(t) : p <= TopicLast(t)
      /\ PostsOf(t) # {} => TopicLast(t) \in PostsOf(t)
  BY <1>1, <1>3, GreatestFound DEF TopicLast
<1>5. Exists(t) => PostsOf(t) # {}
  BY DEF PostsKept
<1>6. QED
  BY <1>1, <1>3, <1>4, <1>5

-----------------------------------------------------------------------------
(* Marking a forum.                                                        *)

Whole(f) == [upto |-> forumLast[f], posts |-> {}]

LEMMA MarkForumRows ==
    ASSUME ReadStatusAssumption, Trees, PostsKept, NEW d \in Rows, NEW x \in Forums, ~ForumRead(d, x)
    PROVE  /\ x \in UnreadBelow(d, x)
           /\ MarkForum(d, x) \in Rows
           /\ \A g \in Forums :
                 IF g \in UnreadBelow(d, x) \cup CompletedAbove(d, x)
                 THEN ~ForumRead(d, g) /\ MarkForum(d, x)[g] = Whole(g)
                 ELSE MarkForum(d, x)[g] = d[g]
           /\ \A g \in Forums : ForumRead(MarkForum(d, x), g) <=>
                 ForumRead(d, g) \/ g \in UnreadBelow(d, x) \cup CompletedAbove(d, x)
<1> DEFINE M == UnreadBelow(d, x) \cup CompletedAbove(d, x)
           e == MarkForum(d, x)
<1>1. e = [g \in Forums |-> IF g \in M THEN Whole(g) ELSE d[g]]
  BY DEF MarkForum, Whole
<1>2. x \in UnreadBelow(d, x)
  <2>1. x \in Chain[x] /\ x \in Below[x]
    BY DEF Chain, Below
  <2>2. ASSUME NEW h \in Below[x], x \in Below[h] PROVE ~ForumRead(d, h)
    <3>1. h \in Forums /\ x \in Chain[h] /\ h \in Chain[x]
      BY <2>2 DEF Below
    <3>2. h = x
      BY <3>1, NoTwoAboveEachOther
    <3>3. QED
      BY <3>2
  <2>3. QED
    BY <2>1, <2>2 DEF UnreadBelow
<1>3. \A g \in M : ~ForumRead(d, g)
  <2>1. \A g \in Forums : g \in Below[g]
    BY DEF Chain, Below
  <2>2. \A g \in Below[x] : g \in Forums
    BY DEF Below
  <2>3. \A g \in Parents[x] : g \in Forums
    BY ParentsLeast
  <2>4. QED
    BY <2>1, <2>2, <2>3 DEF UnreadBelow, CompletedAbove
<1>4. \A g \in Forums : Whole(g) \in [upto : Nat, posts : SUBSET Posts] /\ Whole(g).upto = forumLast[g]
  BY DEF Whole, PostsKept
<1>5. \A g \in Forums : IF g \in M THEN e[g] = Whole(g) ELSE e[g] = d[g]
  <2> HIDE DEF M, e
  <2>1. QED
    BY <1>1
<1>6. e \in Rows
  <2> HIDE DEF M, e
  <2>1. \A g \in Forums : d[g] \in [upto : Nat, posts : SUBSET Posts]
    BY DEF Rows
  <2>2. \A g \in Forums : (IF g \in M THEN Whole(g) ELSE d[g]) \in [upto : Nat, posts : SUBSET Posts]
    BY <1>4, <2>1
  <2>3. QED
    BY <1>1, <2>2 DEF Rows
<1>7. ASSUME NEW g \in Forums PROVE ForumRead(e, g) <=> ForumRead(d, g) \/ g \in M
  <2> HIDE DEF M, e
  <2>1. forumLast[g] \in Nat
    BY DEF PostsKept
  <2>2. CASE g \in M
    <3>1. e[g].upto = forumLast[g]
      BY <1>4, <1>5, <2>2
    <3>2. QED
      BY <2>1, <2>2, <3>1 DEF ForumRead
  <2>3. CASE g \notin M
    BY <1>5, <2>3 DEF ForumRead
  <2>4. QED
    BY <2>2, <2>3
<1>8. QED
  BY <1>2, <1>3, <1>5, <1>6, <1>7

LEMMA MarkForumKeepsTopics ==
    ASSUME ReadStatusAssumption, Trees, PostsKept, NEW d \in Rows, NEW x \in Forums,
           NEW t \in Topics, Exists(t),
           TopicRead(d, t) \/ ForumRead(MarkForum(d, x), at[t])
    PROVE  ForumRead(d, x) \/ TopicRead(MarkForum(d, x), t)
<1>1. SUFFICES ASSUME ~ForumRead(d, x) PROVE TopicRead(MarkForum(d, x), t)
  OBVIOUS
<1>2. PICK e : e = MarkForum(d, x)
  OBVIOUS
<1>3. at[t] \in Forums /\ TopicLast(t) <= forumLast[at[t]] /\ forumLast[at[t]] \in Nat
  BY DEF PostsKept, Exists
<1>4. e \in Rows /\ (e[at[t]] = d[at[t]] \/ e[at[t]] = Whole(at[t]))
  BY <1>1, <1>2, <1>3, MarkForumRows
<1>5. TopicLast(t) \in Int
  BY LastPosts
<1>6. CASE e[at[t]] = Whole(at[t])
  <2>1. e[at[t]].upto = forumLast[at[t]]
    BY <1>6 DEF Whole
  <2>2. QED
    BY <1>2, <1>3, <1>5, <2>1 DEF TopicRead
<1>7. CASE e[at[t]] = d[at[t]] /\ TopicRead(d, t)
  BY <1>2, <1>7 DEF TopicRead
<1>8. CASE ForumRead(e, at[t])
  <2>1. e[at[t]].upto >= forumLast[at[t]] /\ e[at[t]].upto \in Nat
    BY <1>3, <1>4, <1>8 DEF ForumRead, Rows
  <2>2. QED
    BY <1>2, <1>3, <1>5, <2>1 DEF TopicRead
<1>9. QED
  BY <1>2, <1>4, <1>6, <1>7, <1>8

\* A forum that mark() marks hides nothing below it that is unread.
LEMMA MarkForumCovers ==
    ASSUME ReadStatusAssumption, Trees, PostsKept, NEW d \in Rows, NEW x \in Forums, Cover(d)
    PROVE  Cover(MarkForum(d, x))
<1>1. CASE ForumRead(d, x)
  BY <1>1 DEF MarkForum
<1>2. CASE ~ForumRead(d, x)
  <2> DEFINE U == UnreadBelow(d, x)
             A == CompletedAbove(d, x)
  <2>1. PICK e : e = MarkForum(d, x)
    OBVIOUS
  <2>2. /\ x \in U
        /\ \A g \in Forums : ForumRead(e, g) <=> ForumRead(d, g) \/ g \in U \cup A
    BY <1>2, <2>1, MarkForumRows
  <2>3. ASSUME NEW t \in Topics, Exists(t), TopicRead(d, t) \/ ForumRead(e, at[t])
        PROVE  TopicRead(e, t)
    BY <1>2, <2>1, <2>3, MarkForumKeepsTopics
  <2>4. SUFFICES ASSUME NEW g \in Forums, ForumRead(e, g),
                        NEW t \in Topics, Exists(t), at[t] \in Below[g]
                 PROVE  TopicRead(d, t) \/ ForumRead(e, at[t])
    BY <2>1, <2>3 DEF Cover
  <2>5. PICK k \in Forums : k = at[t] /\ k \in Below[g] /\ g \in Chain[k]
    BY <2>4 DEF Below
  <2>6. ASSUME NEW h \in Forums, ForumRead(d, h), k \in Below[h] PROVE TopicRead(d, t)
    BY <2>4, <2>5, <2>6 DEF Cover
  <2>7. CASE ForumRead(d, g)
    BY <2>5, <2>6, <2>7
  <2>8. CASE k \in Below[x]
    <3>1. CASE k \in U
      BY <2>2, <2>5, <3>1
    <3>2. CASE k \notin U
      <4>1. PICK h \in Below[x] : k \in Below[h] /\ ForumRead(d, h)
        BY <2>8, <3>2 DEF UnreadBelow
      <4>2. QED
        BY <2>6, <4>1 DEF Below
    <3>3. QED
      BY <3>1, <3>2
  <2>9. CASE g \in U
    <3>1. g \in Below[x]
      BY <2>9 DEF UnreadBelow
    <3>2. x \in Chain[g] /\ Chain[g] \subseteq Chain[k]
      BY <2>5, <3>1, ChainsNested DEF Below
    <3>3. k \in Below[x]
      BY <3>2 DEF Below
    <3>4. QED
      BY <2>8, <3>3
  <2>10. CASE g \in A /\ k \notin Below[x]
    <3>1. /\ g \in Parents[x]
          /\ \A h \in Parents[x] : h \in Below[g] =>
                ~ForumRead(d, h) /\ \A c \in Children(h) : c \in Chain[x] \/ ForumRead(d, c)
      BY <2>10 DEF CompletedAbove
    <3>2. CASE k \in Chain[x]
      <4>1. k # x /\ k \in Parents[x]
        <5>1. x \in Below[x]
          BY DEF Below, Chain
        <5>2. k # x
          BY <2>10, <5>1
        <5>3. QED
          BY <3>2, <5>2 DEF Chain
      <4>2. \A h \in Parents[x] : h \in Below[k] => h \in Below[g]
        <5>1. ASSUME NEW h \in Parents[x], h \in Below[k] PROVE h \in Below[g]
          <6>1. h \in Forums /\ k \in Chain[h]
            BY <5>1 DEF Below
          <6>2. Chain[k] \subseteq Chain[h]
            BY <6>1, ChainsNested
          <6>3. QED
            BY <2>5, <6>1, <6>2 DEF Below
        <5>2. QED
          BY <5>1
      <4>3. k \in A
        BY <3>1, <4>1, <4>2 DEF CompletedAbove
      <4>4. QED
        BY <2>2, <2>5, <4>3
    <3>3. CASE k \notin Chain[x]
      <4>1. PICK h \in Parents[x] : h \in Below[g] /\
                \E c \in Children(h) : c \in Chain[k] /\ c \notin Chain[x]
        BY <2>5, <2>10, <3>1, <3>3, WaysMeet
      <4>2. PICK c \in Children(h) : c \in Chain[k] /\ c \notin Chain[x]
        BY <4>1
      <4>3. ForumRead(d, c) /\ c \in Forums /\ k \in Below[c]
        BY <3>1, <4>1, <4>2 DEF Children, Below
      <4>4. QED
        BY <2>6, <4>3
    <3>4. QED
      BY <3>2, <3>3
  <2>11. QED
    BY <2>2, <2>4, <2>7, <2>8, <2>9, <2>10
<1>3. QED
  BY <1>1, <1>2

\* mark() goes up as far as all children are read.
LEMMA MarkForumCompletes ==
    ASSUME ReadStatusAssumption, Trees, PostsKept, NEW d \in Rows, NEW x \in Forums,
           ~ForumRead(d, x), \A f \in Forums \ {x} : Complete(d, f), NEW f \in Forums
    PROVE  Complete(MarkForum(d, x), f)
<1> DEFINE U == UnreadBelow(d, x)
           A == CompletedAbove(d, x)
<1>1. PICK e : e = MarkForum(d, x)
  OBVIOUS
<1>2. /\ x \in U
      /\ \A g \in Forums : IF g \in U \cup A THEN ~ForumRead(d, g) /\ e[g] = Whole(g) ELSE e[g] = d[g]
      /\ \A g \in Forums : ForumRead(e, g) <=> ForumRead(d, g) \/ g \in U \cup A
  BY <1>1, MarkForumRows
<1>3. SUFFICES ASSUME ~ForumRead(e, f), \A c \in Children(f) : ForumRead(e, c)
               PROVE  ~(forumLast[f] \in e[f].posts \/ ~LastOwn(f))
  BY <1>1 DEF Complete
<1>4. /\ f \notin U /\ f \notin A /\ f # x /\ ~ForumRead(d, f) /\ e[f] = d[f]
  BY <1>2, <1>3
<1>5. SUFFICES ASSUME \E c \in Children(f) : ~ForumRead(d, c) PROVE FALSE
  BY <1>4 DEF Complete
<1>6. PICK c \in Children(f) : ~ForumRead(d, c) /\ c \in U \cup A
  BY <1>2, <1>3, <1>5 DEF Children
<1>7. \A b \in Children(f) : b \in Forums /\ Chain[b] = Chain[f] \cup {b}
  <2>1. ASSUME NEW b \in Children(f) PROVE b \in Forums /\ Chain[b] = Chain[f] \cup {b}
    <3>1. b \in Forums /\ Parents[b] = Chain[f]
      BY <2>1, AboveAChild DEF Children
    <3>2. QED
      BY <3>1 DEF Chain
  <2>2. QED
    BY <2>1
<1>8. f \in Chain[f] /\ x \in Chain[x] /\ Chain[x] = Parents[x] \cup {x} /\ x \notin Parents[x]
  BY DEF Chain, Trees
\* An unread child off the way up from x is not marked.
<1>9. f \in Parents[x] => \A b \in Children(f) : b \in Chain[x] \/ ForumRead(d, b)
  <2>1. SUFFICES ASSUME f \in Parents[x], NEW b \in Children(f), b \notin Chain[x], ~ForumRead(d, b)
                 PROVE  FALSE
    OBVIOUS
  <2>2. b \in U \cup A
    BY <1>2, <1>3, <1>7, <2>1
  <2>3. b \in U
    BY <1>8, <2>1, <2>2 DEF CompletedAbove
  <2>4. x \in Chain[f]
    BY <1>7, <1>8, <2>1, <2>3 DEF UnreadBelow, Below
  <2>5. f = x
    BY <1>8, <2>1, <2>4, NoTwoAboveEachOther
  <2>6. QED
    BY <1>4, <2>5
\* So mark() would have reached f on its way up.
<1>10. ASSUME f \in Parents[x], \A h \in Parents[x] : h \in Below[f] /\ h # f =>
                 ~ForumRead(d, h) /\ \A b \in Children(h) : b \in Chain[x] \/ ForumRead(d, b)
       PROVE  FALSE
  BY <1>4, <1>9, <1>10 DEF CompletedAbove
<1>11. CASE c = x
  <2>1. Parents[x] = Chain[f]
    BY <1>11, AboveAChild DEF Children
  <2>2. \A h \in Parents[x] : h \in Below[f] => h = f
    BY <2>1, NoTwoAboveEachOther DEF Below
  <2>3. QED
    BY <1>8, <1>10, <2>1, <2>2
<1>12. CASE c \in U /\ c # x
  <2>1. c \in Below[x] /\ \A h \in Below[x] : c \in Below[h] => ~ForumRead(d, h)
    BY <1>12 DEF UnreadBelow
  <2>2. f \in Below[x]
    BY <1>7, <1>12, <2>1 DEF Below
  <2>3. PICK h \in Below[x] : f \in Below[h] /\ ForumRead(d, h)
    BY <1>4, <2>2 DEF UnreadBelow
  <2>4. c \in Below[h]
    BY <1>7, <2>3 DEF Below
  <2>5. QED
    BY <2>1, <2>3, <2>4
<1>13. CASE c \in A
  <2>1. /\ c \in Parents[x]
        /\ \A h \in Parents[x] : h \in Below[c] =>
              ~ForumRead(d, h) /\ \A b \in Children(h) : b \in Chain[x] \/ ForumRead(d, b)
    BY <1>13 DEF CompletedAbove
  <2>2. f \in Parents[x]
    <3>1. Chain[c] \subseteq Chain[x]
      BY <2>1, ChainsNested DEF Chain
    <3>2. QED
      BY <1>4, <1>7, <1>8, <3>1
  <2>3. ASSUME NEW h \in Parents[x], h \in Below[f], h # f PROVE h \in Below[c]
    <3>1. h \in Forums /\ f \in Chain[h] /\ h \in Chain[x] /\ c \in Chain[x] /\ h \in Chain[h]
      BY <1>8, <2>1, <2>3 DEF Below, Chain
    <3>2. c \in Chain[h] \/ h \in Chain[c]
      BY <3>1, ChainIsLine
    <3>3. h \in Chain[f] => h = f
      BY <3>1, NoTwoAboveEachOther
    <3>4. QED
      BY <1>7, <2>3, <3>1, <3>2, <3>3 DEF Below
  <2>4. QED
    BY <1>10, <2>1, <2>2, <2>3
<1>14. QED
  BY <1>6, <1>11, <1>12, <1>13

-----------------------------------------------------------------------------
(* The rows of the status go on.                                           *)

\* The rows e follow those of data when the topics V are viewed: a forum is
\* marked as a whole, or its row keeps what it says is read.
Advanced(e, V) ==
    /\ e \in Rows
    /\ \A g \in Forums :
        /\ data[g].upto <= e[g].upto /\ e[g].upto < NextPost
        /\ \A p \in e[g].posts :
              e[g].upto <= p /\ (p \in data[g].posts \/ \E t \in V : at[t] = g /\ p = TopicLast(t))
        /\ \/ e[g] = Whole(g) /\ data[g].upto < forumLast[g]
           \/ /\ e[g].posts # {} \/ e[g].upto = data[g].upto
              /\ \A p \in data[g].posts : p \in e[g].posts \/ p <= e[g].upto
    /\ \A t \in V : TopicRead(e, t)

LEMMA AdvancedKeepsRead ==
    ASSUME PostsKept, RowsKept, NEW e, NEW V, Advanced(e, V),
           NEW t \in Topics, Exists(t), TopicRead(data, t)
    PROVE  TopicRead(e, t)
<1>1. PICK g \in Forums : g = at[t]
  BY DEF PostsKept, Exists
<1>2. PICK last \in Nat : last = TopicLast(t) /\ last <= forumLast[g] /\ forumLast[g] \in Nat
  BY <1>1, LastPosts DEF PostsKept
<1>3. data[g] \in [upto : Nat, posts : SUBSET Posts] /\ e[g] \in [upto : Nat, posts : SUBSET Posts]
  BY <1>1 DEF RowsKept, Rows, Advanced
<1>4. SUFFICES e[g].upto >= last \/ last \in e[g].posts
  BY <1>1, <1>2 DEF TopicRead
<1>5. data[g].upto >= last \/ last \in data[g].posts
  BY <1>1, <1>2 DEF TopicRead
<1>6. CASE e[g] = Whole(g)
  BY <1>2, <1>6 DEF Whole
<1>7. CASE \A p \in data[g].posts : p \in e[g].posts \/ p <= e[g].upto
  <2>1. data[g].upto <= e[g].upto
    BY DEF Advanced
  <2>2. CASE data[g].upto >= last
    BY <1>2, <1>3, <2>1, <2>2
  <2>3. CASE last \in data[g].posts
    BY <1>2, <1>3, <1>7, <2>3
  <2>4. QED
    BY <1>5, <2>2, <2>3
<1>8. QED
  BY <1>6, <1>7 DEF Advanced

LEMMA AdvancedKeepsRows ==
    ASSUME PostsKept, RowsKept, VisitsKept, NEW V \in SUBSET Topics, \A t \in V : Exists(t),
           Advanced(data', V), UNCHANGED <<at, topicOf, forumLast, moves>>,
           readTo' = [t \in Topics |-> [g \in Forums |->
               IF g \in Marked THEN None
               ELSE IF t \in V /\ g = at[t] THEN TopicLast(t) ELSE readTo[t][g]]]
    PROVE  PostsKept' /\ RowsKept' /\ VisitsKept'
<1>1. Posts' = Posts /\ NextPost' = NextPost /\ Rows' = Rows
      /\ \A t \in Topics : PostsOf(t)' = PostsOf(t) /\ TopicLast(t)' = TopicLast(t)
  BY DEF Posts, NextPost, Rows, PostsOf, TopicLast
<1>2. PostsKept'
  BY <1>1 DEF PostsKept, Exists
<1>3. RowsKept'
  BY <1>1 DEF RowsKept, Advanced
<1>4. readTo' \in [Topics -> [Forums -> Nat]]
  <2>1. \A t \in Topics : TopicLast(t) \in Nat /\ \A g \in Forums : readTo[t][g] \in Nat
    BY LastPosts DEF VisitsKept
  <2>2. QED
    BY <2>1 DEF None
<1>5. SUFFICES ASSUME NEW t \in Topics, NEW g \in Forums
               PROVE  Remembered(readTo'[t][g], data'[g], PostsOf(t))
  <2>1. SUFFICES VisitsKept'
    BY <1>2, <1>3
  <2>2. \A t \in Topics, g \in Forums : Remembered(readTo'[t][g], data'[g], PostsOf(t)')
    BY <1>1, <1>5
  <2>3. QED
    BY <1>4, <2>2 DEF VisitsKept
<1>6. PICK r \in [upto : Nat, posts : SUBSET Posts] : r = data[g]
  BY DEF RowsKept, Rows
<1>7. PICK s \in [upto : Nat, posts : SUBSET Posts] : s = data'[g]
  BY DEF Advanced, Rows
<1>8. /\ PostsOf(t) \subseteq Nat /\ TopicLast(t) \in Nat /\ readTo[t][g] \in Nat
      /\ \A p \in PostsOf(t) : p <= TopicLast(t)
      /\ Exists(t) => TopicLast(t) \in PostsOf(t)
  BY LastPosts DEF VisitsKept
<1>9. /\ r.upto <= s.upto
      /\ \A p \in s.posts : s.upto <= p /\ (p \in r.posts \/ \E v \in V : at[v] = g /\ p = TopicLast(v))
      /\ \/ s = Whole(g) /\ r.upto < forumLast[g]
         \/ /\ s.posts # {} \/ s.upto = r.upto
            /\ \A p \in r.posts : p \in s.posts \/ p <= s.upto
  BY <1>6, <1>7 DEF Advanced
<1>10. CASE g \in Marked
  <2>1. readTo'[t][g] = 0 /\ s.posts = {}
    BY <1>7, <1>10 DEF Marked, None
  <2>2. QED
    BY <1>7, <2>1 DEF Remembered
<1>11. CASE g \notin Marked
  <2>1. ~(s.posts = {} /\ s.upto # r.upto)
    BY <1>6, <1>7, <1>11 DEF Marked
  <2>2. \A p \in r.posts : p \in s.posts \/ p <= s.upto
    <3>1. SUFFICES ASSUME s = Whole(g), r.upto < forumLast[g] PROVE FALSE
      BY <1>9
    <3>2. s.posts = {} /\ s.upto = forumLast[g]
      BY <3>1 DEF Whole
    <3>3. QED
      BY <1>6, <1>7, <2>1, <3>1, <3>2
  <2>3. CASE t \in V /\ g = at[t]
    <3>1. readTo'[t][g] = TopicLast(t) /\ TopicLast(t) \in PostsOf(t)
      BY <1>8, <1>11, <2>3
    <3>2. TopicRead(data', t)
      BY <2>3 DEF Advanced
    <3>3. s.upto >= TopicLast(t) \/ TopicLast(t) \in s.posts
      BY <1>7, <2>3, <3>2 DEF TopicRead
    <3>4. QED
      BY <1>7, <1>8, <3>1, <3>3 DEF Remembered
  <2>4. CASE ~(t \in V /\ g = at[t])
    <3>1. PICK to \in Nat : to = readTo[t][g] /\ to = readTo'[t][g]
      BY <1>8, <1>11, <2>4
    <3>2. /\ to <= r.upto \/ \E p \in r.posts \cap PostsOf(t) : to <= p
          /\ \A p \in r.posts \cap PostsOf(t) : p <= to \/ p <= r.upto
      <4>1. Remembered(to, r, PostsOf(t))
        BY <1>6, <3>1 DEF VisitsKept
      <4>2. QED
        BY <4>1 DEF Remembered
    <3>3. ASSUME NEW p \in s.posts \cap PostsOf(t) PROVE p \in r.posts
      <4>1. SUFFICES ASSUME NEW v \in V, at[v] = g, p = TopicLast(v) PROVE FALSE
        BY <1>9, <3>3
      <4>2. p \in PostsOf(v)
        BY <4>1, LastPosts
      <4>3. v = t
        BY <3>3, <4>2 DEF PostsOf
      <4>4. QED
        BY <2>4, <4>1, <4>3
    <3>4. to <= s.upto \/ \E p \in s.posts \cap PostsOf(t) : to <= p
      <4>1. CASE to <= r.upto
        BY <1>6, <1>7, <1>9, <4>1
      <4>2. CASE \E p \in r.posts \cap PostsOf(t) : to <= p
        <5>1. PICK p \in r.posts \cap PostsOf(t) : to <= p
          BY <4>2
        <5>2. p \in s.posts \/ (p <= s.upto /\ p \in Nat)
          BY <1>8, <2>2, <5>1
        <5>3. QED
          BY <1>7, <5>1, <5>2
      <4>3. QED
        BY <3>2, <4>1, <4>2
    <3>5. ASSUME NEW p \in s.posts \cap PostsOf(t) PROVE p <= to \/ p <= s.upto
      <4>1. p \in Nat /\ (p <= to \/ p <= r.upto)
        BY <1>8, <3>2, <3>3
      <4>2. QED
        BY <1>6, <1>7, <1>9, <4>1
    <3>6. QED
      BY <1>7, <3>1, <3>4, <3>5 DEF Remembered
  <2>5. QED
    BY <2>3, <2>4
<1>12. QED
  BY <1>10, <1>11

LEMMA MarkForumAdvances ==
    ASSUME ReadStatusAssumption, Trees, PostsKept, RowsKept, NEW f \in Forums
    PROVE  Advanced(MarkForum(data, f), {})
<1>1. PICK e : e = MarkForum(data, f)
  OBVIOUS
<1>2. e \in Rows
  BY <1>1, MarkForumRows DEF MarkForum, RowsKept
<1>3. SUFFICES ASSUME NEW g \in Forums
      PROVE  /\ data[g].upto <= e[g].upto /\ e[g].upto < NextPost
             /\ \A p \in e[g].posts : e[g].upto <= p /\ p \in data[g].posts
             /\ \/ e[g] = Whole(g) /\ data[g].upto < forumLast[g]
                \/ e[g] = data[g]
  BY <1>1, <1>2 DEF Advanced
<1>4. /\ data[g].upto \in Nat /\ forumLast[g] \in Nat /\ forumLast[g] < NextPost
      /\ data[g].upto < NextPost /\ \A p \in data[g].posts : data[g].upto <= p
  BY DEF RowsKept, Rows, PostsKept
<1>5. e[g] = data[g] \/ (~ForumRead(data, g) /\ e[g] = Whole(g))
  BY <1>1, MarkForumRows DEF MarkForum, RowsKept
<1>6. CASE e[g] = data[g]
  BY <1>4, <1>6
<1>7. CASE ~ForumRead(data, g) /\ e[g] = Whole(g)
  <2>1. e[g].upto = forumLast[g] /\ e[g].posts = {} /\ data[g].upto < forumLast[g]
    BY <1>4, <1>7 DEF Whole, ForumRead
  <2>2. QED
    BY <1>4, <1>7, <2>1
<1>8. QED
  BY <1>5, <1>6, <1>7

LEMMA TruncatedFound ==
    ASSUME ReadStatusAssumption, PostsKept, NEW row \in [upto : Nat, posts : SUBSET Posts],
           Cardinality(row.posts) > LimitUnread, \A p \in row.posts : row.upto <= p
    PROVE  /\ Truncated(row) \in [upto : Nat, posts : SUBSET Posts]
           /\ Truncated(row).upto \in row.posts /\ row.upto <= Truncated(row).upto
           /\ Truncated(row).posts = {p \in row.posts : p >= Truncated(row).upto}
           /\ \E y \in row.posts : Truncated(row).upto < y
<1>1. NextPost - 1 \in Nat /\ Posts = 1..(NextPost - 1)
  BY LastPosts DEF PostsKept
<1>2. IsFiniteSet(row.posts) /\ Cardinality(row.posts) \in Nat
  BY FS_Subset, FS_CardinalityType DEF PostsKept
<1>3. PICK n \in Nat : n = LimitUnread \div 2 /\ n + 1 < Cardinality(row.posts)
  BY <1>2 DEF ReadStatusAssumption
<1>4. PICK middle : middle = Nth(row.posts, n)
  OBVIOUS
<1>5. middle \in row.posts /\ \E y \in row.posts : middle < y
  <2>1. row.posts \in SUBSET (1..(NextPost - 1))
    BY <1>1
  <2>2. QED
    BY <1>1, <1>3, <1>4, <2>1, NthFound
<1>6. Truncated(row) = [upto |-> middle, posts |-> {p \in row.posts : p >= middle}]
  BY <1>3, <1>4 DEF Truncated
<1>7. middle \in Nat
  BY <1>1, <1>5
<1>8. QED
  BY <1>5, <1>6, <1>7

\* The row of the topic's forum with the topic's last post added.
Added(t) == [data[at[t]] EXCEPT !.posts = @ \cup {TopicLast(t)}]

InPlace(t) == IF data[at[t]] = NoRow THEN data ELSE [data EXCEPT ![at[t]] = Added(t)]

ChildrenRead(f) == \A c \in Children(f) : ForumRead(data, c)
Newer(t) == forumLast[at[t]] > data[at[t]].upto /\ forumLast[at[t]] \notin Added(t).posts

LEMMA AddedRow ==
    ASSUME PostsKept, RowsKept, NEW t \in Topics, Exists(t), ~TopicRead(data, t)
    PROVE  /\ at[t] \in Forums /\ TopicLast(t) \in Posts
           /\ Added(t) \in [upto : Nat, posts : SUBSET Posts]
           /\ Added(t).upto = data[at[t]].upto
           /\ Added(t).posts = data[at[t]].posts \cup {TopicLast(t)}
           /\ \A p \in Added(t).posts : Added(t).upto <= p
           /\ ~ForumRead(data, at[t])
<1>1. PICK x \in Forums : x = at[t]
  BY DEF PostsKept, Exists
<1>2. PICK last \in Posts : last = TopicLast(t) /\ last \in Nat /\ last <= forumLast[x]
  <2>1. TopicLast(t) \in PostsOf(t) /\ TopicLast(t) \in Nat
    BY LastPosts
  <2>2. QED
    BY <1>1, <2>1 DEF PostsOf, Posts, PostsKept
<1>3. PICK r \in [upto : Nat, posts : SUBSET Posts] : r = data[x]
  BY DEF RowsKept, Rows
<1>4. ~(r.upto >= last) /\ forumLast[x] \in Nat
  BY <1>1, <1>2, <1>3 DEF TopicRead, PostsKept
<1>5. Added(t) = [r EXCEPT !.posts = @ \cup {last}]
  BY <1>1, <1>2, <1>3 DEF Added
<1>6. PICK a \in [upto : Nat, posts : SUBSET Posts] :
         a = Added(t) /\ a.upto = r.upto /\ a.posts = r.posts \cup {last}
  BY <1>5
<1>7. \A p \in a.posts : a.upto <= p
  BY <1>2, <1>3, <1>4, <1>6 DEF RowsKept
<1>8. ~ForumRead(data, x)
  BY <1>2, <1>3, <1>4 DEF ForumRead
<1>9. QED
  BY <1>1, <1>2, <1>3, <1>6, <1>7, <1>8

\* What the three cases of mark() for a topic come to.
LEMMA MarkTopicCases ==
    ASSUME PostsKept, RowsKept, NEW t \in Topics, Exists(t)
    PROVE  \/ TopicRead(data, t) /\ MarkTopic(data, t) = data
           \/ /\ ~TopicRead(data, t) /\ ChildrenRead(at[t]) /\ ~Newer(t)
              /\ MarkTopic(data, t) = MarkForum(InPlace(t), at[t])
           \/ /\ ~TopicRead(data, t) /\ (ChildrenRead(at[t]) => Newer(t))
              /\ MarkTopic(data, t) = [data EXCEPT ![at[t]] =
                    IF Cardinality(Added(t).posts) > LimitUnread THEN Truncated(Added(t)) ELSE Added(t)]
<1> DEFINE later == [data EXCEPT ![at[t]] =
                IF Cardinality(Added(t).posts) > LimitUnread THEN Truncated(Added(t)) ELSE Added(t)]
<1>1. MarkTopic(data, t) =
        CASE TopicRead(data, t) -> data
          [] ~TopicRead(data, t) /\ ChildrenRead(at[t])
                /\ ~(forumLast[at[t]] > Added(t).upto /\ forumLast[at[t]] \notin Added(t).posts)
               -> MarkForum(InPlace(t), at[t])
          [] OTHER -> later
  BY DEF MarkTopic, Added, InPlace, ChildrenRead
<1>2. ~TopicRead(data, t) => Added(t).upto = data[at[t]].upto
  BY AddedRow
<1>3. Newer(t) <=> forumLast[at[t]] > data[at[t]].upto /\ forumLast[at[t]] \notin Added(t).posts
  BY DEF Newer
<1> HIDE DEF later
<1>4. CASE TopicRead(data, t)
  BY <1>1, <1>4
<1>5. CASE ~TopicRead(data, t) /\ ChildrenRead(at[t]) /\ ~Newer(t)
  BY <1>1, <1>2, <1>3, <1>5
<1>6. CASE ~TopicRead(data, t) /\ ~(ChildrenRead(at[t]) /\ ~Newer(t))
  <2>1. MarkTopic(data, t) = later
    BY <1>1, <1>2, <1>3, <1>6
  <2>2. QED
    BY <1>6, <2>1 DEF later
<1>7. QED
  BY <1>4, <1>5, <1>6

LEMMA InPlaceRows ==
    ASSUME PostsKept, RowsKept, NEW t \in Topics, Exists(t), ~TopicRead(data, t)
    PROVE  /\ InPlace(t) \in Rows
           /\ \A g \in Forums : InPlace(t)[g] = data[g] \/ (g = at[t] /\ InPlace(t)[g] = Added(t))
           /\ \A g \in Forums : ForumRead(InPlace(t), g) <=> ForumRead(data, g)
<1>1. /\ data \in Rows /\ at[t] \in Forums /\ Added(t) \in [upto : Nat, posts : SUBSET Posts]
      /\ Added(t).upto = data[at[t]].upto
  BY AddedRow DEF RowsKept
<1>2. InPlace(t) \in Rows
        /\ \A g \in Forums : InPlace(t)[g] = data[g] \/ (g = at[t] /\ InPlace(t)[g] = Added(t))
  BY <1>1 DEF InPlace, Rows
<1>3. \A g \in Forums : InPlace(t)[g].upto = data[g].upto
  BY <1>1, <1>2
<1>4. QED
  BY <1>2, <1>3 DEF ForumRead

LEMMA MarkTopicAdvances ==
    ASSUME ReadStatusAssumption, Trees, PostsKept, RowsKept, NEW t \in Topics, Exists(t)
    PROVE  Advanced(MarkTopic(data, t), {t})
<1>1. PICK e : e = MarkTopic(data, t)
  OBVIOUS
<1>2. PICK x \in Forums : x = at[t]
  BY DEF PostsKept, Exists
<1>3. PICK last \in Nat : last = TopicLast(t) /\ last <= forumLast[x]
  BY <1>2, LastPosts DEF PostsKept
<1>4. \A g \in Forums :
        /\ data[g] \in [upto : Nat, posts : SUBSET Posts] /\ data[g].upto \in Nat
        /\ forumLast[g] \in Nat /\ forumLast[g] < NextPost
        /\ data[g].upto < NextPost /\ \A p \in data[g].posts : data[g].upto <= p
  BY DEF RowsKept, Rows, PostsKept
<1>5. CASE TopicRead(data, t) /\ e = data
  <2>1. data \in Rows
    BY DEF RowsKept
  <2>2. QED
    BY <1>1, <1>4, <1>5, <2>1 DEF Advanced
<1>6. CASE ~TopicRead(data, t) /\ e = MarkForum(InPlace(t), x)
  <2>1. PICK d \in Rows : d = InPlace(t) /\ \A g \in Forums : ForumRead(d, g) <=> ForumRead(data, g)
    BY <1>6, InPlaceRows
  <2>2. ~ForumRead(d, x)
    BY <1>2, <1>6, <2>1, AddedRow
  <2>3. /\ e \in Rows
        /\ \A g \in Forums : e[g] = d[g] \/ (~ForumRead(d, g) /\ e[g] = Whole(g))
        /\ e[x] = Whole(x)
    BY <1>6, <2>1, <2>2, MarkForumRows
  <2>4. TopicRead(e, t)
    <3>1. e[x].upto = forumLast[x] /\ forumLast[x] \in Nat
      BY <1>4, <2>3 DEF Whole
    <3>2. QED
      BY <1>2, <1>3, <3>1 DEF TopicRead
  <2>5. SUFFICES ASSUME NEW g \in Forums
        PROVE  /\ data[g].upto <= e[g].upto /\ e[g].upto < NextPost
               /\ \A p \in e[g].posts : e[g].upto <= p /\ p \in data[g].posts
               /\ (e[g] = Whole(g) /\ data[g].upto < forumLast[g]) \/ e[g] = data[g]
    BY <1>1, <2>3, <2>4 DEF Advanced
  <2>6. CASE e[g] = Whole(g) /\ ~ForumRead(data, g)
    <3>1. e[g].upto = forumLast[g] /\ e[g].posts = {} /\ data[g].upto < forumLast[g]
      BY <1>4, <2>6 DEF Whole, ForumRead
    <3>2. QED
      BY <1>4, <2>6, <3>1
  <2>7. CASE e[g] = data[g]
    BY <1>4, <2>7
  <2>8. QED
    <3>1. g # x => d[g] = data[g]
      BY <1>2, <1>6, <2>1, InPlaceRows
    <3>2. x = g => ~ForumRead(data, g)
      BY <2>1, <2>2
    <3>3. QED
      BY <2>1, <2>3, <2>6, <2>7, <3>1, <3>2
<1>7. CASE /\ ~TopicRead(data, t)
           /\ e = [data EXCEPT ![x] =
                IF Cardinality(Added(t).posts) > LimitUnread THEN Truncated(Added(t)) ELSE Added(t)]
  <2>1. PICK a \in [upto : Nat, posts : SUBSET Posts] :
           /\ a = Added(t) /\ a.upto = data[x].upto /\ a.posts = data[x].posts \cup {last}
           /\ \A p \in a.posts : a.upto <= p
    BY <1>2, <1>3, <1>7, AddedRow
  <2>2. PICK row : row = IF Cardinality(a.posts) > LimitUnread THEN Truncated(a) ELSE a
    OBVIOUS
  <2>3. /\ row \in [upto : Nat, posts : SUBSET Posts]
        /\ a.upto <= row.upto /\ row.upto < NextPost /\ row.posts # {}
        /\ \A p \in row.posts : row.upto <= p /\ p \in a.posts
        /\ \A p \in a.posts : p \in row.posts \/ p <= row.upto
    <3>1. Posts \subseteq Nat /\ \A p \in Posts : p < NextPost
      BY LastPosts DEF PostsKept
    <3>2. CASE Cardinality(a.posts) > LimitUnread
      <4>1. /\ row \in [upto : Nat, posts : SUBSET Posts]
            /\ row.upto \in a.posts /\ a.upto <= row.upto
            /\ row.posts = {p \in a.posts : p >= row.upto}
        BY <2>1, <2>2, <3>2, TruncatedFound
      <4>2. \A p \in a.posts : p \in Nat
        BY <3>1
      <4>3. row.upto \in row.posts
        BY <4>1, <4>2
      <4>4. QED
        BY <3>1, <4>1, <4>2, <4>3
    <3>3. CASE ~(Cardinality(a.posts) > LimitUnread)
      <4>1. row = a
        BY <2>2, <3>3
      <4>2. QED
        BY <1>4, <2>1, <4>1
    <3>4. QED
      BY <3>2, <3>3
  <2>4. e \in Rows /\ e[x] = row /\ \A g \in Forums : g # x => e[g] = data[g]
    <3>1. e = [data EXCEPT ![x] = row] /\ data \in Rows
      BY <1>7, <2>1, <2>2 DEF RowsKept
    <3>2. QED
      BY <2>3, <3>1 DEF Rows
  <2>5. TopicRead(e, t)
    <3>1. last \in row.posts \/ last <= row.upto
      BY <2>1, <2>3
    <3>2. QED
      BY <1>2, <1>3, <2>3, <2>4, <3>1 DEF TopicRead
  <2>6. ASSUME NEW g \in Forums
        PROVE  /\ data[g].upto <= e[g].upto /\ e[g].upto < NextPost
               /\ \A p \in e[g].posts : e[g].upto <= p /\ (p \in data[g].posts \/ (x = g /\ p = last))
               /\ e[g].posts # {} \/ e[g].upto = data[g].upto
               /\ \A p \in data[g].posts : p \in e[g].posts \/ p <= e[g].upto
    <3>1. CASE g = x
      BY <2>1, <2>3, <2>4, <3>1
    <3>2. CASE g # x
      BY <1>4, <2>4, <3>2
    <3>3. QED
      BY <3>1, <3>2
  <2>7. QED
    BY <1>1, <1>2, <1>3, <2>4, <2>5, <2>6 DEF Advanced
<1>8. QED
  BY <1>1, <1>2, <1>5, <1>6, <1>7, MarkTopicCases

-----------------------------------------------------------------------------
(* As long as no topic moves, forums and topics agree.                     *)

LEMMA MarkReadAgrees ==
    ASSUME ReadStatusAssumption, Trees, PostsKept, RowsKept, NEW x \in Forums,
           Cover(data), \A f \in Forums : Complete(data, f)
    PROVE  Cover(MarkForum(data, x)) /\ \A f \in Forums : Complete(MarkForum(data, x), f)
<1>1. data \in Rows
  BY DEF RowsKept
<1>2. CASE ForumRead(data, x)
  BY <1>2 DEF MarkForum
<1>3. CASE ~ForumRead(data, x)
  BY <1>1, <1>3, MarkForumCovers, MarkForumCompletes
<1>4. QED
  BY <1>2, <1>3

LEMMA ViewAgrees ==
    ASSUME ReadStatusAssumption, Trees, PostsKept, RowsKept, LastFound,
           NEW t \in Topics, Exists(t), Cover(data), \A f \in Forums : Complete(data, f)
    PROVE  Cover(MarkTopic(data, t)) /\ \A f \in Forums : Complete(MarkTopic(data, t), f)
<1>1. PICK e : e = MarkTopic(data, t)
  OBVIOUS
<1>2. PICK x \in Forums : x = at[t]
  BY DEF PostsKept, Exists
<1>3. CASE TopicRead(data, t) /\ e = data
  BY <1>1, <1>3
<1>4. CASE ~TopicRead(data, t) /\ e = MarkForum(InPlace(t), x)
  <2>1. PICK d \in Rows :
           /\ d = InPlace(t)
           /\ \A g \in Forums : d[g] = data[g] \/ (g = x /\ d[g] = Added(t))
           /\ \A g \in Forums : ForumRead(d, g) <=> ForumRead(data, g)
    BY <1>2, <1>4, InPlaceRows
  <2>2. ~ForumRead(d, x) /\ Added(t).upto = data[x].upto /\ data[x].posts \subseteq Added(t).posts
    BY <1>2, <1>4, <2>1, AddedRow
  <2>3. Cover(d)
    <3>1. ASSUME NEW s \in Topics, Exists(s), TopicRead(data, s) PROVE TopicRead(d, s)
      <4>1. PICK g \in Forums : g = at[s]
        BY <3>1 DEF PostsKept, Exists
      <4>2. d[g].upto = data[g].upto /\ data[g].posts \subseteq d[g].posts
        BY <2>1, <2>2
      <4>3. QED
        BY <3>1, <4>1, <4>2 DEF TopicRead
    <3>2. QED
      BY <2>1, <3>1 DEF Cover
  <2>4. \A f \in Forums \ {x} : Complete(d, f)
    <3>1. ASSUME NEW f \in Forums \ {x} PROVE Complete(d, f)
      <4>1. d[f] = data[f] /\ Complete(data, f) /\ Children(f) \subseteq Forums
        BY <2>1 DEF Children
      <4>2. QED
        BY <2>1, <4>1 DEF Complete
    <3>2. QED
      BY <3>1
  <2>5. QED
    BY <1>1, <1>4, <2>1, <2>2, <2>3, <2>4, MarkForumCovers, MarkForumCompletes
<1>5. CASE /\ ~TopicRead(data, t) /\ (ChildrenRead(x) => Newer(t))
           /\ e = [data EXCEPT ![x] =
                IF Cardinality(Added(t).posts) > LimitUnread THEN Truncated(Added(t)) ELSE Added(t)]
  <2>1. PICK a \in [upto : Nat, posts : SUBSET Posts] :
           /\ a = Added(t) /\ a.upto = data[x].upto /\ a.posts = data[x].posts \cup {TopicLast(t)}
           /\ \A p \in a.posts : a.upto <= p
    BY <1>2, <1>5, AddedRow
  <2>2. PICK row : row = IF Cardinality(a.posts) > LimitUnread THEN Truncated(a) ELSE a
    OBVIOUS
  <2>3. forumLast[x] \in Nat /\ ~ForumRead(data, x) /\ \A p \in a.posts : p <= forumLast[x]
    <3>1. \A p \in data[x].posts : p <= forumLast[x]
      BY DEF LastFound
    <3>2. TopicLast(t) <= forumLast[x] /\ forumLast[x] \in Nat
      BY <1>2 DEF PostsKept
    <3>3. QED
      BY <1>2, <1>5, <2>1, <3>1, <3>2, AddedRow
  <2>4. row \in [upto : Nat, posts : SUBSET Posts] /\ row.upto < forumLast[x] /\ row.posts \subseteq a.posts
    <3>1. CASE Cardinality(a.posts) > LimitUnread
      <4>1. /\ row \in [upto : Nat, posts : SUBSET Posts]
            /\ row.posts = {p \in a.posts : p >= row.upto} /\ \E y \in a.posts : row.upto < y
        BY <2>1, <2>2, <3>1, TruncatedFound
      <4>2. Posts \subseteq Nat
        BY LastPosts DEF PostsKept
      <4>3. QED
        BY <2>1, <2>3, <4>1, <4>2
    <3>2. CASE ~(Cardinality(a.posts) > LimitUnread)
      <4>1. row = a /\ a.upto < forumLast[x]
        BY <2>1, <2>2, <2>3, <3>2 DEF ForumRead
      <4>2. QED
        BY <2>1, <4>1
    <3>3. QED
      BY <3>1, <3>2
  <2>5. e \in Rows /\ e[x] = row /\ \A g \in Forums : g # x => e[g] = data[g]
    <3>1. e = [data EXCEPT ![x] = row] /\ data \in Rows
      BY <1>5, <2>1, <2>2 DEF RowsKept
    <3>2. QED
      BY <2>4, <3>1 DEF Rows
  <2>6. \A g \in Forums : ForumRead(e, g) <=> ForumRead(data, g)
    <3>1. ~ForumRead(e, x)
      BY <2>3, <2>4, <2>5 DEF ForumRead
    <3>2. QED
      BY <2>3, <2>5, <3>1 DEF ForumRead
  <2>7. Cover(e)
    <3>1. \A s \in Topics : Exists(s) /\ TopicRead(data, s) => TopicRead(e, s)
      BY <1>1, MarkTopicAdvances, AdvancedKeepsRead
    <3>2. QED
      BY <2>6, <3>1 DEF Cover
  <2>8. ASSUME NEW f \in Forums PROVE Complete(e, f)
    <3>1. Children(f) \subseteq Forums
      BY DEF Children
    <3>2. CASE f # x
      BY <2>5, <2>6, <3>1, <3>2 DEF Complete
    <3>3. CASE f = x
      <4>1. SUFFICES ASSUME \A c \in Children(x) : ForumRead(e, c),
                            forumLast[x] \in row.posts \/ ~LastOwn(x)
                     PROVE  FALSE
        BY <2>5, <3>3 DEF Complete
      <4>2. ChildrenRead(x)
        BY <2>6, <3>1, <3>3, <4>1 DEF ChildrenRead
      <4>3. forumLast[x] \notin row.posts
        BY <1>2, <1>5, <2>1, <2>4, <4>2 DEF Newer
      <4>4. QED
        BY <2>3, <4>1, <4>2, <4>3 DEF Complete, ChildrenRead
    <3>4. QED
      BY <3>2, <3>3
  <2>9. QED
    BY <1>1, <2>7, <2>8
<1>6. QED
  BY <1>1, <1>2, <1>3, <1>4, <1>5, MarkTopicCases

\* Rows that advance stay below the forums' last posts.
LEMMA AdvancedKeepsLast ==
    ASSUME PostsKept, LastFound, NEW V \in SUBSET Topics, \A t \in V : Exists(t),
           Advanced(data', V), UNCHANGED <<at, topicOf, forumLast>>
    PROVE  LastFound'
<1>1. \A t \in Topics : TopicLast(t)' = TopicLast(t) /\ (Exists(t)' <=> Exists(t))
  BY DEF TopicLast, PostsOf, Exists
<1>2. ASSUME NEW f \in Forums, NEW p \in data'[f].posts PROVE p <= forumLast[f]
  <2>1. p \in data[f].posts \/ \E t \in V : at[t] = f /\ p = TopicLast(t)
    BY <1>2 DEF Advanced
  <2>2. CASE p \in data[f].posts
    BY <2>2 DEF LastFound
  <2>3. CASE \E t \in V : at[t] = f /\ p = TopicLast(t)
    BY <2>3 DEF PostsKept
  <2>4. QED
    BY <2>1, <2>2, <2>3
<1>3. QED
  BY <1>1, <1>2 DEF LastFound

-----------------------------------------------------------------------------
(* The requests.                                                           *)

LEMMA InitRead == ASSUME ReadStatusAssumption, Init PROVE ReadInv
<1>1. Posts = {} /\ NextPost = 1 /\ Posts = 1..0
  <2>1. Posts = {}
    BY DEF Init, Posts
  <2>2. QED
    BY <2>1, FS_EmptySet DEF NextPost, Posts
<1>2. \A t \in Topics : PostsOf(t) = {} /\ ~Exists(t)
  BY DEF Init, PostsOf, Exists
<1>3. /\ at \in [Topics -> Forums \cup {Null}] /\ forumLast = [f \in Forums |-> 0]
      /\ data = [f \in Forums |-> [upto |-> 0, posts |-> {}]]
      /\ readTo = [t \in Topics |-> [f \in Forums |-> 0]] /\ moves = 0
  BY DEF Init, None, NoRow
<1>4. topicOf \in [Posts -> Topics] /\ IsFiniteSet(Posts)
  BY <1>1, FS_EmptySet DEF Init, Posts
<1>5. PostsKept
  BY <1>1, <1>2, <1>3, <1>4 DEF PostsKept
<1>6. RowsKept
  BY <1>1, <1>3 DEF RowsKept, Rows
<1>7. VisitsKept
  BY <1>3 DEF VisitsKept, Remembered
<1>8. LastFound /\ Cover(data)
  BY <1>2, <1>3 DEF LastFound, Cover
<1>9. \A f \in Forums : Complete(data, f)
  BY <1>3 DEF Complete, ForumRead
<1>10. QED
  BY <1>5, <1>6, <1>7, <1>8, <1>9 DEF ReadInv, Unmoved

LEMMA WriteEffects ==
    ASSUME ReadStatusAssumption, PostsKept, NEW t \in Topics, NEW f \in Forums, Write(t, f)
    PROVE  /\ NextPost' = NextPost + 1 /\ Posts' = 1..NextPost /\ Posts \subseteq Posts'
           /\ topicOf' \in [Posts' -> Topics] /\ IsFiniteSet(Posts')
           /\ at' \in [Topics -> Forums \cup {Null}] /\ at'[t] = f /\ Exists(t)'
           /\ PostsOf(t)' = PostsOf(t) \cup {NextPost} /\ TopicLast(t)' = NextPost
           /\ \A s \in Topics \ {t} :
                 /\ at'[s] = at[s] /\ (Exists(s)' <=> Exists(s))
                 /\ PostsOf(s)' = PostsOf(s) /\ TopicLast(s)' = TopicLast(s)
           /\ Exists(t) => at[t] = f
           /\ forumLast' \in [Forums -> Nat]
           /\ \A g \in Forums : forumLast'[g] = IF g \in Chain[f] THEN NextPost ELSE forumLast[g]
<1>1. NextPost \in Nat \ {0} /\ Posts = 1..(NextPost - 1) /\ topicOf \in [1..(NextPost - 1) -> Topics]
  BY LastPosts DEF PostsKept
<1>2. PICK n \in Nat \ {0} : n = NextPost
  BY <1>1
<1>3. /\ topicOf' = [p \in 1..n |-> IF p = n THEN t ELSE topicOf[p]]
      /\ at' = [at EXCEPT ![t] = f] /\ (Exists(t) => f = at[t])
      /\ forumLast' = [g \in Forums |-> IF g \in Chain[f] THEN n ELSE forumLast[g]]
  BY <1>2 DEF Write
<1>4. Posts' = 1..n /\ IsFiniteSet(1..n) /\ Cardinality(1..n) = n
  <2>1. Posts' = 1..n
    BY <1>3 DEF Posts
  <2>2. IsFiniteSet(1..n) /\ Cardinality(1..n) = IF 1 > n THEN 0 ELSE n - 1 + 1
    BY <1>2, FS_Interval
  <2>3. QED
    BY <1>2, <2>1, <2>2
<1>5. NextPost' = n + 1 /\ Posts \subseteq Posts'
  BY <1>1, <1>2, <1>4 DEF NextPost, Posts
<1>6. topicOf' \in [Posts' -> Topics]
  BY <1>1, <1>2, <1>3, <1>4
<1>7. at' \in [Topics -> Forums \cup {Null}] /\ at'[t] = f /\ \A s \in Topics \ {t} : at'[s] = at[s]
  BY <1>3 DEF PostsKept
<1>8. f # Null
  BY DEF ReadStatusAssumption
<1>9. Exists(t)' /\ \A s \in Topics \ {t} : Exists(s)' <=> Exists(s)
  BY <1>7, <1>8 DEF Exists
<1>10. /\ DOMAIN topicOf' = 1..n /\ topicOf'[n] = t
       /\ DOMAIN topicOf = 1..(n - 1) /\ \A p \in 1..(n - 1) : topicOf'[p] = topicOf[p]
  BY <1>1, <1>2, <1>3
<1>11. PostsOf(t)' = PostsOf(t) \cup {n} /\ \A s \in Topics \ {t} : PostsOf(s)' = PostsOf(s)
  <2>1. 1..n = 1..(n - 1) \cup {n}
    BY <1>2
  <2>2. QED
    BY <1>10, <2>1 DEF PostsOf
<1>12. \A s \in Topics \ {t} : TopicLast(s)' = TopicLast(s)
  BY <1>11 DEF TopicLast
<1>13. TopicLast(t)' = n
  <2>1. PostsOf(t) \in SUBSET (1..(n - 1))
    BY <1>2, LastPosts
  <2>2. PICK S : S = PostsOf(t) \cup {n}
    OBVIOUS
  <2>3. S \in SUBSET (0..n) /\ n \in S
    BY <2>1, <2>2
  <2>4. Greatest(S) \in 0..n /\ n <= Greatest(S)
    BY <2>3, GreatestFound
  <2>5. QED
    BY <1>11, <2>2, <2>4 DEF TopicLast
<1>14. \A g \in Forums : forumLast'[g] = IF g \in Chain[f] THEN n ELSE forumLast[g]
  BY <1>3
<1>15. forumLast' \in [Forums -> Nat]
  BY <1>3 DEF PostsKept
<1>16. QED
  BY <1>2, <1>3, <1>4, <1>5, <1>6, <1>7, <1>9, <1>11, <1>12, <1>13, <1>14, <1>15

LEMMA WriteKeeps ==
    ASSUME ReadStatusAssumption, Trees, ReadInv, NEW t \in Topics, NEW f \in Forums, Write(t, f)
    PROVE  ReadInv'
<1>1. PostsKept /\ RowsKept /\ VisitsKept /\ Unmoved
  BY DEF ReadInv
<1>2. data' = data /\ readTo' = readTo /\ moves' = moves
  BY DEF Write
<1>3. PICK n \in Nat \ {0} : n = NextPost /\ n = TopicLast(t)'
  BY <1>1, LastPosts, WriteEffects
<1>4. /\ NextPost' = n + 1 /\ Posts' = 1..n /\ Posts = 1..(n - 1)
      /\ at' \in [Topics -> Forums \cup {Null}] /\ at'[t] = f /\ Exists(t)'
      /\ PostsOf(t)' = PostsOf(t) \cup {n}
      /\ \A s \in Topics \ {t} :
            /\ at'[s] = at[s] /\ (Exists(s)' <=> Exists(s))
            /\ PostsOf(s)' = PostsOf(s) /\ TopicLast(s)' = TopicLast(s)
      /\ Exists(t) => at[t] = f
      /\ forumLast' \in [Forums -> Nat]
      /\ \A g \in Forums : forumLast'[g] = IF g \in Chain[f] THEN n ELSE forumLast[g]
  BY <1>1, <1>3, WriteEffects DEF PostsKept
<1>5. \A g \in Forums : forumLast[g] \in Nat /\ forumLast[g] < n
  BY <1>1, <1>3 DEF PostsKept
<1>6. \A s \in Topics : TopicLast(s) \in Nat /\ TopicLast(s) < n
  BY <1>1, <1>3, LastPosts
<1>7. f \in Chain[f]
  BY DEF Chain
<1>8. PostsKept'
  <2>1. IsFiniteSet(Posts') /\ topicOf' \in [Posts' -> Topics] /\ moves' \in Nat
    BY <1>1, <1>2, WriteEffects DEF PostsKept
  <2>2. \A s \in Topics : Exists(s)' <=> PostsOf(s)' # {}
    BY <1>1, <1>4 DEF PostsKept
  <2>3. \A g \in Forums : forumLast'[g] < n + 1
    BY <1>4, <1>5
  <2>4. ASSUME NEW s \in Topics, Exists(s)' PROVE TopicLast(s)' <= forumLast'[at'[s]]
    <3>1. CASE s = t
      BY <1>3, <1>4, <1>7, <3>1
    <3>2. CASE s # t
      <4>1. PICK g \in Forums : g = at[s] /\ g = at'[s] /\ TopicLast(s)' = TopicLast(s)
                                 /\ TopicLast(s) <= forumLast[g]
        BY <1>1, <1>4, <2>4, <3>2 DEF PostsKept, Exists
      <4>2. QED
        BY <1>4, <1>5, <1>6, <4>1
    <3>3. QED
      BY <3>1, <3>2
  <2>5. Posts' = 1..(NextPost' - 1)
    BY <1>4
  <2>6. QED
    BY <1>4, <2>1, <2>2, <2>3, <2>4, <2>5 DEF PostsKept
<1>9. RowsKept'
  <2>1. data \in Rows /\ \A g \in Forums : data[g].upto < n
    BY <1>1, <1>3 DEF RowsKept
  <2>2. data \in Rows'
    BY <1>4, <2>1 DEF Rows
  <2>3. \A g \in Forums : data[g].upto \in Nat /\ data[g].upto < n + 1
    BY <2>1 DEF Rows
  <2>4. QED
    BY <1>1, <1>2, <1>4, <2>2, <2>3 DEF RowsKept
<1>10. VisitsKept'
  <2>1. \A s \in Topics, g \in Forums : data[g].posts \cap PostsOf(s)' = data[g].posts \cap PostsOf(s)
    <3>1. \A g \in Forums : n \notin data[g].posts
      BY <1>1, <1>4 DEF RowsKept, Rows
    <3>2. QED
      BY <1>4, <3>1
  <2>2. \A s \in Topics, g \in Forums :
           Remembered(readTo[s][g], data[g], PostsOf(s)) => Remembered(readTo[s][g], data[g], PostsOf(s)')
    BY <2>1 DEF Remembered
  <2>3. QED
    BY <1>1, <1>2, <2>2 DEF VisitsKept
<1>11. Unmoved'
  <2>1. SUFFICES ASSUME moves = 0 PROVE LastFound' /\ Cover(data)' /\ \A g \in Forums : Complete(data, g)'
    BY <1>2 DEF Unmoved
  <2>2. LastFound /\ Cover(data) /\ \A g \in Forums : Complete(data, g)
    BY <1>1, <2>1 DEF Unmoved
  <2>3. \A g \in Forums : data[g].upto \in Nat /\ data[g].upto < n /\ data[g].posts \subseteq 1..(n - 1)
    BY <1>1, <1>3, <1>4 DEF RowsKept, Rows
  <2>4. \A g \in Forums : ForumRead(data, g)' <=> g \notin Chain[f] /\ ForumRead(data, g)
    BY <1>2, <1>4, <2>3 DEF ForumRead
  <2>5. \A g \in Forums : f \in Below[g] <=> g \in Chain[f]
    BY DEF Below
  <2>6. LastFound'
    <3>1. ASSUME NEW g \in Forums, NEW s \in Topics, Exists(s)', at'[s] \in Below[g]
          PROVE  TopicLast(s)' <= forumLast'[g]
      <4>1. CASE s = t
        BY <1>3, <1>4, <2>5, <3>1, <4>1
      <4>2. CASE s # t
        <5>1. TopicLast(s)' = TopicLast(s) /\ TopicLast(s) <= forumLast[g]
          BY <1>4, <2>2, <3>1, <4>2 DEF LastFound
        <5>2. QED
          BY <1>4, <1>5, <1>6, <5>1
      <4>3. QED
        BY <4>1, <4>2
    <3>2. ASSUME NEW g \in Forums, NEW p \in data[g].posts PROVE p <= forumLast'[g]
      <4>1. p <= forumLast[g] /\ p \in Nat
        BY <2>2, <2>3, <3>2 DEF LastFound
      <4>2. QED
        BY <1>4, <1>5, <4>1
    <3>3. QED
      BY <1>2, <3>1, <3>2 DEF LastFound
  <2>7. Cover(data)'
    <3>1. SUFFICES ASSUME NEW g \in Forums, ForumRead(data, g)',
                          NEW s \in Topics, Exists(s)', at'[s] \in Below[g]
                   PROVE  TopicRead(data, s)'
      BY DEF Cover
    <3>2. ForumRead(data, g) /\ g \notin Chain[f]
      BY <2>4, <3>1
    <3>3. s # t
      BY <1>4, <2>5, <3>1, <3>2
    <3>4. TopicRead(data, s) /\ TopicLast(s)' = TopicLast(s) /\ at'[s] = at[s]
      BY <1>4, <2>2, <3>1, <3>2, <3>3 DEF Cover
    <3>5. QED
      BY <1>2, <3>4 DEF TopicRead
  <2>8. ASSUME NEW g \in Forums PROVE Complete(data, g)'
    <3>1. Children(g) \subseteq Forums
      BY DEF Children
    <3>2. CASE g = f
      <4>1. forumLast'[g] = n /\ n \notin data[g].posts
        BY <1>4, <1>7, <2>3, <3>2
      <4>2. LastOwn(g)'
        BY <1>3, <1>4, <3>2, <4>1 DEF LastOwn
      <4>3. QED
        BY <1>2, <4>1, <4>2 DEF Complete
    <3>3. CASE g \in Chain[f] /\ g # f
      <4>1. PICK c \in Children(g) : c \in Chain[f]
        BY <3>3, WayLeadsThroughChild DEF Chain
      <4>2. ~ForumRead(data, c)'
        BY <2>4, <3>1, <4>1
      <4>3. QED
        BY <4>1, <4>2 DEF Complete
    <3>4. CASE g \notin Chain[f]
      <4>1. \A c \in Children(g) : c \notin Chain[f]
        <5>1. SUFFICES ASSUME NEW c \in Children(g), c \in Chain[f] PROVE FALSE
          OBVIOUS
        <5>2. c \in Forums /\ Parents[c] = Chain[g] /\ g \in Chain[g]
          BY <5>1, AboveAChild DEF Children, Chain
        <5>3. Chain[c] \subseteq Chain[f]
          BY <5>1, ChainsNested
        <5>4. QED
          BY <3>4, <5>2, <5>3 DEF Chain
      <4>2. forumLast'[g] = forumLast[g]
        BY <1>4, <3>4
      <4>3. LastOwn(g) => LastOwn(g)'
        <5>1. SUFFICES ASSUME NEW s \in Topics, at[s] = g, TopicLast(s) = forumLast[g] PROVE LastOwn(g)'
          BY DEF LastOwn
        <5>2. s # t
          <6>1. g # Null
            BY DEF ReadStatusAssumption
          <6>2. QED
            BY <1>4, <1>7, <3>4, <5>1, <6>1 DEF Exists
        <5>3. at'[s] = g /\ TopicLast(s)' = forumLast'[g]
          BY <1>4, <4>2, <5>1, <5>2
        <5>4. QED
          BY <5>3 DEF LastOwn
      <4>4. \A c \in Children(g) : ForumRead(data, c)' <=> ForumRead(data, c)
        BY <2>4, <3>1, <4>1
      <4>5. ForumRead(data, g)' <=> ForumRead(data, g)
        BY <2>4, <3>4
      <4>6. Complete(data, g)
        BY <2>2
      <4>7. QED
        BY <1>2, <4>2, <4>3, <4>4, <4>5, <4>6 DEF Complete
    <3>5. QED
      BY <3>2, <3>3, <3>4
  <2>9. QED
    BY <2>6, <2>7, <2>8
<1>12. QED
  BY <1>8, <1>9, <1>10, <1>11 DEF ReadInv

LEMMA AgreementOfRows ==
    ASSUME UNCHANGED <<at, topicOf, forumLast>>, Cover(data'), \A g \in Forums : Complete(data', g)
    PROVE  Cover(data)' /\ \A g \in Forums : Complete(data, g)'
<1>1. \A f \in Forums : ForumRead(data, f)' <=> ForumRead(data', f)
  BY DEF ForumRead
<1>2. \A t \in Topics : PostsOf(t)' = PostsOf(t)
  BY DEF PostsOf
<1>3. \A t \in Topics : TopicLast(t)' = TopicLast(t) /\ (Exists(t)' <=> Exists(t))
  BY <1>2 DEF TopicLast, Exists
<1>4. \A t \in Topics : TopicRead(data, t)' <=> TopicRead(data', t)
  BY <1>3 DEF TopicRead
<1>5. \A f \in Forums : LastOwn(f)' <=> LastOwn(f)
  BY <1>3 DEF LastOwn
<1>6. \A f \in Forums : Children(f) \subseteq Forums
  BY DEF Children
<1>7. Cover(data)'
  BY <1>1, <1>3, <1>4 DEF Cover
<1>8. \A g \in Forums : Complete(data, g)'
  BY <1>1, <1>5, <1>6 DEF Complete
<1>9. QED
  BY <1>7, <1>8

LEMMA ViewKeeps ==
    ASSUME ReadStatusAssumption, Trees, ReadInv, NEW t \in Topics, View(t)
    PROVE  ReadInv'
<1>1. PostsKept /\ RowsKept /\ VisitsKept /\ Unmoved
  BY DEF ReadInv
<1>2. Exists(t) /\ UNCHANGED <<at, topicOf, forumLast, moves>> /\ data' = MarkTopic(data, t)
  BY DEF View
<1>3. Advanced(data', {t})
  BY <1>1, <1>2, MarkTopicAdvances
<1>4. readTo' = [s \in Topics |-> [g \in Forums |->
               IF g \in Marked THEN None
               ELSE IF s \in {t} /\ g = at[s] THEN TopicLast(s) ELSE readTo[s][g]]]
  <2>1. PICK x \in Forums : x = at[t]
    BY <1>1, <1>2 DEF PostsKept, Exists
  <2>2. PICK visits : visits = [readTo EXCEPT ![t][x] = TopicLast(t)]
    OBVIOUS
  <2>3. readTo' = [s \in Topics |-> [g \in Forums |-> IF g \in Marked THEN None ELSE visits[s][g]]]
    BY <2>1, <2>2 DEF View, VisitsIn
  <2>4. readTo \in [Topics -> [Forums -> Nat]]
    BY <1>1 DEF VisitsKept
  <2>5. ASSUME NEW s \in Topics, NEW g \in Forums
        PROVE  visits[s][g] = IF s \in {t} /\ g = at[s] THEN TopicLast(s) ELSE readTo[s][g]
    BY <2>1, <2>2, <2>4
  <2>6. QED
    BY <2>3, <2>5
<1>5. PostsKept' /\ RowsKept' /\ VisitsKept'
  BY <1>1, <1>2, <1>3, <1>4, AdvancedKeepsRows
<1>6. Unmoved'
  <2>1. SUFFICES ASSUME moves = 0 PROVE LastFound' /\ Cover(data)' /\ \A g \in Forums : Complete(data, g)'
    BY <1>2 DEF Unmoved
  <2>2. LastFound /\ Cover(data) /\ \A g \in Forums : Complete(data, g)
    BY <1>1, <2>1 DEF Unmoved
  <2>3. LastFound'
    BY <1>1, <1>2, <1>3, <2>2, AdvancedKeepsLast
  <2>4. Cover(data') /\ \A g \in Forums : Complete(data', g)
    BY <1>1, <1>2, <2>2, ViewAgrees
  <2>5. QED
    BY <1>2, <2>3, <2>4, AgreementOfRows
<1>7. QED
  BY <1>5, <1>6 DEF ReadInv

LEMMA MarkReadKeeps ==
    ASSUME ReadStatusAssumption, Trees, ReadInv, NEW f \in Forums, MarkRead(f)
    PROVE  ReadInv'
<1>1. PostsKept /\ RowsKept /\ VisitsKept /\ Unmoved
  BY DEF ReadInv
<1>2. UNCHANGED <<at, topicOf, forumLast, moves>> /\ data' = MarkForum(data, f)
  BY DEF MarkRead
<1>3. Advanced(data', {})
  BY <1>1, <1>2, MarkForumAdvances
<1>4. readTo' = [s \in Topics |-> [g \in Forums |->
               IF g \in Marked THEN None
               ELSE IF s \in {} /\ g = at[s] THEN TopicLast(s) ELSE readTo[s][g]]]
  BY DEF MarkRead, VisitsIn
<1>5. PostsKept' /\ RowsKept' /\ VisitsKept'
  BY <1>1, <1>2, <1>3, <1>4, AdvancedKeepsRows
<1>6. Unmoved'
  <2>1. SUFFICES ASSUME moves = 0 PROVE LastFound' /\ Cover(data)' /\ \A g \in Forums : Complete(data, g)'
    BY <1>2 DEF Unmoved
  <2>2. LastFound /\ Cover(data) /\ \A g \in Forums : Complete(data, g)
    BY <1>1, <2>1 DEF Unmoved
  <2>3. LastFound'
    BY <1>1, <1>2, <1>3, <2>2, AdvancedKeepsLast
  <2>4. Cover(data') /\ \A g \in Forums : Complete(data', g)
    BY <1>1, <1>2, <2>2, MarkReadAgrees
  <2>5. QED
    BY <1>2, <2>3, <2>4, AgreementOfRows
<1>7. QED
  BY <1>5, <1>6 DEF ReadInv

LEMMA MoveKeeps ==
    ASSUME ReadStatusAssumption, ReadInv, NEW t \in Topics, NEW g \in Forums, Move(t, g)
    PROVE  ReadInv'
<1>1. PostsKept /\ RowsKept /\ VisitsKept
  BY DEF ReadInv
<1>2. /\ UNCHANGED <<topicOf, data, readTo>> /\ moves' = moves + 1 /\ moves \in Nat /\ Exists(t)
      /\ at' = [at EXCEPT ![t] = g] /\ ~IsCategory(g) /\ g # Null
  BY <1>1 DEF Move, PostsKept, ReadStatusAssumption
<1>3. /\ Posts' = Posts /\ NextPost' = NextPost /\ Rows' = Rows
      /\ \A s \in Topics : PostsOf(s)' = PostsOf(s) /\ TopicLast(s)' = TopicLast(s)
  BY <1>2 DEF Posts, NextPost, Rows, PostsOf, TopicLast
<1>4. PICK n \in Nat \ {0} : n = NextPost
  BY <1>1, LastPosts
<1>5. Posts = 1..(n - 1) /\ topicOf \in [Posts -> Topics]
  BY <1>1, <1>4 DEF PostsKept
<1>6. /\ at' \in [Topics -> Forums \cup {Null}] /\ at'[t] = g
      /\ \A s \in Topics \ {t} : at'[s] = at[s]
  BY <1>1, <1>2 DEF PostsKept
<1>7. \A s \in Topics : Exists(s)' <=> Exists(s)
  BY <1>2, <1>6 DEF Exists
<1>8. ASSUME NEW f \in Forums
      PROVE  /\ forumLast'[f] \in Nat /\ forumLast'[f] < n
             /\ \A s \in Topics : Exists(s) /\ at'[s] = f => TopicLast(s) <= forumLast'[f]
  <2>1. forumLast[f] \in Nat /\ forumLast[f] < n
    BY <1>1, <1>4 DEF PostsKept
  <2>2. PICK S : S = {p \in Posts : at'[topicOf[p]] = f}
    OBVIOUS
  <2>3. forumLast'[f] = IF f \in Chain[g] \cup Chain[at[t]] /\ ~IsCategory(f) THEN Greatest(S) ELSE forumLast[f]
    BY <2>2 DEF Move, Posts
  <2>4. CASE f \in Chain[g] \cup Chain[at[t]] /\ ~IsCategory(f)
    <3>1. S \in SUBSET (0..(n - 1)) /\ n - 1 \in Nat
      BY <1>4, <1>5, <2>2
    <3>2. Greatest(S) \in 0..(n - 1) /\ \A p \in S : p <= Greatest(S)
      BY <3>1, GreatestFound
    <3>3. ASSUME NEW s \in Topics, Exists(s), at'[s] = f PROVE TopicLast(s) \in S
      <4>1. TopicLast(s) \in PostsOf(s)
        BY <1>1, <3>3, LastPosts
      <4>2. QED
        BY <2>2, <3>3, <4>1 DEF PostsOf, Posts
    <3>4. QED
      BY <1>4, <2>3, <2>4, <3>2, <3>3
  <2>5. CASE ~(f \in Chain[g] \cup Chain[at[t]] /\ ~IsCategory(f))
    <3>1. forumLast'[f] = forumLast[f]
      BY <2>3, <2>5
    <3>2. f # g
      BY <1>2, <2>5 DEF Chain
    <3>3. \A s \in Topics : Exists(s) /\ at'[s] = f => at[s] = f /\ TopicLast(s) <= forumLast[at[s]]
      BY <1>1, <1>6, <3>2 DEF PostsKept
    <3>4. QED
      BY <2>1, <3>1, <3>3
  <2>6. QED
    BY <2>4, <2>5
<1>9. PostsKept'
  <2>1. forumLast' \in [Forums -> Nat]
    <3>1. DOMAIN forumLast' = Forums /\ forumLast' = [f \in Forums |-> forumLast'[f]]
      BY DEF Move
    <3>2. QED
      BY <1>8, <3>1
  <2>2. IsFiniteSet(Posts) /\ \A s \in Topics : Exists(s) <=> PostsOf(s) # {}
    BY <1>1 DEF PostsKept
  <2>3. ASSUME NEW s \in Topics, Exists(s) PROVE TopicLast(s) <= forumLast'[at'[s]]
    <3>1. at'[s] \in Forums
      BY <1>6, <1>7, <2>3 DEF Exists
    <3>2. QED
      BY <1>8, <2>3, <3>1
  <2>4. Posts' = 1..(NextPost' - 1) /\ topicOf' \in [Posts' -> Topics] /\ moves' \in Nat
    BY <1>2, <1>3, <1>4, <1>5
  <2>5. QED
    BY <1>2, <1>3, <1>4, <1>6, <1>7, <1>8, <2>1, <2>2, <2>3, <2>4 DEF PostsKept
<1>10. RowsKept'
  BY <1>1, <1>2, <1>3 DEF RowsKept
<1>11. VisitsKept'
  BY <1>1, <1>2, <1>3 DEF VisitsKept
<1>12. Unmoved'
  BY <1>2 DEF Unmoved
<1>13. QED
  BY <1>9, <1>10, <1>11, <1>12 DEF ReadInv

LEMMA StutterKeeps == ASSUME ReadInv, UNCHANGED vars PROVE ReadInv'
<1>1. UNCHANGED <<at, topicOf, forumLast, data, readTo, moves>>
  BY DEF vars
<1>2. PostsKept' /\ RowsKept' /\ VisitsKept'
  BY <1>1 DEF ReadInv, PostsKept, RowsKept, VisitsKept, Posts, NextPost, Rows, PostsOf, TopicLast, Exists
<1>3. Unmoved'
  BY <1>1 DEF ReadInv, Unmoved, LastFound, Cover, Complete, ForumRead, TopicRead, TopicLast,
              PostsOf, Exists, LastOwn
<1>4. QED
  BY <1>2, <1>3 DEF ReadInv

(* The status's rows, the visits they remember and, as long as no topic    *)
(* has been moved, the agreement of forums and topics are kept.            *)
THEOREM ReadInvariant == ASSUME Trees PROVE Spec => []ReadInv
<1>1. Init => ReadInv
  BY ReadStatusAssumption, InitRead
<1>2. ReadInv /\ [Next]_vars => ReadInv'
  <2>1. SUFFICES ASSUME ReadInv, [Next]_vars PROVE ReadInv'
    OBVIOUS
  <2>2. CASE \E t \in Topics, f \in Forums : Write(t, f)
    BY <2>1, <2>2, ReadStatusAssumption, WriteKeeps
  <2>3. CASE \E t \in Topics : View(t)
    BY <2>1, <2>3, ReadStatusAssumption, ViewKeeps
  <2>4. CASE \E f \in Forums : MarkRead(f)
    BY <2>1, <2>4, ReadStatusAssumption, MarkReadKeeps
  <2>5. CASE \E t \in Topics, g \in Forums : Move(t, g)
    BY <2>1, <2>5, ReadStatusAssumption, MoveKeeps
  <2>6. CASE UNCHANGED vars
    BY <2>1, <2>6, StutterKeeps
  <2>7. QED
    BY <2>1, <2>2, <2>3, <2>4, <2>5, <2>6 DEF Next
<1>3. QED
  BY <1>1, <1>2, PTL DEF Spec

-----------------------------------------------------------------------------
(* The properties.                                                         *)

LEMMA ReadInvMeansAgreement == ASSUME ReadInv PROVE ForumsAgreeWithTopics
<1>1. SUFFICES ASSUME moves = 0 PROVE ForumsAgreeWithTopics
  BY DEF ForumsAgreeWithTopics, ForumReadMeansAllRead, AllReadMeansForumRead
<1>2. Cover(data) /\ \A f \in Forums : Complete(data, f)
  BY <1>1 DEF ReadInv, Unmoved
<1>3. ForumReadMeansAllRead
  BY <1>2 DEF ForumReadMeansAllRead, Cover
<1>4. ASSUME NEW f \in Forums, \A t \in Topics : Exists(t) /\ at[t] = f => TopicRead(data, t),
             \A c \in Children(f) : ForumRead(data, c)
      PROVE  ForumRead(data, f)
  <2>1. SUFFICES ASSUME ~(forumLast[f] \in data[f].posts), LastOwn(f) PROVE ForumRead(data, f)
    BY <1>2, <1>4 DEF Complete
  <2>2. PICK t \in Topics : at[t] = f /\ TopicLast(t) = forumLast[f]
    BY <2>1 DEF LastOwn
  <2>3. TopicRead(data, t)
    BY <1>4, <2>2, ReadStatusAssumption DEF Exists, ReadStatusAssumption
  <2>4. QED
    BY <2>1, <2>2, <2>3 DEF TopicRead, ForumRead
<1>5. QED
  BY <1>3, <1>4 DEF ForumsAgreeWithTopics, AllReadMeansForumRead

LEMMA ReadInvMeansNext == ASSUME ReadInv PROVE FirstUnreadIsNext
<1>1. SUFFICES ASSUME NEW t \in Topics, Exists(t)
      PROVE  /\ FirstUnread(data, t) # None =>
                    ~(FirstUnread(data, t) <= readTo[t][at[t]] \/ FirstUnread(data, t) <= data[at[t]].upto)
             /\ \A q \in PostsOf(t) : ~(q <= readTo[t][at[t]] \/ q <= data[at[t]].upto) =>
                    FirstUnread(data, t) # None /\ FirstUnread(data, t) <= q
  BY DEF FirstUnreadIsNext
<1>2. PostsKept /\ RowsKept /\ VisitsKept
  BY DEF ReadInv
<1>3. PICK x \in Forums : x = at[t]
  BY <1>1, <1>2 DEF PostsKept, Exists
<1>4. PICK n \in Nat : n = NextPost - 1 /\ Posts = 1..n
  BY <1>2, LastPosts DEF PostsKept
<1>5. PICK row \in [upto : Nat, posts : SUBSET Posts] : row = data[x]
  BY <1>2 DEF RowsKept, Rows
<1>6. PICK to \in Nat : to = readTo[t][x]
  BY <1>2 DEF VisitsKept
<1>7. PICK own \in SUBSET (1..n) : own = PostsOf(t)
  BY <1>2, <1>4, LastPosts
<1>8. Remembered(to, row, own) /\ row.upto <= n
  <2>1. Remembered(to, row, own)
    BY <1>2, <1>5, <1>6, <1>7 DEF VisitsKept
  <2>2. row.upto < NextPost /\ NextPost \in Nat
    BY <1>2, <1>5, LastPosts DEF RowsKept
  <2>3. QED
    BY <1>4, <2>1, <2>2
<1>9. PICK seen : seen = Seen(data, t)
  OBVIOUS
<1>10. /\ seen \in {row.upto} \cup (own \cap row.posts) /\ seen \in Nat
       /\ \A p \in {row.upto} \cup (own \cap row.posts) : p <= seen
  <2>1. PICK S : S = {row.upto} \cup (own \cap row.posts)
    OBVIOUS
  <2>2. S \in SUBSET (0..n) /\ S # {}
    BY <1>7, <1>8, <2>1
  <2>3. Greatest(S) \in S /\ Greatest(S) \in 0..n /\ \A p \in S : p <= Greatest(S)
    BY <2>2, GreatestFound
  <2>4. seen = Greatest(S)
    BY <1>3, <1>5, <1>7, <1>9, <2>1 DEF Seen
  <2>5. QED
    BY <2>1, <2>3, <2>4
<1>11. ASSUME NEW q \in own PROVE q > seen <=> ~(q <= to \/ q <= row.upto)
  <2>1. q \in Nat /\ row.upto \in Nat /\ row.upto <= seen /\ \A p \in own : p \in Nat
    BY <1>7, <1>10
  <2>2. ASSUME q <= to PROVE q <= seen
    <3>1. CASE to <= row.upto
      BY <1>10, <2>1, <2>2, <3>1
    <3>2. CASE \E p \in row.posts \cap own : to <= p
      <4>1. PICK p \in row.posts \cap own : to <= p
        BY <3>2
      <4>2. p \in Nat /\ p <= seen
        BY <1>10, <2>1, <4>1
      <4>3. QED
        BY <1>10, <2>1, <2>2, <4>1, <4>2
    <3>3. QED
      BY <1>8, <3>1, <3>2 DEF Remembered
  <2>3. ASSUME q <= seen PROVE q <= to \/ q <= row.upto
    <3>1. CASE seen = row.upto
      BY <2>3, <3>1
    <3>2. CASE seen \in row.posts \cap own
      BY <1>8, <1>10, <2>1, <2>3, <3>2 DEF Remembered
    <3>3. QED
      BY <1>10, <3>1, <3>2
  <2>4. QED
    BY <1>10, <2>1, <2>2, <2>3
<1>12. PICK unread : unread = {q \in own : q > seen}
  OBVIOUS
<1>13. FirstUnread(data, t) = IF unread = {} THEN None ELSE CHOOSE p \in unread : \A q \in unread : p <= q
  BY <1>7, <1>9, <1>12 DEF FirstUnread
<1>14. PICK first : first = FirstUnread(data, t)
  OBVIOUS
<1>15. unread # {} => first \in unread /\ \A q \in unread : first <= q
  <2>1. SUFFICES ASSUME unread # {} PROVE first \in unread /\ \A q \in unread : first <= q
    OBVIOUS
  <2>2. unread \in SUBSET Nat
    BY <1>7, <1>12
  <2>3. \E p \in unread : \A q \in unread : p <= q
    BY <2>1, <2>2, LeastNatural
  <2>4. first = CHOOSE p \in unread : \A q \in unread : p <= q
    BY <1>13, <1>14, <2>1
  <2>5. QED
    BY <2>3, <2>4
<1>16. \A q \in unread : q # 0
  BY <1>7, <1>12
<1>17. first # None => first \in unread
  BY <1>13, <1>14, <1>15
<1>18. \A q \in own : q \in unread <=> ~(q <= to \/ q <= row.upto)
  BY <1>11, <1>12
<1>19. /\ first # None => ~(first <= to \/ first <= row.upto)
       /\ \A q \in own : ~(q <= to \/ q <= row.upto) => first # None /\ first <= q
  BY <1>12, <1>15, <1>16, <1>17, <1>18 DEF None
<1>20. QED
  BY <1>3, <1>5, <1>6, <1>7, <1>14, <1>19

(* A forum is shown as read exactly if its topics and the forums below it  *)
(* are, unless topics are moved: ReadStatus.mark goes up and down the tree *)
(* as far as it must.                                                      *)
THEOREM ForumsAgreeHolds == ASSUME Trees PROVE Spec => []ForumsAgreeWithTopics
<1>1. ReadInv => ForumsAgreeWithTopics
  BY ReadInvMeansAgreement
<1>2. QED
  BY <1>1, ReadInvariant, PTL

(* The link to the first unread post leads to the first post that neither  *)
(* a mark nor a visit has covered, however often topics are moved.         *)
THEOREM FirstUnreadHolds == ASSUME Trees PROVE Spec => []FirstUnreadIsNext
<1>1. ReadInv => FirstUnreadIsNext
  BY ReadInvMeansNext
<1>2. QED
  BY <1>1, ReadInvariant, PTL

(* No request makes a topic unread, but a post or a move: rows only move   *)
(* on, even when the older half of a row is forgotten.                     *)
THEOREM StaysReadHolds == ASSUME Trees PROVE Spec => StaysRead
<1>1. ReadInv /\ [Next]_vars =>
        [\A t \in Topics :
            Exists(t) /\ TopicRead(data, t) /\ at'[t] = at[t] /\ TopicLast(t)' = TopicLast(t)
                => TopicRead(data, t)']_vars
  <2>1. SUFFICES ASSUME ReadInv, Next, NEW t \in Topics,
                        Exists(t), TopicRead(data, t), at'[t] = at[t], TopicLast(t)' = TopicLast(t)
                 PROVE  TopicRead(data, t)'
    OBVIOUS
  <2>2. PostsKept /\ RowsKept
    BY <2>1 DEF ReadInv
  <2>3. SUFFICES TopicRead(data', t)
    BY <2>1 DEF TopicRead
  <2>4. CASE data' = data
    BY <2>1, <2>4
  <2>5. CASE \E s \in Topics : View(s)
    <3>1. PICK s \in Topics : View(s)
      BY <2>5
    <3>2. Advanced(data', {s})
      BY <2>2, <3>1, ReadStatusAssumption, MarkTopicAdvances DEF View
    <3>3. QED
      BY <2>1, <2>2, <3>2, AdvancedKeepsRead
  <2>6. CASE \E f \in Forums : MarkRead(f)
    <3>1. PICK f \in Forums : MarkRead(f)
      BY <2>6
    <3>2. Advanced(data', {})
      BY <2>2, <3>1, ReadStatusAssumption, MarkForumAdvances DEF MarkRead
    <3>3. QED
      BY <2>1, <2>2, <3>2, AdvancedKeepsRead
  <2>7. QED
    BY <2>1, <2>4, <2>5, <2>6 DEF Next, Write, Move
<1>2. QED
  BY <1>1, ReadInvariant, PTL DEF Spec, StaysRead

=============================================================================
