------------------------------- MODULE Forum -------------------------------
(***************************************************************************)
(* The rows of inyoka.forum.models that the forum keeps consistent by hand *)
(* (the denormalised counters and the first/last post pointers of topics   *)
(* and forums, the positions of posts, the users' post counters) and every *)
(* request of inyoka.forum.views that inserts, moves or removes a post or  *)
(* a topic.                                                                *)
(*                                                                         *)
(* One action is one database transaction.  A request that commits more    *)
(* than once leaves its remaining work in req, and may be lost between two *)
(* commits (Crash).  Requests are served one after the other.              *)
(***************************************************************************)
EXTENDS Integers, FiniteSets

CONSTANTS
    Forums,           \* rows of forum_forum, categories included
    Null,             \* SQL NULL
    Parent,           \* Forum.parent_id
    UserCountPosts,   \* the forums with user_count_posts set
    Users,            \* rows of portal_user
    MaxTopics,        \* bound: topics ever created
    MaxPosts,         \* bound: posts ever created
    MaxModerations,   \* bound: topics moved and split
    CrossForumSplit,  \* may a split put posts into another forum?
    OldRows           \* bound: the outdated Forum rows a request may load

ASSUME ForumsAssumption ==
    /\ Null \notin Forums \cup Users
    /\ Parent \in [Forums -> Forums \cup {Null}]
    /\ UserCountPosts \subseteq Forums

ASSUME BoundsAssumption ==
    /\ MaxTopics \in Nat
    /\ MaxPosts \in Nat
    /\ MaxModerations \in Nat
    /\ CrossForumSplit \in BOOLEAN
    /\ OldRows \subseteq [posts : Nat, last : 0..MaxPosts]

NoPost  == 0
NoTopic == 0
PostIds  == 1..MaxPosts
TopicIds == 1..MaxTopics

VARIABLES
    forum,        \* forum_forum: post_count, topic_count, last_post_id
    topic,        \* forum_topic; forum = Null where there is no row
    post,         \* forum_post; topic = NoTopic where there is no row
    userPosts,    \* portal_user.post_count
    req,          \* what the running request has still to do
    nextTopic,    \* AUTO_INCREMENT of forum_topic
    nextPost,     \* AUTO_INCREMENT of forum_post
    moderations,  \* requests spent of MaxModerations
    leak          \* history: what the counters are off by, the forums whose last
                  \* post was left behind, and whether posts were split into
                  \* another forum

tables == <<forum, topic, post, userPosts>>
vars == <<forum, topic, post, userPosts, req, nextTopic, nextPost,
          moderations, leak>>

BlankTopic == [forum |-> Null, count |-> 0, first |-> NoPost,
               last |-> NoPost]
BlankPost  == [topic |-> NoTopic, pos |-> 0, author |-> Null]
Idle == [op |-> "idle", topic |-> NoTopic, new |-> NoTopic,
         from |-> Null, to |-> Null, posts |-> {}]

-----------------------------------------------------------------------------
(* The forum tree.                                                         *)

Up(f) == {Parent[f]} \ {Null}

(* Forum.parents: every forum above f, the category included; the least   *)
(* set that contains f's parent and the parent of each of its members.    *)
Parents == [f \in Forums |->
    {g \in Forums : \A S \in SUBSET Forums :
        (Up(f) \subseteq S /\ \A h \in S : Up(h) \subseteq S) => g \in S}]

Chain == [f \in Forums |-> Parents[f] \cup {f}]

IsCategory(f) == Parent[f] = Null

(* forum.parents[:-1] and the forum itself: the chain without its category.*)
BelowCategory(f) == {g \in Chain[f] : ~IsCategory(g)}

-----------------------------------------------------------------------------
(* Queries.                                                                *)

PostExists(p)  == post[p].topic # NoTopic
TopicExists(t) == topic[t].forum # Null
PostsOf(t) == {p \in PostIds : post[p].topic = t}
OwnPosts(u, t) == {p \in PostsOf(t) : post[p].author = u}

(* SELECT max(id), or ORDER BY id DESC LIMIT 1: NoPost if no row matches.  *)
Newest(P) == IF P = {} THEN NoPost ELSE CHOOSE p \in P : \A q \in P : q <= p
Oldest(P) == CHOOSE p \in P : \A q \in P : p <= q

(* How many posts of P come before q.                                      *)
Rank(q, P) == Cardinality({r \in P : r < q})

(* Mutants: the position of the newest post is taken as it is; the NULL of *)
(* an empty topic is not replaced.                                         *)
NextPositionSame(t) ==
    IF PostsOf(t) = {} THEN 0 ELSE post[Newest(PostsOf(t))].pos
NextPositionNull(t) ==
    IF PostsOf(t) = {} THEN Null ELSE post[Newest(PostsOf(t))].pos + 1

(* max(Post.position)+1 of a topic, or 0 for its first post.               *)
NextPosition(t) ==
    LET positions == {post[p].pos : p \in PostsOf(t)} IN
    IF positions = {} THEN 0
    ELSE (CHOOSE x \in positions : \A y \in positions : y <= x) + 1

(* The foreign keys on first_post_id and last_post_id: the DELETE fails,   *)
(* and its transaction is rolled back, while another row still refers to   *)
(* one of the posts.                                                       *)
NoReferenceLeft(P) ==
    /\ \A f \in Forums : forum'[f].last \notin P
    /\ \A t \in TopicIds : topic'[t].first \notin P /\ topic'[t].last \notin P

AddTopics(S, n) ==
    [f \in Forums |-> IF f \in S
                      THEN [forum[f] EXCEPT !.topics = @ + n]
                      ELSE forum[f]]

-----------------------------------------------------------------------------
(* Writing.                                                                *)

(* edit(), the first of its two commits: the topic row.                    *)
CreateTopic(f) ==
    /\ req = Idle
    /\ nextTopic <= MaxTopics
    /\ ~IsCategory(f)
    /\ topic' = [topic EXCEPT ![nextTopic] = [BlankTopic EXCEPT !.forum = f]]
    /\ forum' = AddTopics(Chain[f], 1)
    /\ nextTopic' = nextTopic + 1
    /\ req' = [Idle EXCEPT !.op = "post", !.topic = nextTopic]
    /\ UNCHANGED <<post, userPosts, nextPost, moderations, leak>>

(* first_post_id once post p has been inserted.                            *)
FirstPostAfter(first, p) == IF first = NoPost THEN p ELSE first

(* PostMapperExtension.after_insert and the INSERT it follows.             *)
InsertPost(t, u, pos) ==
    LET f == topic[t].forum
        p == nextPost
    IN  /\ nextPost <= MaxPosts
        /\ nextPost' = nextPost + 1
        /\ post' = [post EXCEPT ![p] = [topic |-> t, pos |-> pos, author |-> u]]
        /\ userPosts' = [userPosts EXCEPT
                            ![u] = IF f \in UserCountPosts THEN @ + 1 ELSE @]
        /\ topic' = [topic EXCEPT
                        ![t].count = @ + 1,
                        ![t].last  = p,
                        ![t].first = FirstPostAfter(@, p)]
        /\ forum' = [g \in Forums |->
                        IF g \in Chain[f]
                        THEN [forum[g] EXCEPT !.posts = @ + 1, !.last = p]
                        ELSE forum[g]]

(* edit(), the second commit of a new topic: its first post.               *)
CreatePost(u) ==
    /\ req.op = "post"
    /\ InsertPost(req.topic, u, 0)
    /\ req' = Idle
    /\ UNCHANGED <<nextTopic, moderations, leak>>

(* edit() in an existing topic.                                            *)
Reply(t, u) ==
    /\ req = Idle
    /\ TopicExists(t)
    /\ InsertPost(t, u, NextPosition(t))
    /\ UNCHANGED <<req, nextTopic, moderations, leak>>

-----------------------------------------------------------------------------
(* Deleting.                                                               *)

(* Mutant: the order of the query is turned round.                        *)
OldestOther(p) == Oldest({q \in PostIds : PostExists(q) /\ q # p})

(* What deregister() takes for the newest remaining post: its query names *)
(* Topic without joining it to Post, so it searches every topic.          *)
NewestOther(p) == Newest({q \in PostIds : PostExists(q) /\ q # p})

(* delete_post() and PostMapperExtension.deregister.  The comparison with  *)
(* the forum's last_post_id reads a Forum row that may come from the cache *)
(* ("forum/forums/<slug>", 300 s), so it can go either way.                *)
DeletePost(p) ==
    LET t == post[p].topic
        f == topic[t].forum
    IN  /\ req = Idle
        /\ PostExists(p)
        /\ topic[t].first \notin {NoPost, p}
        /\ userPosts' = [u \in Users |-> userPosts[u] -
                IF u = post[p].author /\ f \in UserCountPosts THEN 1 ELSE 0]
        /\ topic' = [topic EXCEPT
                        ![t].last  = IF @ = p THEN NewestOther(p) ELSE @,
                        ![t].count = @ - 1]
        /\ \E matches \in BOOLEAN :
              forum' = [g \in Forums |->
                  IF g \in Chain[f]
                  THEN [forum[g] EXCEPT
                           !.posts = @ - 1,
                           !.last  = IF matches /\ @ = p THEN NewestOther(p)
                                                         ELSE @]
                  ELSE forum[g]]
        /\ post' = [q \in PostIds |->
                        CASE q = p -> BlankPost
                          [] q # p /\ post[q].topic = t
                                   /\ post[q].pos > post[p].pos
                               -> [post[q] EXCEPT !.pos = @ - 1]
                          [] OTHER -> post[q]]
        /\ NoReferenceLeft({p})
        /\ UNCHANGED <<req, nextTopic, nextPost, moderations, leak>>

(* TopicMapperExtension.before_delete: the forum rows fs once topic t has  *)
(* left forum f, with ps the post rows of that moment.                     *)
WithoutTopic(fs, f, t, ps) ==
    LET left == {q \in PostIds : /\ ps[q].topic \notin {NoTopic, t}
                                 /\ topic[ps[q].topic].forum \in BelowCategory(f)}
    IN  [g \in Forums |->
            IF g \in BelowCategory(f)
            THEN [fs[g] EXCEPT !.topics = @ - 1, !.last = Newest(left)]
            ELSE fs[g]]

(* delete_topic().  The database removes the posts with the row            *)
(* (passive_deletes), so no Post handler runs: neither the forums' nor the *)
(* users' post counters are taken back, nor the category's topic counter.  *)
DeleteTopic(t) ==
    LET f == topic[t].forum IN
        /\ req = Idle
        /\ TopicExists(t)
        /\ forum' = WithoutTopic(forum, f, t, post)
        /\ topic' = [topic EXCEPT ![t] = BlankTopic]
        /\ post' = [q \in PostIds |->
                        IF post[q].topic = t THEN BlankPost ELSE post[q]]
        /\ NoReferenceLeft(PostsOf(t))
        /\ leak' = [leak EXCEPT
                       !.posts = [g \in Forums |->
                        leak.posts[g] + IF g \in Chain[f]
                                        THEN Cardinality(PostsOf(t)) ELSE 0],
                       !.topics = [g \in Forums |->
                        leak.topics[g] + IF g \in Chain[f] /\ IsCategory(g)
                                         THEN 1 ELSE 0],
                       !.users = [u \in Users |->
                        leak.users[u] + IF f \in UserCountPosts
                                        THEN Cardinality(OwnPosts(u, t)) ELSE 0]]
        /\ UNCHANGED <<userPosts, req, nextTopic, nextPost, moderations>>

-----------------------------------------------------------------------------
(* Moving a topic: Topic.move commits after each of its first steps, and   *)
(* every commit expires the rows it has read.                              *)

MoveOut(t, g) ==
    /\ req = Idle
    /\ TopicExists(t)
    /\ moderations < MaxModerations
    /\ ~IsCategory(g)
    /\ g # topic[t].forum
    /\ forum' = [h \in Forums |->
                    IF h \in Chain[topic[t].forum]
                    THEN [forum[h] EXCEPT !.topics = @ - 1,
                                          !.posts  = @ - topic[t].count]
                    ELSE forum[h]]
    /\ req' = [Idle EXCEPT !.op = "set", !.topic = t, !.to = g]
    /\ moderations' = moderations + 1
    /\ UNCHANGED <<topic, post, userPosts, nextTopic, nextPost, leak>>

MoveSet ==
    /\ req.op = "set"
    /\ topic' = [topic EXCEPT ![req.topic].forum = req.to]
    /\ req' = [req EXCEPT !.op = "in", !.from = topic[req.topic].forum]
    /\ UNCHANGED <<forum, post, userPosts, nextTopic, nextPost, moderations,
                   leak>>

MoveIn ==
    /\ req.op = "in"
    /\ forum' = [h \in Forums |->
                    IF h \in Chain[topic[req.topic].forum]
                    THEN [forum[h] EXCEPT !.topics = @ + 1,
                                          !.posts  = @ + topic[req.topic].count]
                    ELSE forum[h]]
    /\ req' = [req EXCEPT !.op = "users"]
    /\ UNCHANGED <<topic, post, userPosts, nextTopic, nextPost, moderations,
                   leak>>

(* Mutant: add and sub are swapped.                                       *)
UserShareSwapped(u, t, f, g) ==
    CASE g \in UserCountPosts /\ f \notin UserCountPosts
             -> -Cardinality(OwnPosts(u, t))
      [] g \notin UserCountPosts /\ f \in UserCountPosts
             -> Cardinality(OwnPosts(u, t))
      [] OTHER -> 0

(* What moving topic t from forum f to forum g is worth to user u.         *)
UserShare(u, t, f, g) ==
    CASE g \in UserCountPosts /\ f \notin UserCountPosts
             -> Cardinality(OwnPosts(u, t))
      [] g \notin UserCountPosts /\ f \in UserCountPosts
             -> -Cardinality(OwnPosts(u, t))
      [] OTHER -> 0

MoveUsers ==
    /\ req.op = "users"
    /\ userPosts' = [u \in Users |-> userPosts[u] +
                        UserShare(u, req.topic, req.from, req.to)]
    /\ req' = [req EXCEPT !.op = "last"]
    /\ UNCHANGED <<forum, topic, post, nextTopic, nextPost, moderations, leak>>

(* The newest post of each forum on both chains, from its own topics only. *)
MoveLast ==
    /\ req.op = "last"
    /\ forum' = [g \in Forums |->
                    IF g \in BelowCategory(req.to) \cup BelowCategory(req.from)
                    THEN [forum[g] EXCEPT !.last =
                             Newest({q \in PostIds : PostExists(q) /\
                                        topic[post[q].topic].forum = g})]
                    ELSE forum[g]]
    /\ req' = Idle
    /\ UNCHANGED <<topic, post, userPosts, nextTopic, nextPost, moderations,
                   leak>>

-----------------------------------------------------------------------------
(* Splitting a topic.                                                      *)

(* Mutant: the posts are looked up by id alone, not among the topic's.     *)
MaySplitAny(t, P, g) ==
    /\ req = Idle
    /\ TopicExists(t)
    /\ P # {}
    /\ \A p \in P : PostExists(p)
    /\ moderations < MaxModerations
    /\ CrossForumSplit \/ g = topic[t].forum
    /\ moderations' = moderations + 1

(* The form, and the posts of old_topic that it selects.                   *)
MaySplit(t, P, g) ==
    /\ req = Idle
    /\ TopicExists(t)
    /\ P # {}
    /\ P \subseteq PostsOf(t)
    /\ moderations < MaxModerations
    /\ CrossForumSplit \/ g = topic[t].forum
    /\ moderations' = moderations + 1

(* splittopic(), action "new", first transaction: the topic row, counted   *)
(* by after_insert.                                                        *)
SplitNew(t, P, g) ==
    /\ MaySplit(t, P, g)
    /\ nextTopic <= MaxTopics
    /\ ~IsCategory(g)
    /\ topic' = [topic EXCEPT ![nextTopic] = [BlankTopic EXCEPT !.forum = g]]
    /\ forum' = AddTopics(Chain[g], 1)
    /\ nextTopic' = nextTopic + 1
    /\ req' = [Idle EXCEPT !.op = "count", !.topic = t, !.new = nextTopic,
                           !.to = g, !.posts = P]
    /\ UNCHANGED <<post, userPosts, nextPost, leak>>

(* atomic_add, on a connection of its own: the forum of the new topic      *)
(* counts it again.                                                        *)
SplitCount ==
    /\ req.op = "count"
    /\ forum' = AddTopics({req.to}, 1)
    /\ leak' = [leak EXCEPT !.topics[req.to] = @ + 1]
    /\ req' = [req EXCEPT !.op = "split"]
    /\ UNCHANGED <<topic, post, userPosts, nextTopic, nextPost, moderations>>

(* The post rows once P has moved from topic t to topic n: the posts of t  *)
(* behind the first one of P are numbered on from its place, those of n    *)
(* from 0, both by id.                                                     *)
Renumbered(P, t, n) ==
    LET start == post[Oldest(P)].pos
        rest  == {q \in PostsOf(t) \ P : post[q].pos > start}
        moved == PostsOf(n) \cup P
    IN  [q \in PostIds |->
            CASE q \in moved -> [post[q] EXCEPT !.topic = n,
                                                !.pos   = Rank(q, moved)]
              [] q \in rest  -> [post[q] EXCEPT !.pos = start + Rank(q, rest)]
              [] OTHER       -> post[q]]

(* The topic rows: any is what the query for t's new first post returns,   *)
(* which names Topic without joining it to Post.                           *)
SplitTopics(P, t, n, any) ==
    LET size    == Cardinality(P)
        removed == size = topic[t].count
        rest    == PostsOf(t) \ P
        new == topic[n]
        old == topic[t]
    IN  [topic EXCEPT
            ![n] = [forum |-> new.forum,
                    count |-> new.count + size,
                    last  |-> IF new.last = NoPost \/ Newest(P) > new.last
                              THEN Newest(P) ELSE new.last,
                    first |-> IF new.first = NoPost \/ Oldest(P) < new.first
                              THEN Oldest(P) ELSE new.first],
            ![t] = IF removed THEN BlankTopic
                   ELSE [forum |-> old.forum,
                         count |-> old.count - size,
                         last  |-> IF old.last = Newest(P)
                                   THEN Newest(rest \ {old.last})
                                   ELSE old.last,
                         first |-> IF old.first = Oldest(P) THEN any
                                   ELSE old.first]]

(* The forum rows of a split from forum f to another forum g: only the two *)
(* forums themselves, not their parents.  seen holds the two rows as the   *)
(* request has loaded them; some is the answer of the unordered query for  *)
(* f's new last post.                                                      *)
SplitForums(P, f, g, seen, some) ==
    IF f = g THEN forum
    ELSE [forum EXCEPT
            ![f].posts = seen[f].posts - Cardinality(P),
            ![f].last  = IF seen[f].last = Newest(P) THEN some ELSE @,
            ![g].posts = seen[g].posts + Cardinality(P),
            ![g].last  = IF seen[g].last = NoPost \/ Newest(P) > seen[g].last
                         THEN Newest(P) ELSE @]

(* The users' counters: by the posts that stay in t, as the query runs     *)
(* after the others have left it.                                          *)
SplitUsers(P, t, f, g) ==
    [u \in Users |-> userPosts[u] +
        LET stay == Cardinality(OwnPosts(u, t) \ P) IN
        CASE f = g -> 0
          [] g \in UserCountPosts /\ f \notin UserCountPosts -> stay
          [] g \notin UserCountPosts /\ f \in UserCountPosts -> -stay
          [] OTHER -> 0]

(* Post.split, from topic t into topic n, with the two forum rows as seen. *)
Split(P, t, n, seen) ==
    LET f == topic[t].forum
        g == topic[n].forum
        removed == Cardinality(P) = topic[t].count
        inForum == {q \in PostIds : LET h == Renumbered(P, t, n)[q].topic IN
                        h # NoTopic /\ topic[h].forum = f}
    IN  /\ topic[t].first # NoPost
        /\ topic[t].last # NoPost
        /\ f # g => seen[f].last # NoPost
        /\ post' = Renumbered(P, t, n)
        /\ \E any \in {q \in PostIds : PostExists(q)} :
              topic' = SplitTopics(P, t, n, any)
        /\ \E some \in IF inForum = {} THEN {NoPost} ELSE inForum :
              forum' = LET fs == SplitForums(P, f, g, seen, some) IN
                       IF removed THEN WithoutTopic(fs, f, t, post') ELSE fs
        /\ userPosts' = SplitUsers(P, t, f, g)
        /\ leak' = [leak EXCEPT
                       !.topics = [h \in Forums |-> leak.topics[h] +
                        IF removed /\ h \in Chain[f] /\ IsCategory(h)
                        THEN 1 ELSE 0],
                       !.spread = @ \/ f # g]

(* splittopic(), action "new", last transaction.                           *)
SplitPosts ==
    /\ req.op = "split"
    /\ Split(req.posts, req.topic, req.new, forum)
    /\ req' = Idle
    /\ UNCHANGED <<nextTopic, nextPost, moderations>>

(* splittopic(), action "add".  The two Forum rows are those of the table, *)
(* or older ones from the cache (Forum.query.get_cached in                 *)
(* _add_field_choices merges them into the session).                       *)
SplitInto(t, P, n) ==
    LET f == topic[t].forum
        g == topic[n].forum
    IN  /\ TopicExists(n)
        /\ n # t
        /\ MaySplit(t, P, g)
        /\ \/ Split(P, t, n, forum)
           \/ f # g /\ \E old \in [{f, g} -> OldRows] : Split(P, t, n, old)
        /\ UNCHANGED <<req, nextTopic, nextPost>>

-----------------------------------------------------------------------------
(* The process dies, or the next statement fails, between two commits.     *)
Crash ==
    /\ req # Idle
    /\ req' = Idle
    /\ LET t == req.topic
           missing == CASE req.op = "set" -> Chain[topic[t].forum]
                        [] req.op = "in"  -> Chain[topic[t].forum]
                        [] OTHER          -> {}
       IN  leak' = [leak EXCEPT
                       !.posts = [f \in Forums |-> leak.posts[f] -
                        IF f \in missing THEN topic[t].count ELSE 0],
                       !.topics = [f \in Forums |-> leak.topics[f] -
                        IF f \in missing THEN 1 ELSE 0],
                       !.users = [u \in Users |-> leak.users[u] -
                        IF req.op \in {"in", "users"}
                        THEN UserShare(u, t, req.from, req.to) ELSE 0],
                       !.last = leak.last \cup
                        IF req.op \in {"in", "users", "last"}
                        THEN {topic[t].forum} ELSE {}]
    /\ UNCHANGED <<tables, nextTopic, nextPost, moderations>>

Init ==
    /\ forum = [f \in Forums |-> [posts |-> 0, topics |-> 0, last |-> NoPost]]
    /\ topic = [t \in TopicIds |-> BlankTopic]
    /\ post = [p \in PostIds |-> BlankPost]
    /\ userPosts = [u \in Users |-> 0]
    /\ req = Idle
    /\ nextTopic = 1
    /\ nextPost = 1
    /\ moderations = 0
    /\ leak = [posts  |-> [f \in Forums |-> 0],
               topics |-> [f \in Forums |-> 0],
               users  |-> [u \in Users |-> 0],
               last   |-> {},
               spread |-> FALSE]

Next ==
    \/ \E f \in Forums : CreateTopic(f)
    \/ \E u \in Users : CreatePost(u)
    \/ \E t \in TopicIds, u \in Users : Reply(t, u)
    \/ \E p \in PostIds : DeletePost(p)
    \/ \E t \in TopicIds : DeleteTopic(t)
    \/ \E t \in TopicIds, g \in Forums : MoveOut(t, g)
    \/ MoveSet
    \/ MoveIn
    \/ MoveUsers
    \/ MoveLast
    \/ \E t \in TopicIds, P \in SUBSET PostIds, g \in Forums : SplitNew(t, P, g)
    \/ SplitCount
    \/ SplitPosts
    \/ \E t, n \in TopicIds, P \in SUBSET PostIds : SplitInto(t, P, n)
    \/ Crash

Spec == Init /\ [][Next]_vars

-----------------------------------------------------------------------------
(* Properties.                                                             *)

TopicRow == [forum : Forums \cup {Null}, count : Int,
             first : PostIds \cup {NoPost}, last : PostIds \cup {NoPost}]
PostRow  == [topic : TopicIds \cup {NoTopic}, pos : Int,
             author : Users \cup {Null}]
ForumRow == [posts : Int, topics : Int, last : PostIds \cup {NoPost}]

TablesType ==
    /\ forum \in [Forums -> ForumRow]
    /\ topic \in [TopicIds -> TopicRow]
    /\ post \in [PostIds -> PostRow]
    /\ userPosts \in [Users -> Int]

ReqType ==
    req \in [op : {"idle", "post", "set", "in", "users", "last", "count",
                   "split"},
             topic : TopicIds \cup {NoTopic}, new : TopicIds \cup {NoTopic},
             from : Forums \cup {Null}, to : Forums \cup {Null},
             posts : SUBSET PostIds]

CountersType ==
    /\ nextTopic \in Nat \ {0}
    /\ nextPost \in Nat \ {0}
    /\ moderations \in Nat
    /\ leak \in [posts : [Forums -> Int], topics : [Forums -> Int],
                 users : [Users -> Int], last : SUBSET Forums, spread : BOOLEAN]

(* Every table holds rows of its type, and the request in progress too.    *)
TypeOK == TablesType /\ ReqType /\ CountersType

(* Topic.post_count, kept by three mapper hooks and by Post.split, is the  *)
(* number of the topic's posts after every transaction: pagination and the *)
(* decision to delete a topic that is split empty rely on it.              *)
TopicPostCount ==
    \A t \in TopicIds : topic[t].count = Cardinality(PostsOf(t))

(* The positions of a topic's posts are 0, 1, 2, ... in the order of their *)
(* ids: a page of viewtopic is a range of positions, and url_for_post      *)
(* computes the page from the position.                                    *)
PositionsInOrder ==
    \A t \in TopicIds : \A p \in PostsOf(t) :
        post[p].pos = Rank(p, PostsOf(t))

(* No topic's last_post_id is older than one of its posts, whatever was    *)
(* deleted or split away: read marks and the topic order compare it.       *)
TopicLastNotBehind ==
    \A t \in TopicIds : \A p \in PostsOf(t) : p <= topic[t].last

(* A topic with posts has a first_post_id: delete_post and splittopic      *)
(* dereference it without a test.                                          *)
FirstPostSet ==
    \A t \in TopicIds : topic[t].count > 0 => topic[t].first # NoPost

(* A forum's last_post_id is not older than a post of its own topics once  *)
(* no request is between two commits, unless a move into it was cut short. *)
ForumLastNotBehind ==
    req = Idle => \A p \in PostIds :
        PostExists(p) /\ topic[post[p].topic].forum \notin leak.last
            => p <= forum[topic[post[p].topic].forum].last

PostsBelow(f) ==
    {p \in PostIds : PostExists(p) /\ f \in Chain[topic[post[p].topic].forum]}
TopicsBelow(f) == {t \in TopicIds : TopicExists(t) /\ f \in Chain[topic[t].forum]}
CountedPosts(u) ==
    {p \in PostIds : /\ PostExists(p)
                     /\ post[p].author = u
                     /\ topic[post[p].topic].forum \in UserCountPosts}

(* The counters of every forum are those of the posts and topics below it, *)
(* and a user's counter that of the posts in counting forums, but for what *)
(* the history says: topics deleted or counted twice, moves cut short.     *)
CountersExplained ==
    req = Idle =>
        /\ \A f \in Forums :
              /\ forum[f].posts = Cardinality(PostsBelow(f)) + leak.posts[f]
              /\ forum[f].topics = Cardinality(TopicsBelow(f)) + leak.topics[f]
        /\ \A u \in Users :
              userPosts[u] = Cardinality(CountedPosts(u)) + leak.users[u]

(* What a topic names as its first and last post is there when it has      *)
(* posts, and never older than them.                                       *)
LastPostsNotBehind == FirstPostSet /\ TopicLastNotBehind

(* Until posts are split into another forum, which computes on rows that   *)
(* may be outdated, every deviation of a counter is one the history        *)
(* explains, and no forum's last post is behind.                           *)
CountersAddUp == ~leak.spread => CountersExplained /\ ForumLastNotBehind

-----------------------------------------------------------------------------
(* What a comment of the code says, and it does not do.                    *)

(* deregister: the forum's new last post is selected "from the current     *)
(* topic".                                                                 *)
LastPostFromTopic ==
    [][\A p \in PostIds : DeletePost(p) =>
          \A f \in Forums :
              \/ forum'[f].last = forum[f].last
              \/ post'[forum'[f].last].topic = post[p].topic]_vars

=============================================================================
