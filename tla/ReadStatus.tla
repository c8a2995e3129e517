----------------------------- MODULE ReadStatus -----------------------------
(***************************************************************************)
(* Which topics and forums count as read by one user: the ReadStatus that  *)
(* is pickled into the user's row, the requests that mark something read,  *)
(* and the questions asked of it.  A forum's row of the status says up to  *)
(* which post id everything is read, and which newer topics are read, each *)
(* by the id of its last post.                                             *)
(*                                                                         *)
(* A request is one step: two requests of the same user that overlap save  *)
(* the whole row, and the later one wins.  Posts are not deleted here.     *)
(***************************************************************************)
EXTENDS Integers, FiniteSets

CONSTANTS
    Forums,
    Null,
    Parent,            \* Forum.parent_id
    Topics,
    MaxPosts,          \* bound: posts ever written
    MaxMoves,          \* bound: topics moved
    LimitUnread        \* settings.FORUM_LIMIT_UNREAD

ASSUME ReadStatusAssumption ==
    /\ Null \notin Forums
    /\ Parent \in [Forums -> Forums \cup {Null}]
    /\ \E f \in Forums : Parent[f] # Null
    /\ MaxPosts \in Nat
    /\ MaxMoves \in Nat
    /\ LimitUnread \in Nat \ {0, 1}   \* half of one is none

PostIds == 1..MaxPosts
None == 0      \* no last post; no post read

VARIABLES
    at,         \* Topic.forum_id; Null where the topic does not exist yet
    topicOf,    \* Post.topic_id of every post written
    forumLast,  \* Forum.last_post_id
    data,       \* ReadStatus.data
    readTo,     \* history: a topic's last post when it was viewed in a forum that has
                \* not been marked as a whole since
    moves       \* spent of MaxMoves

vars == <<at, topicOf, forumLast, data, readTo, moves>>

-----------------------------------------------------------------------------
(* The forum tree and its topics.                                          *)

Up(f) == {Parent[f]} \ {Null}
Parents == [f \in Forums |->
    {g \in Forums : \A S \in SUBSET Forums :
        (Up(f) \subseteq S /\ \A h \in S : Up(h) \subseteq S) => g \in S}]
Chain == [f \in Forums |-> Parents[f] \cup {f}]
Children(f) == {g \in Forums : Parent[g] = f}

(* No forum is below itself: Forum.parents would not end.                  *)
Trees == \A f \in Forums : f \notin Parents[f]

Below == [f \in Forums |-> {g \in Forums : f \in Chain[g]}]
IsCategory(f) == Parent[f] = Null

Greatest(S) == IF S = {} THEN None ELSE CHOOSE x \in S : \A y \in S : y <= x

NextPost == Cardinality(DOMAIN topicOf) + 1
PostsOf(t) == {p \in DOMAIN topicOf : topicOf[p] = t}
TopicLast(t) == Greatest(PostsOf(t))
Exists(t) == at[t] # Null

-----------------------------------------------------------------------------
(* ReadStatus.__call__ with the status d.                                  *)

NoRow == [upto |-> None, posts |-> {}]

ForumRead(d, f) == d[f].upto >= forumLast[f]

TopicRead(d, t) ==
    \/ d[at[t]].upto >= TopicLast(t)
    \/ TopicLast(t) \in d[at[t]].posts

-----------------------------------------------------------------------------
(* ReadStatus.mark.                                                        *)

(* Mutant: the children of a forum are left alone.                         *)
UnreadSelf(d, f) == {f}

(* The forums below f that the calls for its children reach: a call stops  *)
(* at a forum that is read.                                                *)
UnreadBelow(d, f) ==
    {g \in Below[f] :
        \A h \in Below[f] : g \in Below[h] => ~ForumRead(d, h)}

(* The forums above f that the calls for a parent reach: all children of   *)
(* each of them, but the one on the way from f, are read already.          *)
CompletedAbove(d, f) ==
    {g \in Parents[f] : \A h \in Parents[f] : h \in Below[g] =>
        /\ ~ForumRead(d, h)
        /\ \A c \in Children(h) : c \in Chain[f] \/ ForumRead(d, c)}

MarkForum(d, f) ==
    IF ForumRead(d, f) THEN d
    ELSE [g \in Forums |->
            IF g \in UnreadBelow(d, f) \cup CompletedAbove(d, f)
            THEN [upto |-> forumLast[g], posts |-> {}]
            ELSE d[g]]

Nth(S, n) == CHOOSE x \in S : Cardinality({y \in S : y < x}) = n

(* Mutant: the older half is forgotten without moving the mark.            *)
TruncatedOnly(row) ==
    [row EXCEPT !.posts = {p \in @ : p >= Nth(row.posts, LimitUnread \div 2)}]

(* More than LimitUnread topics: the older half of them becomes the mark.  *)
Truncated(row) ==
    LET middle == Nth(row.posts, LimitUnread \div 2) IN
        [upto |-> middle, posts |-> {p \in row.posts : p >= middle}]

(* A row that exists is changed in place, even if it is not stored again.  *)
MarkTopic(d, t) ==
    LET f == at[t]
        row == [d[f] EXCEPT !.posts = @ \cup {TopicLast(t)}]
        inPlace == IF d[f] = NoRow THEN d ELSE [d EXCEPT ![f] = row]
        childrenRead == \A c \in Children(f) : ForumRead(d, c)
        newer == forumLast[f] > row.upto /\ forumLast[f] \notin row.posts
    IN  CASE TopicRead(d, t)           -> d
          [] ~TopicRead(d, t) /\ childrenRead /\ ~newer
                                       -> MarkForum(inPlace, f)
          [] OTHER -> [d EXCEPT ![f] = IF Cardinality(row.posts) > LimitUnread
                                       THEN Truncated(row) ELSE row]

-----------------------------------------------------------------------------
(* first_unread_post.                                                      *)

(* Mutant: only the mark of the forum is looked at.                        *)
SeenByMark(d, t) == d[at[t]].upto

(* The newest post of t that the status says is read.                      *)
Seen(d, t) ==
    Greatest({d[at[t]].upto} \cup (PostsOf(t) \cap d[at[t]].posts))

FirstUnread(d, t) ==
    LET unread == {p \in PostsOf(t) : p > Seen(d, t)} IN
        IF unread = {} THEN None
        ELSE CHOOSE p \in unread : \A q \in unread : p <= q

-----------------------------------------------------------------------------
(* The requests.                                                           *)

(* A new topic or a reply.  Its author's own mark comes before the post is *)
(* inserted and is not modelled: the user reads what others write.         *)
Write(t, f) ==
    /\ NextPost \in PostIds
    /\ IF Exists(t) THEN f = at[t] ELSE ~IsCategory(f)
    /\ at' = [at EXCEPT ![t] = f]
    /\ topicOf' = [p \in 1..NextPost |-> IF p = NextPost THEN t ELSE topicOf[p]]
    /\ forumLast' = [g \in Forums |->
                        IF g \in Chain[f] THEN NextPost ELSE forumLast[g]]
    /\ UNCHANGED <<data, readTo, moves>>

(* The forums that a request marks as a whole: their rows forget the       *)
(* topics read one by one, those that have been moved away included.       *)
Marked == {f \in Forums : data'[f].posts = {} /\ data'[f].upto # data[f].upto}
VisitsIn(visits) ==
    [t \in Topics |-> [f \in Forums |-> IF f \in Marked THEN None ELSE visits[t][f]]]

(* viewtopic: mark_read and save().                                        *)
View(t) ==
    /\ Exists(t)
    /\ data' = MarkTopic(data, t)
    /\ readTo' = VisitsIn([readTo EXCEPT ![t][at[t]] = TopicLast(t)])
    /\ UNCHANGED <<at, topicOf, forumLast, moves>>

(* markread with a slug.                                                   *)
MarkRead(f) ==
    /\ data' = MarkForum(data, f)
    /\ readTo' = VisitsIn(readTo)
    /\ UNCHANGED <<at, topicOf, forumLast, moves>>

(* Topic.move, seen from the reader: the last posts of the forums on both  *)
(* chains are those of their own topics, the categories' stay.             *)
Move(t, g) ==
    /\ Exists(t)
    /\ moves < MaxMoves
    /\ ~IsCategory(g)
    /\ g # at[t]
    /\ moves' = moves + 1
    /\ at' = [at EXCEPT ![t] = g]
    /\ forumLast' = [f \in Forums |->
            IF f \in Chain[g] \cup Chain[at[t]] /\ ~IsCategory(f)
            THEN Greatest({p \in DOMAIN topicOf : at'[topicOf[p]] = f})
            ELSE forumLast[f]]
    /\ UNCHANGED <<topicOf, data, readTo>>

Init ==
    /\ at = [t \in Topics |-> Null]
    /\ topicOf = [p \in 1..0 |-> Null]
    /\ forumLast = [f \in Forums |-> None]
    /\ data = [f \in Forums |-> NoRow]
    /\ readTo = [t \in Topics |-> [f \in Forums |-> None]]
    /\ moves = 0

Next ==
    \/ \E t \in Topics, f \in Forums : Write(t, f)
    \/ \E t \in Topics : View(t)
    \/ \E f \in Forums : MarkRead(f)
    \/ \E t \in Topics, g \in Forums : Move(t, g)

Spec == Init /\ [][Next]_vars

-----------------------------------------------------------------------------
(* Properties.                                                             *)

(* Types; a row never holds more than LimitUnread topics.                  *)
TypeOK ==
    /\ at \in [Topics -> Forums \cup {Null}]
    /\ DOMAIN topicOf = 1..(NextPost - 1)
    /\ \A p \in DOMAIN topicOf : topicOf[p] \in Topics
    /\ forumLast \in [Forums -> 0..MaxPosts]
    /\ data \in [Forums -> [upto : 0..MaxPosts, posts : SUBSET PostIds]]
    /\ \A f \in Forums : Cardinality(data[f].posts) <= LimitUnread
    /\ readTo \in [Topics -> [Forums -> 0..MaxPosts]]
    /\ moves \in 0..MaxMoves

(* What is read stays read, through truncation and the marking of forums,  *)
(* until somebody writes to the topic or moves it.                         *)
StaysRead ==
    [][\A t \in Topics :
          Exists(t) /\ TopicRead(data, t) /\ at'[t] = at[t]
              /\ TopicLast(t)' = TopicLast(t)
          => TopicRead(data, t)']_vars

(* A forum shown as read hides no unread topic of its own or of a forum    *)
(* below it, until a topic is moved: the status knows nothing of moves.    *)
ForumReadMeansAllRead ==
    moves = 0 => \A f \in Forums : ForumRead(data, f) =>
        \A t \in Topics : Exists(t) /\ at[t] \in Below[f] => TopicRead(data, t)

(* Reading topic by topic suffices: once a forum's topics and all forums   *)
(* below it are read, so is the forum.                                     *)
AllReadMeansForumRead ==
    moves = 0 => \A f \in Forums :
        /\ \A t \in Topics : Exists(t) /\ at[t] = f => TopicRead(data, t)
        /\ \A c \in Children(f) : ForumRead(data, c)
        => ForumRead(data, f)

(* The link to the first unread post leads to the first one that neither   *)
(* a mark of the forum has covered nor a visit of the topic there, since   *)
(* the forum was last marked as a whole.                                   *)
FirstUnreadIsNext ==
    \A t \in Topics : Exists(t) =>
        LET p == FirstUnread(data, t)
            covered(q) == q <= readTo[t][at[t]] \/ q <= data[at[t]].upto
        IN  /\ p # None => ~covered(p)
            /\ \A q \in PostsOf(t) : ~covered(q) => p # None /\ p <= q

(* Forums and topics agree on what is read.                                *)
ForumsAgreeWithTopics == ForumReadMeansAllRead /\ AllReadMeansForumRead

=============================================================================
