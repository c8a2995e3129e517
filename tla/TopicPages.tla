----------------------------- MODULE TopicPages -----------------------------
(***************************************************************************)
(* The topic lists of the forums as they are shown: the first pages of a   *)
(* forum, whose topic ids are cached, the pages behind them, which are     *)
(* read anew, and the latest topics that the feed takes from a second      *)
(* cache.  Whoever writes and commits also deletes the cached pages,       *)
(* before the commit (a new post) or after it (everything else).  They     *)
(* have a key each and are read, stored and deleted one by one: the model  *)
(* follows one of them, whichever it is.  Of a row, the key it is sorted   *)
(* by is kept: sticky topics first, then the newest last post.             *)
(*                                                                         *)
(* Below them, how lists are divided into pages at all                     *)
(* (utils/pagination.py): the slice of a page, or the rows whose position  *)
(* falls on it, and the bar of links under it; the shorter bar next to a   *)
(* topic and the page a link to a post leads to (forum/models.py); the     *)
(* topic lists that are cut off (forum/views.py).                          *)
(***************************************************************************)
EXTENDS Integers, Sequences, FiniteSets

CONSTANTS
    ListTopics, ListForums,   \* the topics and the forums of the lists
    PerPage,     \* TOPICS_PER_PAGE
    ListPage,    \* one of the pages that are cached, below CACHE_PAGES_COUNT
    Newest,      \* FORUM_TOPIC_CACHE
    ListTime, FeedTime,   \* how long the two caches keep an entry
    MaxTime, MaxWrites,   \* bounds on the clock and on what is written
    NoEntry,     \* no entry in a cache; also: no row yet
    GoneTopic,   \* a row deleted
    MaxTotal, PageSize, MaxPagesList, Thresholds   \* the sizes of the pages asked for

VARIABLES
    now, writes,
    topics,      \* the rows: forum, sticky, last post, hidden, and when that changed
    stored,      \* the cached page of each forum
    latest,      \* the cached latest topics of each forum
    writer,      \* the change under way
    reader,      \* the forum whose page is being read, and what was found
    fresh,       \* the forums whose page no change went past unnoticed
    asked,       \* a page of a list
    paged        \* <<>>, or <<what that page is>>

listsVars == <<now, writes, topics, stored, latest, writer, reader, fresh>>
pagingVars == <<asked, paged>>

-----------------------------------------------------------------------------
(* What a page of a list is.                                                *)

MaxPages(total, per) ==
    LET before == IF total > 0 THEN total - 1 ELSE 0 IN before \div per + 1

\* Rows from..upto, counted from 0, of a list of that length.
Rows(from, upto, length) == {row \in 0 .. length - 1 : from <= row /\ row < upto}

\* Pagination.__init__: page 0 is not refused, and has no rows; a page of a list that
\* is given a total of 0 counts the list.
Objects(length, per, page) ==
    IF page = 0 THEN {} ELSE Rows((page - 1) * per, page * per, length)
Pages(length, total, per) == MaxPages(IF total > 0 THEN total ELSE length, per)
Refused(length, total, per, page) == page > Pages(length, total, per)

-----------------------------------------------------------------------------
(* The cached lists of topics.                                              *)

Idle == [at |-> "idle"]

TopicRow == [forum : ListForums, sticky : BOOLEAN, last : Nat, hidden : BOOLEAN, changed : Nat]
PageEntry == [ids : SUBSET ListTopics, total : Nat, at : Nat]
LatestIds == [ids : SUBSET ListTopics, at : Nat]

\* A forum has finitely many topics.
PagesAssumption ==
    /\ IsFiniteSet(ListTopics)
    /\ NoEntry # GoneTopic /\ GoneTopic \notin TopicRow
    /\ NoEntry \notin TopicRow /\ NoEntry \notin PageEntry /\ NoEntry \notin LatestIds

Row(f, last) == [forum |-> f, sticky |-> FALSE, last |-> last, hidden |-> FALSE, changed |-> 0]

ListsInit ==
    /\ now = 0 /\ writes = 1
    /\ \E t \in ListTopics, f \in ListForums :
         topics = [u \in ListTopics |-> IF u = t THEN Row(f, 1) ELSE NoEntry]
    /\ stored = [f \in ListForums |-> NoEntry] /\ latest = [f \in ListForums |-> NoEntry]
    /\ writer = Idle /\ reader = Idle /\ fresh = ListForums

TopicThere(t) == topics[t] \notin {NoEntry, GoneTopic}
Of(f) == {t \in ListTopics : TopicThere(t) /\ topics[t].forum = f}
Before(t, u) ==
    \/ topics[t].sticky /\ ~topics[u].sticky
    \/ topics[t].sticky = topics[u].sticky /\ topics[t].last > topics[u].last
Rank(t, among) == Cardinality({u \in among : Before(u, t)})
OnPage(page, among) ==
    {t \in among : (page - 1) * PerPage <= Rank(t, among) /\ Rank(t, among) < page * PerPage}

\* The forum is being read, or has a cached page that outlives the change.
Reading(f) == reader # Idle /\ reader.forum = f
Unnoticed(f) == stored[f] # NoEntry \/ Reading(f)

\* An entry lives for its time.
Left(cached, time) ==
    [f \in ListForums |-> IF cached[f] # NoEntry /\ cached[f].at + time <= now + 1
                         THEN NoEntry ELSE cached[f]]
Tick ==
    /\ now < MaxTime /\ now' = now + 1
    /\ stored' = Left(stored, ListTime) /\ latest' = Left(latest, FeedTime)
    /\ fresh' = fresh \union {f \in ListForums : stored'[f] = NoEntry /\ ~Reading(f)}
    /\ UNCHANGED <<writes, topics, writer, reader>>

-----------------------------------------------------------------------------
(* Changes: what is committed, and the forums whose page is deleted next.   *)

Commit(rows) ==
    /\ writes < MaxWrites /\ writes' = writes + 1
    /\ topics' = rows
    /\ UNCHANGED <<now, stored, latest, reader>>

\* The pages are deleted after the commit; who is reading then stores the old page.
ThenDelete(forums, next, spoilt) ==
    /\ writer' = [at |-> "delete", forums |-> forums, next |-> next]
    /\ fresh' = fresh \ ({f \in forums : Reading(f)} \union spoilt)

DeletePages ==
    /\ writer.at = "delete"
    /\ stored' = [f \in ListForums |-> IF f \in writer.forums THEN NoEntry ELSE stored[f]]
    /\ writer' = writer.next
    /\ fresh' = fresh \union {f \in writer.forums : ~Reading(f)}
    /\ UNCHANGED <<now, writes, topics, latest, reader>>

\* newtopic_or_reply: the row of a new topic has no last post yet.
NewTopic(t, f) ==
    /\ writer = Idle /\ topics[t] = NoEntry
    /\ Commit([topics EXCEPT ![t] = Row(f, 0)])
    /\ ThenDelete({f}, [at |-> "post", topic |-> t], {})

Reply(t) ==
    /\ writer = Idle /\ TopicThere(t)
    /\ writer' = [at |-> "post", topic |-> t]
    /\ UNCHANGED <<now, writes, topics, stored, latest, reader, fresh>>

\* PostMapperExtension.after_insert deletes the page before the commit.
InsertPost ==
    /\ writer.at = "post"
    /\ stored' = [stored EXCEPT ![topics[writer.topic].forum] = NoEntry]
    /\ writer' = [writer EXCEPT !.at = "commit"]
    /\ fresh' = fresh \union {f \in {topics[writer.topic].forum} : ~Reading(f)}
    /\ UNCHANGED <<now, writes, topics, latest, reader>>

CommitPost ==
    LET t == writer.topic IN
    /\ writer.at = "commit"
    /\ Commit([topics EXCEPT ![t].last = writes + 1])
    /\ writer' = Idle
    /\ fresh' = fresh \ {f \in {topics[t].forum} : Unnoticed(f)}

\* A bug: the cached page survives the change.
StickOnly(t) ==
    /\ writer = Idle /\ TopicThere(t)
    /\ Commit([topics EXCEPT ![t].sticky = ~@])
    /\ UNCHANGED <<writer, fresh>>
\* The first post is edited: the topic becomes sticky or ceases to be.
Stick(t) ==
    /\ writer = Idle /\ TopicThere(t)
    /\ Commit([topics EXCEPT ![t].sticky = ~@])
    /\ ThenDelete({topics[t].forum}, Idle, {})

\* delete_topic and restore_topic
Hide(t) ==
    /\ writer = Idle /\ TopicThere(t)
    /\ Commit([topics EXCEPT ![t].hidden = ~@, ![t].changed = now])
    /\ ThenDelete({topics[t].forum}, Idle, {})
Delete(t) ==
    /\ writer = Idle /\ TopicThere(t)
    /\ Commit([topics EXCEPT ![t] = GoneTopic])
    /\ ThenDelete({topics[t].forum}, Idle, {})

\* Topic.move: when the pages are deleted both names stand for the new forum, so
\* the page of the old one stays.
MoveTopic(t, g) ==
    /\ writer = Idle /\ TopicThere(t) /\ topics[t].forum # g
    /\ Commit([topics EXCEPT ![t].forum = g, ![t].changed = now])
    /\ ThenDelete({g}, Idle, {f \in {topics[t].forum} : Unnoticed(f)})

ChangeTopics ==
    \/ DeletePages \/ InsertPost \/ CommitPost
    \/ \E t \in ListTopics :
         \/ Reply(t) \/ Stick(t) \/ Hide(t) \/ Delete(t)
         \/ \E f \in ListForums : NewTopic(t, f) \/ MoveTopic(t, f)

-----------------------------------------------------------------------------
(* Readers                                                                  *)

\* forum(): the page is not cached, so it is asked for, if there is one,
AskPage(f) ==
    /\ reader = Idle /\ stored[f] = NoEntry
    /\ ~Refused(Cardinality(Of(f)), 0, PerPage, ListPage)
    /\ reader' = [forum |-> f, ids |-> OnPage(ListPage, Of(f)), total |-> Cardinality(Of(f))]
    /\ UNCHANGED <<now, writes, topics, stored, latest, writer, fresh>>
\* and stored.
StorePage ==
    /\ reader # Idle
    /\ stored' = [stored EXCEPT ![reader.forum] =
                     [ids |-> reader.ids, total |-> reader.total, at |-> now]]
    /\ reader' = Idle
    /\ UNCHANGED <<now, writes, topics, latest, writer, fresh>>

\* Forum.get_latest_topics
StoreLatest(f) ==
    LET visible == {t \in Of(f) : ~topics[t].hidden} IN
    /\ latest[f] # NoEntry => latest[f].ids = {}
    /\ latest' = [latest EXCEPT ![f] =
                      [ids |-> {t \in visible : Rank(t, visible) < Newest}, at |-> now]]
    /\ UNCHANGED <<now, writes, topics, stored, writer, reader, fresh>>

ListsNext == Tick \/ ChangeTopics \/ StorePage \/ \E f \in ListForums : AskPage(f) \/ StoreLatest(f)
ListsSpec == ListsInit /\ [][ListsNext]_listsVars

-----------------------------------------------------------------------------
PagesTypeOK ==
    /\ now \in Nat /\ writes \in Nat
    /\ topics \in [ListTopics -> TopicRow \union {NoEntry, GoneTopic}]
    /\ stored \in [ListForums -> PageEntry \union {NoEntry}]
    /\ latest \in [ListForums -> LatestIds \union {NoEntry}]
    /\ \/ writer = Idle
       \/ writer \in [at : {"post", "commit"}, topic : ListTopics]
       \/ /\ writer.at = "delete" /\ writer.forums \subseteq ListForums
          /\ writer.next = Idle \/ writer.next \in [at : {"post"}, topic : ListTopics]
    /\ \/ reader = Idle
       \/ reader \in [forum : ListForums, ids : SUBSET ListTopics, total : Nat]
    /\ fresh \subseteq ListForums

\* What forum() shows of a cached page: the topics that are still there.
ShownPage(f) == stored[f].ids \intersect Of(f)
\* What the feed shows: of the cached ids, the rows that still exist.
ShownLatest(f) == {t \in latest[f].ids : TopicThere(t)}

DeletingPage(f) == writer # Idle /\ writer.at = "delete" /\ f \in writer.forums

\* A cached page of a forum shows the topics that belong on it, so that with the pages
\* before and behind it every topic is shown once, and counts them all, unless a change was
\* committed while the page was being read, was committed after its page had been deleted,
\* or took a topic away.
CachedPageTrue ==
    \A f \in fresh : stored[f] # NoEntry /\ ~DeletingPage(f) =>
      /\ ShownPage(f) = OnPage(ListPage, Of(f))
      /\ stored[f].total = Cardinality(Of(f))

\* A feed shows a topic that was hidden, or moved to a forum with other readers, only
\* if that happened since its list was stored.
FeedWasVisible ==
    \A f \in ListForums : latest[f] # NoEntry =>
      \A t \in ShownLatest(f) :
        topics[t].hidden \/ topics[t].forum # f => topics[t].changed >= latest[f].at

TopicPagesTrue == CachedPageTrue /\ FeedWasVisible

-----------------------------------------------------------------------------
(* All pages of a list, the bars under it, and the links to a page.         *)

\* url_for_post
PageOfPosition(position, per) == (IF position > 0 THEN position ELSE 0) \div per + 1

\* A bar, of the pages that are shown, is a sequence of page numbers, with 0 for a
\* comma and -1 for the ellipsis.
Comma == 0
Ellipsis == -1
BarOf(pages, shown) ==
    LET bar[n \in 0 .. pages] ==
            IF n = 0 THEN <<>>
            ELSE LET left == bar[n - 1]
                     broken == left # <<>> /\ left[Len(left)] = Ellipsis IN
                 IF n \in shown
                 THEN (IF left = <<>> \/ broken THEN left ELSE Append(left, Comma)) \o <<n>>
                 ELSE IF broken THEN left ELSE Append(left, Ellipsis)
    IN bar[pages]

Near(page, n, half) == page - n < half /\ n - page < half
\* Pagination.generate
HalfThreshold(threshold) == IF (threshold + 1) \div 2 > 2 THEN (threshold + 1) \div 2 ELSE 2
Generate(pages, page, threshold) ==
    LET shown == {n \in 1 .. pages : \/ n <= threshold \/ n > pages - threshold
                                     \/ Near(page, n, HalfThreshold(threshold))}
    IN [bar |-> BarOf(pages, shown),
        next |-> IF page < pages THEN {page + 1} ELSE {},
        prev |-> IF page > 1 THEN {page - 1} ELSE {}]

\* Topic.get_pagination
TopicBar(pages, threshold) ==
    LET shown == {n \in 1 .. pages : n <= threshold \/ n > pages - threshold}
    IN IF pages = 1 THEN <<>> ELSE BarOf(pages, shown)

\* topiclist: no more than MaxPagesList pages are counted.
Capped(length) == IF length < PageSize * MaxPagesList THEN length ELSE PageSize * MaxPagesList

-----------------------------------------------------------------------------
PagingInit ==
    /\ asked \in [length : 0 .. MaxTotal, page : 0 .. MaxTotal \div PageSize + 2,
                  threshold : Thresholds, counted : {"list", "given", "capped"}]
    /\ paged = <<>>

CountedTotal == IF asked.counted = "capped" THEN Capped(asked.length)
                ELSE IF asked.counted = "given" THEN asked.length ELSE 0

Page ==
    LET pages == Pages(asked.length, CountedTotal, PageSize) IN
    /\ paged = <<>>
    /\ paged' = <<IF Refused(asked.length, CountedTotal, PageSize, asked.page)
                  THEN [found |-> FALSE, pages |-> pages]
                  ELSE [found |-> TRUE, pages |-> pages,
                        objects |-> Objects(asked.length, PageSize, asked.page),
                        links |-> Generate(pages, asked.page, asked.threshold),
                        short |-> TopicBar(pages, asked.threshold)]>>
    /\ UNCHANGED asked

PagingNext == Page
PagingSpec == PagingInit /\ [][PagingNext]_pagingVars

-----------------------------------------------------------------------------
Made == paged # <<>>
Shows == paged[1].objects

\* Every row that is counted is on exactly one page that is not refused, the page a
\* link to its position leads to; no page but the first is empty, and the list that is
\* cut off offers no page that it refuses.
PagesPartition ==
    Made =>
      /\ paged[1].found <=> asked.page <= paged[1].pages
      /\ paged[1].pages = IF asked.length = 0 THEN 1
                          ELSE PageOfPosition((IF CountedTotal > 0 THEN CountedTotal
                                               ELSE asked.length) - 1, PageSize)
      /\ asked.counted = "capped" => paged[1].pages <= MaxPagesList
      /\ paged[1].found /\ asked.page > 0 =>
           /\ Shows = {row \in 0 .. asked.length - 1 : PageOfPosition(row, PageSize) = asked.page}
           /\ Shows = {} => asked.length = 0

\* A bar begins with the first page and ends with the last, names the pages in order
\* and has an ellipsis exactly where pages are left out; the one under a list names the
\* page shown and those next to it, so every page can be reached from every other.
Numbered(bar) == SelectSeq(bar, LAMBDA entry : entry > 0)
Honest(bar, pages) ==
    LET numbers == Numbered(bar) IN
    /\ numbers[1] = 1 /\ numbers[Len(numbers)] = pages
    /\ Len(bar) = 2 * Len(numbers) - 1
    /\ \A i \in 1 .. Len(numbers) - 1 :
         /\ numbers[i] < numbers[i + 1]
         /\ bar[2 * i] = IF numbers[i + 1] = numbers[i] + 1 THEN Comma ELSE Ellipsis
BarsHonest ==
    Made /\ paged[1].found =>
      LET named == {paged[1].links.bar[i] : i \in DOMAIN paged[1].links.bar}
          pages == paged[1].pages IN
      /\ Honest(paged[1].links.bar, pages)
      /\ {n \in asked.page - 1 .. asked.page + 1 : n \in 1 .. pages} \subseteq named
      /\ paged[1].links.next \union paged[1].links.prev \subseteq named
      /\ pages > 1 => Honest(paged[1].short, pages)

PagingTrue == PagesPartition /\ BarsHonest
=============================================================================
