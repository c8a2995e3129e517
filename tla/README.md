# TLA+ models of the Inyoka portal

Inyoka is the web portal behind a German Ubuntu community: forum, wiki, news
(ikhaya), planet, pastebin, private messages and a full-text search, in Python
on Django 1.2.4 and SQLAlchemy 0.6.5 over one MySQL database.  The modules here
model the parts of `src/inyoka` whose correctness is spread over several
requests, transactions or processes, and the text algorithms that are hard to
test; TLC checks them on small instances, and TLAPS proves what matters most for
every instance.

Contents: [the system](#the-system), [the modules](#the-modules) (how each one
corresponds to the code), [the runs](#the-runs), [the proofs](#the-proofs),
[where code and comments disagree](#disagreements-between-code-and-comments),
[what is left out](#what-is-left-out) and [the plan](#the-plan).

## The system

Several gunicorn processes serve requests; cron jobs and a Jabber bot run
beside them.  They share nothing but the database, the cache (memcached) and the
search index on disk.  Two things shape everything below:

* **Two object-relational mappers, two connections, two transactions.**  The
  forum's tables are SQLAlchemy's (`forum/models.py`): the session commits where
  the view says so.  Everything else is Django's: `TransactionMiddleware`
  (`default_settings.py:156`) makes a request one transaction.  A forum post and
  its row in the search queue are therefore committed separately.
* **Caches are changed at once.**  `cache.set` and `cache.delete` take effect
  when they are called, whatever becomes of the transaction around them.

| component | state | hard behaviour | what makes it correct | modules |
| --- | --- | --- | --- | --- |
| forum counters and positions (`forum/models.py`, `views.py`) | rows of forums, topics, posts; denormalised counters, first and last posts, positions | counters kept by hand in mapper hooks and bulk updates; up to five commits in a request; outdated forum rows | counters and positions equal what a query would compute; last posts are never behind | Forum |
| posts, polls, attachments | their rows, rendered texts, revisions, files | check-then-act, files changed before rows commit | no text is lost, a vote counts once, a row has its file | PostEdits, Polls, Attachments |
| forum read status | a pickled table in the user's row | recursion over the tree, truncation, moves | what is read stays read, nothing unread is hidden | ReadStatus |
| topic lists and pages | two caches of ids; slices | caches dropped before or after the commit | each topic once, none left out | TopicPages |
| forum tree | rows under two caches, by id and by slug | edits that rename | a forum is found by its id and by its slug | ForumTree |
| subscriptions | `notified` flags | visits, replies and mails race | told of every reply, once a visit | Subscriptions, Ikhaya |
| forum privileges | rows of users and groups, a cached copy | bit arithmetic | what is granted and not denied | Privileges |
| wiki pages and revisions | pages, revisions, cached revision, cached list | forms that stay open for hours; caches; names that move | no edit is lost unseen; caches tell what is committed | WikiPage, WikiSite |
| wiki lists, recent changes | metadata, compiled texts, cached tables | derived rows, other pages' texts | lists name the pages that are meant | WikiLists |
| wiki merge and differences (`utils/diff3.py`) | positions in texts | unbounded search loop, hand-computed positions | ends, keeps every added line, is the three-way merge | Diff3, Differences |
| wiki rules | pages that hold rules, cached | parsed text, order of rules | access is what the rules say | PageAccess, WikiSite |
| wiki parser, BBCode, templates | stacks of states; trees | lexer and parser run side by side; transformers run one over the other | no token is without a handler, no text is lost | Markup, Documents, Rendering, BBCode, Templates |
| search queue and search | queue rows, the open index, the index on disk | ids in another order than commits; the job dies at any point | what changed is indexed in the end | SearchQueue, Search |
| users, permissions, sessions | user rows (cached 300 s and saved as a whole), cached permissions, cookies | lost updates of whole rows, links that outlive changes | the account is what its last request meant | Accounts, Sessions |
| private messages | entries with folders | requests of one user overlap | only what was in the trash is purged | PrivateMessages |
| reports, suggestions, events | rows and cached numbers | claimed and done by several | the team sees what waits | OpenTasks |
| planet (`scripts/planet_sync.py`) | blogs, entries | read at the start, saved at the end of a session | what people set is not put back | PlanetSync |
| ikhaya | articles, comments, cached articles | cached articles, a counter kept by hand | counters, caches, mails | Ikhaya |
| storage and caches | key-value rows under two caches | a fill of the cache races a change | a register of past values | Storage, Register |
| Jabber bot | a queue in memory | connection and restart | accepted messages arrive | JabberBot |
| dates (`utils/dates.py`) | none | time zones, boundaries | the day and hour that is meant | Dates |
| pastebin, feeds, captcha, conversion scripts | | single rows, text | not modelled | |

How they interact: the mapper hooks of forum posts and the `save()` methods of
articles, wiki pages and planet entries put rows into the search queue; the cron
job works them off through an adapter per component.  `viewtopic` writes the
read status and resets the `notified` flag of a subscription.  The forum updates
users' post counters with SQL of its own (`atomic_add`) while Django saves whole
user rows.  `wiki/actions.py` merges with `utils/diff3.py`.  Everything that
notifies users hands messages to the Jabber bot over XML-RPC.  Each hazard this
makes for is listed in `PROJECT.json`, at its line, with the properties that
would catch it going wrong.

## The modules

The header of each module says what it models, its constants name every bound,
and `PROJECT.json` names the lines each definition stands for.  Variables called
*history* remember what happened for the sake of a property; no action is
enabled or disabled by one.

### Forum (with ForumProofs and NaturalLemmas)

Every request that inserts, deletes, moves or splits posts and topics.  One
action is one **database transaction**.  A request that commits several times
leaves the rest of its work in `req`, and `Crash` may drop it between any two
commits.

| code | model |
| --- | --- |
| `forum_forum.post_count, topic_count, last_post_id` | `forum` |
| `forum_topic.forum_id, post_count, first_post_id, last_post_id` | `topic` (`forum = Null`: no row) |
| `forum_post.topic_id, position, author_id` | `post` (`topic = 0`: no row) |
| `portal_user.post_count` | `userPosts` |
| `edit` with a new topic | `CreateTopic`, then `CreatePost` (two commits, `views.py:603` and `615`) |
| `edit` with a reply | `Reply` |
| `delete_post`, `PostMapperExtension.before_delete`, `deregister` | `DeletePost` |
| `delete_topic`, `TopicMapperExtension.before_delete` | `DeleteTopic` |
| `Topic.move` and `movetopic` | `MoveOut`, `MoveSet`, `MoveIn`, `MoveUsers`, `MoveLast` (five commits) |
| `splittopic` and `Post.split` | `SplitNew`, `SplitCount`, `SplitPosts` into a new topic, `SplitInto` an existing one |

Notes on fidelity:

* The tables' foreign keys are created by migrations with InnoDB's default
  (`inyoka/__init__.py:28` demands InnoDB): a row that a `last_post_id` or
  `first_post_id` refers to cannot be deleted.  `NoReferenceLeft` is that check;
  it aborts the transaction.  A topic's posts go with it (`passive_deletes`,
  `models.py:678`).
* `deregister` compares the post with the forum's last post on rows that may come
  from a cache of 300 seconds; a comparison that may go either way is a choice.
  A split into another forum computes on such rows and *writes the result back*
  (`models.py:1046-1061`); `OldRows` bounds the outdated rows a run considers.
* `Query.first()` without an order (`models.py:1055`) may return any row.
* `leak` is history: by how much each counter differs from the truth, for reasons
  that are understood one by one (a request that died, a category left out, a
  new topic counted twice by a split).  No action reads it.
* Splitting a topic into itself is not refused by the form, but no moderator
  means it; it is excluded.  Requests are served one after the other.

### PostEdits, Polls, Attachments, Subscriptions (with TopicProofs)

What hangs on one topic.  A request reads its rows in one step and commits in
another, so that any two overlap.

* `PostEdits`: `BeginEdit` is the read (by `Edit`, `RestoreRevision` or
  `ViewPost`, which renders a post that has no rendering), `CommitEdit` writes
  the columns that changed.  Restoring the revision that is shown already only
  deletes it (`forum/models.py:881`): `dropped` remembers those texts.
* `Polls`: the form that adds and deletes polls and the vote, which is counted
  after it was checked that none was given (`forum/views.py:261`).  A vote may name
  ids that are no options of the poll (`NoOption`): its row is written, no counter
  is increased, and `blank` counts these rows.
* `Attachments`: rows change at commits, files at once.  `CopyFile` and
  `RemoveTemp` are the two halves of the move to the final place, row by row;
  `Clean` is the job that removes temporary files after a day; `Fail` may end a
  request anywhere.
* `Subscriptions`: these views run in autocommit, so each statement is a step:
  a reply is written, its subscribers are read, each is mailed and his row saved;
  a visit resets the flag, by a save that inserts a deleted row again.

### ReadStatus (with ReadStatusProofs)

`data` is `ReadStatus.data`, `ForumRead` and `TopicRead` are its `__call__`,
`MarkForum` and `MarkTopic` its `mark`.  The recursion of `mark` down to the
children and up to the parents is written as the set of forums it reaches
(`UnreadBelow`, `CompletedAbove`): a call stops at a forum that is read already.
That `row[1].add` changes a stored row in place even when it is not stored again
is kept (`inPlace`).  `View`, `MarkRead` are the requests of the reader; `Write`
and `Move` what others do meanwhile, with the effect on the last posts that
Forum gives them.  `Seen` and `FirstUnread` are `first_unread_post`.  A tree in
which a forum is below its own child makes `Forum.parents` endless; the form
refuses none, and such trees are excluded (`Trees`).

### TopicPages, ForumTree (with TopicProofs), Privileges

`TopicPages` has one of the cached pages of each forum (`ListPage`, any of the first
four, each of which has a key of its own) and the cached newest topics, with the
writer that drops the pages before or after its commit and the reader that fills
one between; and the arithmetic of pages (`utils/pagination.py`): every
total, page and size up to a bound.  It leaves out the deletion of single posts,
which moves a topic down.  `ForumTree` has the rows, the map of ids to slugs and
the cached forums (`ForumQuery`); a change takes two steps, the flush with its
hooks and the commit.  `Privileges` joins the rows of a user and his groups as
`join_flags` and `_get_privileges` do, with sets of bits for masks and numbers
for their differences, and has the cached copy of the anonymous user.

### SearchQueue (with SearchQueueProofs) and Search

The requests are `writers`: each has taken an id for its queue row (`Queue`) or
will take one after the post is committed (`QueueLater`, the rows of a split),
and commits post and row separately (`CommitPost`, `CommitRow`) or both at once
for documents of Django's.  `RequestDies` may come anywhere.  The cron job is the
generator `select_blocks` and the loop of `update()` around it: `Start` (the
count), `Fetch` (a block), `Index` (one document), `Flush` (every 100th),
`Remove` (the end of the block), `Finish`; `RunDies` anywhere.  What a killed
process had in memory may or may not have reached the disk.

`Search` is the other end: the form, the query against an index that lags behind
the tables, the documents fetched for it, and the retry when the index was
written meanwhile, four times and then no answer.  The hits of a query by date come
in the order of the dates that were indexed (`dated`), their rows in the order of the
dates they have by now (`date`), and the code zips the two by position
(`utils/search.py:104`): after `Edit`, until the next `Flush`, the entries of a
component may show each other's documents (`AnyMoved`), as they may when a row is
gone (`AnyGone`).

### WikiPage (with PortalProofs)

One page.  A request is one **Django transaction**: `Begin` takes the snapshot,
the handler runs in one step on it, changing caches immediately, and `Commit`
writes the revision, or `Abort` does not.  `form` is the edit form open in each
user's browser: the hidden fields `rev` and `edit_time` and the text.  `Post` is
the POST branch of `do_edit` from the choice of the base and of the latest revision
on: the comparison of dates, the merge (shown again, not saved), "nothing changed",
creation or edit, and the buttons for a preview and to cancel.  Left out of it are
privileges, attachments (`WikiSite`), templates and the checks of the form but for an
empty text.  A preview takes the time of the newest revision into the form
(`actions.py:409`, 496) but the user's own text (422), not the merged one, so that the
next save goes over what another user has written meanwhile; a form for an old
revision (`?rev=`, 342) is as young as the moment it is opened.  `shown` collects what
a form has shown or, in these two cases, passed by, and that is all that
`NoUnseenLoss` excuses.  A text is the set of users whose contribution it
holds: all that a property asks is whose work is in it.  On such sets a merge keeps
what either side has added, which Diff3's `AddedLinesKept` proves of every merge,
and of what all three have any part: `Merge` is the set of these results, since the
code can lose lines that nobody has touched (`merge_positions`).  Dates are whole
seconds (MySQL, and `strftime('%s')` in the form).

`Overlap` says whether two requests may overlap, `SameSecond` whether two things
may happen to the page in one second: with both off, what remains is the hazard
the code was written for, forms that stay open while others edit, or are previewed.

### WikiSite (with StorageProofs), WikiLists, PageAccess

`WikiSite` has several pages and attachments under their names: created, edited,
renamed with what is attached to them and a redirect left behind, deleted,
restored, pruned; the cached page, list and rules.  `WikiLists` has the metadata
rows, the compiled texts and every list that a macro makes of them, and the table
of recent changes with its cache; a template that takes itself recurses without
end in the code and is excluded.  `PageAccess` parses lines of rules and decides
by them as `wiki/acl.py` does.

### Markup, Documents, Rendering, BBCode, Templates

`Markup` is the lexer's stack of states next to the parser's stack of calls; any
rule of a state may match.  `Documents` builds every tree the grammar allows up
to a size and runs the transformers over it.  `Rendering` writes it as HTML,
docbook and stored instructions.  `BBCode` is the parser of the old forum's
texts.  `Templates` is the template language, its blocks and its expressions.
All are checked against what the constructs mean, stated independently
(`DocumentsWhole`, which has the texts of the old forum too, and `TemplatesMean`).

### Diff3 (with StorageProofs), Differences, Dates

`Diff3` is `stream_merge` as a machine of one step per iteration: `KeepLine` (all
three agree), `FindMatches`, then `TakeNew`, `TakeOther` or `FindConflict`;
`tripple_match` is the loop `TripleNew`, `TripleOther`, `TripleBoth`; `Finish` is
what follows the loop.  `Match` and `FindMatch` are `match` and `find_match` as
definitions instead of loops, with `mincount` 3 as in the code.  Positions count
from 1.  `Merges` are the texts to be merged, any three.  How many old lines the
other text replaces is counted as in the code, from the position in *other*
(`OtherChangedLines`, `diff3.py:120`), while the old text goes on from its own;
`shifted` is history and remembers a step at which the two differed.  `Differences` draws a unified difference as `do_diff` does.  `Dates`
abstracts what is shown to the day and the hour it names.

### Ikhaya, PlanetSync, OpenTasks (with IkhayaProofs)

A request that saves an article takes two steps: it runs on the row it read and
empties the cache, and it commits later; all others are one.  `PlanetSync` is the
cron job's session, outside managed transactions, beside the forms of the
administration.  The versions of an entry are numbered, and each has whatever date
its feed gives it (`scripts/planet_sync.py:116-131`): `Entry.save` queues an entry for
the index by that date (`planet/models.py:110`), so that a change with the date of the
publication, or an old one, is stored and never queued.  `late` collects these
versions, and those that are published when the running session has already fetched
the feed.  `OpenTasks` are reports, suggestions and events with the cached
numbers in everybody's header; a report commits before it deletes its key, all
others after.

### Accounts, PrivateMessages, Sessions (with PortalProofs)

`Accounts`: `User.save` writes every column of a row that may come from the cache
(300 s), and inserts it again where `clean_users` has deleted it.  A request sends its
mails, saves and empties the cache in one step and commits in another.  `meant` is
history: what the requests that did not overlap meant to leave.  `left` is history too:
whether the owner has deactivated the account, and whether a password was set since.
`SetNewPassword` asks for no key: the view compares it when the form is opened, but on
POST the lookup of the form (`portal/forms.py:227`) ends in the fallback of
`UserManager.get` that drops it (`portal/user.py:304`), so that the form is good for
any key and for ever, and for a deactivated account.  What remains, and
`AccountsAsMeant` says, is that such an account has no address and stays deleted.  The
second half of the module has the permissions of users and
groups with their cached union.  `PrivateMessages` has the entries that belong to
each person involved.  `Sessions` has the cookie that travels with each request
and its answer, and the table of who is online, which users who hide their profile
are not in (`utils/sessions.py:37`).

### Storage and Register (with StorageProofs), JabberBot

`Storage` is `utils/storage.py` over `RequestCache`: the table, the shared cache,
the dictionary of each request; one action per statement another process can
see.  `Register` is what that promises: a request gets a value that has been
stored at some time and keeps getting it.  `JabberBot` is one process that
handles a call, then empties its queue.

### MCTopic, MCSeen, MCText, MCServices, MCNews, MCPortal

Each puts together components for one run.  Those whose properties are proved as
well are EXTENDed, so that a run and a theorem speak of the same definition:
Forum, PostEdits, Attachments, Subscriptions and ForumTree in MCTopic; ReadStatus,
Polls and TopicPages in MCSeen; Storage and Diff3 in MCText; SearchQueue in
MCServices; Ikhaya, PlanetSync, OpenTasks and WikiSite in MCNews; WikiPage,
PrivateMessages, Sessions and Accounts in MCPortal.  The others are INSTANCEd with
the constants given there.  The parts share no variables, as they share nothing in
the code that these models have: an initial state picks the `part` that moves.
(`ForumTree`, `WikiPage` and `Privileges` are also checked on their own, in runs
that expect a violation.)

## The runs

| run | expected | what it shows |
| --- | --- | --- |
| `topic` (MCTopic) | pass | Posting, deleting, moving and splitting with crashes between commits and outdated forum rows: `TypeOK`, `TopicPostCount`, `PositionsInOrder`, `LastPostsNotBehind`, `CountersAddUp`. What hangs on a topic while two requests overlap: `PostsKept`, `FilesExist`, `RepliesToldOnce`. Forums under their two caches: `ForumsFound` |
| `seen` (MCSeen) | pass | `ForumsAgreeWithTopics`, `FirstUnreadIsNext`, `StaysRead` while topics are marked, moved and written to and rows are truncated; `TopicPagesTrue` for cached pages and the feed; `PollsAreTrue` while votes and forms overlap |
| `text` (MCText) | pass | `CachedIsStored` and the refinement `StoresOneValue`; `AddedLinesKept` and `MergeKeepsEdits` (a clean merge is the three-way one, and every merge ends); `ParserFollowsLexer`; `DocumentsWhole` (documents, renderings, texts of the old forum); `TemplatesMean`; `ShownTrue` (differences, dates, pages of a list) |
| `services` (MCServices) | pass | `QueueIsSafe`, `ChangesIndexed` (sooner or later), `SearchAnswers`, `AcceptedArrives`, `RightsFollowRules` |
| `news` (MCNews) | pass | `ArticlesKept`, `SubscribersTold`, `CachedIsCurrent`, `PlanetFollowsPeople`, `WikiShownTrue`, `SitesKept`, `TeamSeesWhatWaits` |
| `portal` (MCPortal) | pass | `AccountsAsMeant`, `CopiesCurrent`, `MessagesTrue`, `SessionsTrue`; `NoUnseenLoss` and `PagesCachedRight` for forms that stay open |
| `forum_last_post`, `forum_slug`, `wiki_create`, `wiki_overlap`, `privilege_bits`, `merge_positions` | violation | one [disagreement](#disagreements-between-code-and-comments) each |

`PROJECT.json` has a mutant for every property of a passing run: a plausible
mistake in one definition of the model that makes TLC find the property violated.

Why the properties are stated as they are.  Many of the counters, caches and
flags of this code *are* wrong at times.  A property then says when, and nothing
more: `CountersAddUp` that counters are off by exactly what `leak` has recorded,
`SubscribersTold` that only requests that raced miss somebody, `FilesExist` that
only a request that ended halfway or the clean up leaves a row without a file.
Any *other* way to go wrong is an error of the run.  Where histories excuse
something, the mutants show that they do not excuse everything.

Bounds.  Two topics and three posts let a post be moved by a split into a topic
with and without posts, be the first, the last and neither, and be deleted before
and after; four forums have a category, a nested forum and a forum that does not
count posts; two moderations allow a move after a split and a split after a move;
`OldRows` has one outdated row, which is behind in its count and in its last post.
`LimitUnread` 2 with three topics truncates a row (the setting is 100), and the
fourth post makes a truncated topic unread again.  `MaxMoves` is 1 in `seen`; two
moves were needed to find that the history of the first unread post has to be
reset when a forum is marked as a whole, and the theorem holds for any number.
`ThirdTopicOrChat` leaves out states in which a third topic exists and one is in
the second forum.  Blocks and flushes of 2 with three queue rows give two blocks
that overlap by the row that stays, and a row that is overtaken; one crash hits
each step.  Four revisions by two users suffice for an edit, a form left open over
it, a deletion and its restoring; nobody previews an empty text, and MCPortal
has a form that is not behind the page previewed only with something new in it
(`ShowsNews`), which the theorem does not need.  Once two requests
on an account have overlapped no other starts until they and the copies made
meanwhile are gone, except on a deleted row (`MayStart`).  Texts of up to six lines with a match of three
let a match be found before, behind and between the edits; `LongText` has eight,
so that a match is found behind a shifted one as well.  `ListPage` is 2 in `seen`,
for a page that other pages push topics to, with five writes, enough to fill two
pages and to take a topic from under a reader; two ballots and two votes are a vote
that overlaps another of its voter or the form.  The conditions of MCNews
(one comment, one change of a text, one edited entry, ...) take bounds that
two components share apart, so that each has what it needs and no more.  For the others two
requests at a time (`MaxTx`, `MaxEdits`, `MaxUploads`, ...) give every overlap of
a pair, and two or three rows one that is concerned and one that is not.

Fairness.  `SearchQueue` assumes `WF(Commit)`, requests end, and `WF(Job)`, the
job runs on and cron starts it again (`search_update.py:34`: "You should call this
function regularly"); nothing is assumed of new requests or crashes, and crashes
are bounded, as otherwise the job might die for ever.  `JabberBot` assumes
`WF(Bot)`: its process runs, and is started again by its own loop.  `TextSpec` of
MCText assumes `WF` of the step of the merge, which is one sequential call.
No other liveness is checked.

Every run says `CHECK_DEADLOCK FALSE`: the bounds on rows, revisions, votes and
seconds are used up, and a merge, a parse or a rendering ends.

## The proofs

Each theorem is of the form `Assumption => (Spec => []Property)`, or has an action
property, for all values of the constants that the assumption allows: no bound is
assumed to be small.  Nearly every component that keeps state has one.  The
assumptions are named in the modules (`TreeAssumption`, `PollsAssumption`,
`SiteAssumption`, ...) and say that what stands for "no row" is none of the rows,
that trees of forums have no cycle, and the like; the MC module of the run that has
the component ASSUMEs them, so TLC evaluates them.  Each proof has an inductive
invariant, one lemma `...Keeps` per action, and one that puts them together.

**ForumProofs**: `TypesHold`, `TopicPostCountHolds`, `PositionsHold`,
`LastPostsHold`, `CountersHold`, for every forum tree, set of users and bound, with
splits inside and across forums and on outdated rows.

Neither counts nor positions are inductive alone.  `IInv` adds `RowsOK` (a post
that exists belongs to a topic that exists; ids not given out yet have no rows)
and `ReqOK` (a request between two commits still names rows that exist, and its
set of posts is what the form has checked).  The counts need the positions' set of
posts to be finite (`IdsFinite`) and the positions need the counts: a new post
gets `max(position) + 1`, which is the number of posts (`NextPositionIs`) only
because positions are dense.  The core is about ranks: positions are
`Rank(p, PostsOf(t))`, and inserting (`RankNew`), deleting (`RankRemove`) and
splitting (`RankSplit`) change ranks as the code's `UPDATE` statements change
positions.  `LastPostsHold` adds `PointersOK` of each topic.  `CountersHold` adds
`MoveOK` (what a move has left to do is about the topic it moves) and `Fits`: what
the rows would be counted as, the counter, the `leak` and what the request has
still to write (`MissingPosts`, `MissingTopics`, `MissingUser`) add up, at every
commit of the five.  `NaturalLemmas` proves that nonempty sets of naturals have
least, and bounded ones greatest, elements, for the `CHOOSE` of `Newest` and
`NextPosition`.

**TopicProofs**: `FilesExistHolds`, `RepliesToldHolds`, `PostsKeptHolds`,
`ForumsFoundHolds`, `PollsAreTrueHolds` and `TopicPagesHolds`, for any number of
uploads, readers, replies, views, texts, polls, forums, topics and requests.  `FilesInv`
says why two requests do not take each other's files: a deletion that knows a
place other than the temporary one met a row that had left the form (`Deleting`),
and the copies of a sent form stay until its rows name them (`Sending`).
`MailsInv` has `FlagTrue` (the flag is set for those who were mailed since their
last visit, and unless something raced for all of them) and `WaitOnce` (nobody
waits for the mails of two replies, nor for one he had).  `EditsInv` has `Knows`:
a request that was prepared for a text that has since been replaced still writes
revisions that lose nothing, because the first commit sets `revised` and put that
text among the revisions.
`TreeInv` follows a slug through rows (`RowsMeant`: one forum each), copies under the
key of a slug (`CacheMeant`), edits between flush and commit (`EditsMeant`: the slugs
they take are free) and the map of ids (`MapMeant`).  `PollsInv` says that a vote
which overlapped no other of its voter is his first (`BallotsRight`), that the votes
of a poll are as many as the pairs of an option and one of its votes (`Counts`, a
set, which needs no sum) and add up, with the `blank` rows, to those of its voters
(`VotersCounted`), and what the only form under way still
knows (`OneForm`).  `PagesInv` is about the race of the cached lists: unless a change
went past it, the page a reader has in hand is of the rows as they are (`ReadTrue`),
and so is the stored one until the writer deletes it (`StoredTrue`); the topic of a
change is there (`WriterRight`), and the feed knows topics that were (`FeedRight`).

**ReadStatusProofs**: `ForumsAgreeHolds`, `FirstUnreadHolds`, and the action
property `StaysReadHolds`, for every forum without cycles (`Trees`) and every
limit.  `ReadInv` is `PostsKept`, `RowsKept` and `VisitsKept` (what a history
remembers is covered by a mark or a stored topic) and, until a topic is moved,
`LastFound`, `Cover` and `Complete`: a read forum hides nothing, and a forum all of
whose children are read is unread only because of a topic of its own.  The
recursion over the tree is by `Parents` as the least set closed under the parent
(`ParentsLeast`), whose chains are nested (`ChainsNested`) and meet (`WaysMeet`).

**SearchQueueProofs**: `QueueSafeHolds`: no committed change is forgotten between
the tables and the index on disk.  `QueueInv` says that a block is a prefix of the
rows (`BlockKept`), what the job has counted, seen and buffered, and that what was
removed is on disk (`FlushKept`).  The hypothesis `BlockIsFlushed`, that a block is
as long as the stretch between two flushes, is what the code has: both are 100
(`scripts/search_update.py`, `cur % 100`; `portal/models.py`, `block_size=100`).
Nothing in the code ties the two numbers together; with others the property fails.

**PortalProofs**: the action properties `NoUnseenLossHolds` and
`PagesCachedRightHolds` under `OneByOne`: no overlap, no two events in one second.
Both are needed: `wiki_overlap` refutes the first without one.  `PageInv` has the
revisions in the order of their dates (`DatesGrow`), the cache (`CacheKept`,
`ListDropped`), and what forms have shown or passed by (`FormsShow`, `SavedSeen`):
the newest revision that is not younger than the form, through merges, previews and
forms for old revisions.
`MessagesTrueHolds`: `MessagesInv` says that a request under way works on rows that
are still as it needs them (`RequestsKept`), that two requests on one entry have
crossed (`Apart`) and that a count which a request will change is not cached, or was
too early (`CountsEmptied`).  `SessionsTrueHolds`: every copy of a session, in the jar
or travelling with a request, has kept what was answered alone (`RequestKept`), and
the row of whoever came last and did not hide is there (`LastSeenKept`).  `CopiesCurrentHolds`: where
a form that nothing overlapped will change what a user's permissions are made of, his
copy is not cached (`Lasting`).
`AccountsAsMeantHolds`: whoever runs alone started from the row as it is
(`KnownKept`), so that saving every column writes what was meant, and nothing under
way, mailed or kept in a browser gives a deactivated account its status or its address
back, nor a password but the form for a new one (`LockedKept`).

**IkhayaProofs**: `ArticlesKeptHolds`, `SubscribersToldHolds`,
`CachedCurrentHolds`.  `NewsInv` relates each request under way to the rows:
one that nothing raced will write the count that its commit needs, whom it will
mark as notified it has mailed, and while it is under way the cache is empty or
excused.  `PlanetFollowsHolds`: what the job's session has read is what the tables
hold but for what people changed since (`RowsRead`, `ReadsTrue`), a fetched item is
that of the feed or a later version came late (`FetchedOnce`), and an item whose date
is not after the last session is late or stored and queued (`Due`), one of the running
session that or still to come (`SessionsFinish`).  `TeamSeesHolds`: a header under way has the number of what waits
while nobody is about to change it, and who is has deleted the key (`CountMeant`);
who changes the subscribers has read them as they are (`SubscribersMeant`); the
numbers in the slugs of events grow, and no two events or requests share one
(`AddressesMeant`).

**StorageProofs**: `CachedStoredHolds`, and `StorageIsRegister`: `Storage`
implements `Register`, step by step, through the refinement mapping of the module;
`CacheInv` is that everyone holds a row of the table.  `SitesKeptHolds`, an action
property: `SiteInv` has names that belong to one page each (`NamesUnique`), cached
pages that are of the row of that name or of an attachment that has left it behind
(`CopiesRight`), the cached list (`ListRight`) and the cached rules (`RulesRight`).
`AddedLinesKeptHolds`, for any three texts: `MergeInv` has the positions within
their texts and both counts of an added line (`KeptUpTo`).  The lemmas are about
counting: what is appended adds up (`CountAdds`), the lines between two positions
count the difference (`CountChanged`), and lines that equal old ones count nothing
(`CountEqual`), which is all that `match` has to give (`MatchIs`), so that it
does not matter from which position the code counts what was changed.

Not proved, and only model-checked: liveness (`ChangesIndexed`, `AcceptedArrives`,
the end of a merge) and everything about `ENABLED`, which TLAPS does not reach; what
recursive definitions compute, which is induction over data: the documents, texts
and templates of `DocumentsWhole`, `TemplatesMean` and `ParserFollowsLexer`, the
differences, dates and pages of `ShownTrue`, the lists and rules of pages in
`WikiShownTrue`, the masks of bits in `RightsFollowRules`, the retries of
`SearchAnswers`; and the three-way part of `MergeKeepsEdits`, which speaks of where
each line of a text without repetitions ends up.

## Disagreements between code and comments

Each is a run in which TLC refutes what a comment or docstring says; `PROJECT.json`
quotes the lines.

| run | what happens |
| --- | --- |
| `forum_last_post` | after a deletion, the last post of a forum can be a post of any topic |
| `forum_slug` | after the slug of a forum was edited, the map of slugs names the old one for a day, and the forum is not found by its id |
| `wiki_create` | of two users who create a page, the second overwrites the first |
| `wiki_overlap` | two overlapping saves overwrite each other without a merge |
| `privilege_bits` | read is granted, read and vote are denied: 2 - 6 = -4, which has the bit of vote and all higher ones |
| `merge_positions` | the merge counts the lines the other user has replaced from the position in his text instead of the old one: after he has removed a line further up, a later change of his is taken with one line too few, the texts are compared at places that do not belong together, and a line that all three have is lost, without a conflict |

The models contain further ones, which the properties of the passing runs take into
account.

* Forum: a request that dies between its commits leaves a topic without a post
  (`views.py:603`); deleting a topic leaves its category's topic counter as it was
  (`models.py:255`, recorded in `leak`); a split across forums may leave any post as
  the last post of the old forum (`models.py:1055`).
* Topics: restoring the revision that is shown deletes it (`models.py:881`); a
  move drops the cached list of one of two forums; the newest topics are shown
  from cached ids although hidden since; an upload over a deleted attachment stays
  deleted; `assign` takes any topic.
* Pages of lists: page 0 is not refused; old addresses divide by the wrong number.
* Planet: an entry whose feed dates a change before the last session is stored and
  not handed to the index, and a new date of a moved entry leaves the index behind.
* Search: a missing row, or one that has another date than when it was indexed,
  shifts the others of a page, the number of pages can be
  one too large, four modifications in a row give no answer, hidden topics are
  found; `remove` of the queue leaves the row with `last_id`
  (`portal/models.py:564`, `Below`).
* Wiki: an edit that another user made while a form was open is not merged but lost
  if the form is previewed before it is saved (`wiki/actions.py:409`, 422; the comment
  at 389 promises a merge), and so is what came after an old revision that is edited
  (`?rev=`); restoring a revision of a deleted page leaves it deleted in the cached page
  list (`wiki/models.py:1225`); a reader may cache an outdated revision between
  invalidation and commit (`wiki/models.py:1232`); after a conflict the merge goes
  on at lines that need not match (`diff3.py:202`), as it does after lines taken at a
  shifted position; rules stay in force after a
  page lost its header; links to deleted pages are not among the missing pages;
  two macros ask for different headers of a redirect; the key of the cached recent
  changes lacks the time zone and the size of a part; a filter by several keys
  takes pages that have any of them.
* Rules: `none, read` grants nothing, a page without a rule is open to everybody,
  the search ignores `@owner`.
* Ikhaya: the description of an event is cached for good; keys of the numbers in
  the header are deleted before the commit; a suggestion that was deleted can come
  back when it is assigned; `Article.save` deletes a key nobody reads.
* Accounts: the form for a new password takes any key, though it has a message for one
  that is no longer valid (`portal/forms.py:230`).
* Sessions: nearly every page writes the cookie, so overlapping requests take back
  each other's changes; its end is fixed when it is made; a visitor who logs in is
  counted twice for a while.
* Storage: `RequestCache.get_dict` never finds a key missing.
* Dates: relative dates count 24-hour days, one format shows the date in UTC with
  the local hour, a parser drops fields that are zero and adds the offset where it
  should take it off, an event without a time fails to be shown and one that ends
  at midnight loses its hour.
* Parser: at a conflict marker in a cell, open at the end of the row, the parser
  meets an end of a row that nobody handles (`ConflictInCells`); keys at the top of
  a document make `parse` return a pair; skipped levels
  put the table of contents out of order; docbook has footnotes twice, no titles
  and HTML in it for some nodes; the highlighting of differences cuts escaped
  characters.
* BBCode: fonts cannot be written as markup, an unclosed mark within code fails,
  text behind a nested list falls out, quotes in items lose their marks.
* Templates: an else after an elseif is shown as a word, numbers of two digits are
  errors, a sign in an operand's place fails, two of the operators and `as rounded`
  fail, as do a unary minus and `!=` of a value.

## What is left out

* Of the forum: slugs of topics and ubuntu versions; two requests at once that
  insert or move posts (the requests on what hangs on a topic do overlap);
  thumbnails; the positions of forums in lists.
* Of the read status: two requests of one user at once (the later saves the whole
  row, as in `Accounts`), deleted posts, hidden topics.
* Of the subscriptions: those of forums, members and wiki pages.
* Of the search: the first indexing of a missing index, which does not use the
  queue; the parsing of queries and the weights, which are Xapian's.
* Of the wiki: the notification of subscribers, regular expressions, attributes of
  tables, smilies, the highlighting of code, macros that only draw.
* Of the users: avatars; of ikhaya: categories, icons, the archive; of the planet:
  the parsing of feeds and the export; of the events: static pages; of the
  administration: files, styles, configuration.
* Pastebin is one insert and one delete.  Feeds, templates, captchas, URL tables,
  the scripts that convert or export: text without state.  (The converter cannot be
  imported any more.)
* Who may do what is modelled by itself (`Privileges`, `PageAccess`, `Accounts`);
  elsewhere a request is taken as permitted.

The `...TypeOK` of a module that no run names documents its variables; the proofs
state the types they need as part of their invariants.

## The plan

Every component that keeps state has its module, and nearly all of those have their
theorems.  What is left, in this order:

1. The insertion of two posts at once: the position of a new post is read before it
   is inserted (`forum/models.py:301`), which `Forum`, whose requests follow one
   another, cannot show.
2. The deletion of single posts in `TopicPages`, which moves a topic down the lists.
3. Theorems about the pages of a list (`PagesPartition`, arithmetic only), the rules
   of `PageAccess` and `Privileges` written without masks, and `SearchAnswers`.
4. `WikiLists` with the requests that change pages beside those that list them.
5. The three-way part of the merge: where a line of a text without repetitions goes.
