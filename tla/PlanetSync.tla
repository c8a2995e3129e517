----------------------------- MODULE PlanetSync -----------------------------
(***************************************************************************)
(* The planet: a cron job copies the entries of other people's feeds       *)
(* (scripts/planet_sync.py) while administrators edit the blogs            *)
(* (admin/views.py) and moderators hide entries (planet/views.py).         *)
(*                                                                         *)
(* The job runs outside of any managed transaction: every save commits,    *)
(* and the reads between two commits see the database as it was at the     *)
(* first of them.                                                          *)
(***************************************************************************)
EXTENDS Naturals, FiniteSets

CONSTANTS Blogs, Guids,
          BlogOf,       \* guid -> the blog whose feed has it
          LongGuids,    \* guids longer than the 200 characters of the column
          Null,
          MaxTime, MaxEdits, MaxVersions   \* bounds: the clock, edits of blogs, of entries

VARIABLES now,        \* in the unit the columns store: one second
          feed,       \* guid -> [version, updated, complete] as its author shows it, or Null
          blog,       \* blog -> [edit, active, last_sync]
          entry,      \* guid -> [version, updated, hidden], or Null
          queued,     \* guid -> the version whose indexing was last asked for, or Null
          todo,       \* the job: blogs, as read when it started, not yet done
          items,      \* the job: the feed it works on, or Null
          work,       \* the job: the entry it is about to save, or Null
          snap,       \* the job: what its reads see, or Null after a commit
          undone,     \* history: blogs and entries a save of this session put back
          meanwhile,  \* history: blogs and entries changed during this session
          late        \* history: <<guid, version>> that came late for the index

env == <<now, feed>>
tables == <<blog, entry, queued>>
job == <<todo, items, work, snap>>
planetVars == <<env, tables, job, undone, meanwhile, late>>

BlogRow == [edit : 0..MaxEdits, active : BOOLEAN, last_sync : 0..MaxTime]
EntryRow == [version : 1..MaxVersions, updated : 1..MaxTime, hidden : BOOLEAN]
FeedItem == [version : 1..MaxVersions, updated : 1..MaxTime, complete : BOOLEAN]
FeedItems == [blog : Blogs, row : BlogRow, left : SUBSET [guid : Guids, item : FeedItem]]
EntrySaved == [guid : Guids, version : 1..MaxVersions, updated : 1..MaxTime,
               old : EntryRow \union {Null}]

\* Every feed has its own guids, and Null is no row, no feed and no view of the rows.
PlanetAssumption ==
  /\ BlogOf \in [Guids -> Blogs] /\ LongGuids \subseteq Guids
  /\ MaxTime \in Nat \ {0} /\ MaxEdits \in Nat /\ MaxVersions \in Nat
  /\ Null \notin EntryRow /\ Null \notin FeedItem /\ Null \notin FeedItems
  /\ Null \notin EntrySaved /\ Null \notin [Guids -> EntryRow \union {Null}]

PlanetInit == /\ now = 1
              /\ feed = [g \in Guids |-> Null]
              /\ blog = [b \in Blogs |-> [edit |-> 0, active |-> TRUE, last_sync |-> 0]]
              /\ entry = [g \in Guids |-> Null]
              /\ queued = [g \in Guids |-> Null]
              /\ todo = {} /\ items = Null /\ work = Null /\ snap = Null
              /\ undone = {} /\ meanwhile = {} /\ late = {}

JobRuns == todo # {}

-----------------------------------------------------------------------------
(* The authors, the administrators and the moderators                       *)

Tick == /\ now < MaxTime /\ now' = now + 1
        /\ UNCHANGED <<feed, tables, job, undone, meanwhile, late>>

NextVersion(g) == IF feed[g] = Null THEN 1 ELSE feed[g].version + 1

\* The date is what the author's feed says: a change may keep that of the publication, and
\* a date may lie ahead.  A version is late when its date is not after the last session of
\* its blog, or when the running job has already fetched the feed.
Publish(g) ==
  /\ NextVersion(g) <= MaxVersions
  /\ \E updated \in 1..MaxTime, complete \in BOOLEAN :
       /\ feed' = [feed EXCEPT ![g] = [version |-> NextVersion(g), updated |-> updated,
                                      complete |-> complete]]
       /\ late' = IF \/ items # Null /\ items.blog = BlogOf[g]
                     \/ updated <= blog[BlogOf[g]].last_sync
                  THEN late \union {<<g, NextVersion(g)>>} ELSE late
  /\ UNCHANGED <<now, tables, job, undone, meanwhile>>

Changed(x) == meanwhile' = IF JobRuns THEN meanwhile \union {x} ELSE meanwhile

EditBlog(b) ==
  /\ blog[b].edit < MaxEdits
  /\ \E active \in BOOLEAN :
       blog' = [blog EXCEPT ![b].edit = @ + 1, ![b].active = active]
  /\ Changed(b)
  /\ undone' = undone \ {b}
  /\ UNCHANGED <<env, entry, queued, job, late>>

\* Entry.save asks for the indexing of an entry that is newer than the last
\* session of its blog.
Asked(row, g, version, updated) ==
  IF (row.last_sync = 0 \/ updated > row.last_sync) /\ row.active
  THEN [queued EXCEPT ![g] = version] ELSE queued

HideEntry(g) ==
  /\ entry[g] # Null
  /\ entry' = [entry EXCEPT ![g].hidden = ~@]
  /\ queued' = Asked(blog[BlogOf[g]], g, entry[g].version, entry[g].updated)
  /\ Changed(g)
  /\ undone' = undone \ {g}
  /\ UNCHANGED <<env, blog, job, late>>

-----------------------------------------------------------------------------
(* The job                                                                  *)

Start == /\ ~JobRuns
         /\ todo' = {[id |-> b, row |-> blog[b]] : b \in {c \in Blogs : blog[c].active}}
         /\ snap' = entry
         /\ meanwhile' = {} /\ undone' = {}
         /\ UNCHANGED <<env, tables, items, work, late>>

\* A feed that cannot be parsed is passed over, and its blog not saved.
Fetch(t) ==
  /\ items = Null
  /\ \/ /\ items' = [blog |-> t.id, row |-> t.row,
                     left |-> {[guid |-> g, item |-> feed[g]] :
                                 g \in {h \in Guids : BlogOf[h] = t.id /\ feed[h] # Null}}]
        /\ UNCHANGED todo
     \/ /\ todo' = todo \ {t}
        /\ UNCHANGED items
  /\ UNCHANGED <<env, tables, work, snap, undone, meanwhile, late>>

\* The row an update goes into.  A guid that is longer than its column is never
\* found again, because the rows have the truncated one.
OldEntry(g, rows) == IF g \in LongGuids THEN Null ELSE rows[g]

\* Entries without guid, title, text or date are not complete and skipped.
ReadEntry(i) ==
  /\ work = Null
  /\ snap' = IF snap = Null THEN entry ELSE snap
  /\ work' = IF i.item.complete
             THEN [guid |-> i.guid, version |-> i.item.version, updated |-> i.item.updated,
                   old |-> OldEntry(i.guid, snap')]
             ELSE Null
  /\ items' = [items EXCEPT !.left = @ \ {i}]
  /\ UNCHANGED <<env, tables, todo, undone, meanwhile, late>>

SyncedShown(w) == [version |-> w.version, updated |-> w.updated, hidden |-> FALSE]
\* The whole row is saved; hidden keeps the value it was read with.
Synced(w) == [version |-> w.version, updated |-> w.updated,
              hidden |-> IF w.old = Null THEN FALSE ELSE w.old.hidden]

SaveEntry ==
  LET g == work.guid  row == Synced(work) IN
  /\ work # Null
  /\ IF work.old = Null /\ entry[g] # Null
     THEN UNCHANGED <<entry, queued, snap, undone>>      \* guid is unique: the error is caught
     ELSE /\ entry' = [entry EXCEPT ![g] = row]
          /\ queued' = Asked(items.row, g, work.version, work.updated)
          /\ snap' = Null
          /\ undone' = IF entry[g] # Null /\ entry[g].hidden # row.hidden
                       THEN undone \union {g} ELSE undone
  /\ work' = Null
  /\ UNCHANGED <<env, blog, todo, items, meanwhile, late>>

\* The blog is saved as it was read when the job started.
SaveBlog ==
  LET b == items.blog IN
  /\ items # Null /\ items.left = {} /\ work = Null
  /\ blog' = [blog EXCEPT ![b] = [items.row EXCEPT !.last_sync = now]]
  /\ undone' = IF blog[b].edit # items.row.edit THEN undone \union {b} ELSE undone
  /\ todo' = {t \in todo : t.id # b}
  /\ items' = Null /\ snap' = Null
  /\ UNCHANGED <<env, entry, queued, work, meanwhile, late>>

\* The job is killed; cron starts it again.
Killed == /\ JobRuns
          /\ todo' = {} /\ items' = Null /\ work' = Null /\ snap' = Null
          /\ UNCHANGED <<env, tables, undone, meanwhile, late>>

JobStep == \/ Start \/ SaveEntry \/ SaveBlog
           \/ \E t \in todo : Fetch(t)
           \/ items # Null /\ \E i \in items.left : ReadEntry(i)

PlanetNext == \/ JobStep \/ Killed \/ Tick
              \/ \E g \in Guids : Publish(g) \/ HideEntry(g)
              \/ \E b \in Blogs : EditBlog(b)

PlanetSpec == PlanetInit /\ [][PlanetNext]_planetVars

-----------------------------------------------------------------------------

PlanetTypeOK ==
  /\ now \in 1..MaxTime /\ feed \in [Guids -> FeedItem \union {Null}]
  /\ blog \in [Blogs -> BlogRow]
  /\ entry \in [Guids -> EntryRow \union {Null}]
  /\ queued \in [Guids -> 1..MaxVersions \union {Null}]
  /\ \A t \in todo : t \in [id : Blogs, row : BlogRow]
  /\ items \in FeedItems \union {Null}
  /\ work \in EntrySaved \union {Null}
  /\ snap \in [Guids -> EntryRow \union {Null}] \union {Null}
  /\ items # Null => \E t \in todo : t.id = items.blog
  /\ work # Null => items # Null

\* A moderator's decision on an entry and an administrator's edit of a blog are
\* only put back by a session of the job that was running when they were made.
UndoneByRunningJob == undone \subseteq meanwhile

\* The search index is asked to index every version of an entry that is stored, except
\* those that came late: the session that stores them takes the date of their feed for
\* older than the last one.
UpdatesIndexed ==
  \A g \in Guids : entry[g] # Null => \/ queued[g] = entry[g].version
                                      \/ <<g, entry[g].version>> \in late

\* Only a running session puts back what people decided, and what is stored has been
\* handed to the search index, unless it came late.
PlanetFollowsPeople == UndoneByRunningJob /\ UpdatesIndexed

=============================================================================
