---------------------------- MODULE SearchQueue ----------------------------
(***************************************************************************)
(* The queue of documents that the search index has still to take over:    *)
(* rows of portal_searchqueue, written by the requests that change a       *)
(* document and worked off by the cron job search_update.                  *)
(*                                                                         *)
(* A forum post is written through SQLAlchemy and its queue row through    *)
(* Django, on two connections with a commit each: the row's id is taken    *)
(* when the post is flushed, the post is committed in the view, the row at *)
(* the end of the request.  The rows of a split topic are inserted and     *)
(* committed after the posts.  Every other document shares the transaction *)
(* of its row.  Transactions commit in any order, whatever their ids.      *)
(***************************************************************************)
EXTENDS Integers, FiniteSets

CONSTANTS
    Docs,         \* documents, of any component
    Posts,        \* those of the forum
    BlockSize,    \* rows that select_blocks fetches at a time
    FlushEvery,   \* documents between two flushes of the index
    MaxRows,      \* bound: queue rows ever inserted
    MaxCrashes    \* bound: requests and runs that die

\* What the constants have to be.
SearchQueueAssumption ==
    /\ Posts \subseteq Docs
    /\ BlockSize \in Nat \ {0}
    /\ FlushEvery \in Nat \ {0}
    /\ MaxRows \in Nat
    /\ MaxCrashes \in Nat

\* select_blocks fetches as many rows as update() indexes before a flush: 100.
BlockIsFlushed == BlockSize = FlushEvery

Gone == 0   \* the version of a document that has been deleted
NoRow == 0  \* a row that has no id yet

VARIABLES
    content,   \* committed version of each document
    rows,      \* committed rows of portal_searchqueue
    nextId,    \* its AUTO_INCREMENT
    writers,   \* requests that have written and not committed everything
    buffer,    \* the version the open index holds
    index,     \* the version on disk
    run,       \* the search_update that is running
    lost,      \* history: documents whose row was dropped unread
    crashes    \* spent of MaxCrashes

vars == <<content, rows, nextId, writers, buffer, index, run, lost, crashes>>

(* visible is history: the rows committed when the block was fetched.      *)
Idle == [pc |-> "idle", count |-> 0, cur |-> 0, last |-> 0, block |-> {},
         seen |-> [d \in Docs |-> Gone], visible |-> {}]

-----------------------------------------------------------------------------
(* The requests.  A document is written by one of them at a time.          *)

(* The bound: ids taken, or to be taken by a request that has begun.       *)
RowLeft == nextId + Cardinality({w \in writers : w.id = NoRow}) <= MaxRows

Insert(d, id, gone) ==
    writers' = writers \cup
        {[doc |-> d, id |-> id, gone |-> gone, shown |-> FALSE]}

(* A mapper hook or a save() calls search.queue.                           *)
Queue(d, gone) ==
    /\ RowLeft
    /\ content[d] # Gone
    /\ \A w \in writers : w.doc # d
    /\ Insert(d, nextId, gone)
    /\ nextId' = nextId + 1
    /\ UNCHANGED <<content, rows, buffer, index, run, lost, crashes>>

(* Post.split: multi_update_search follows the commit of the posts.        *)
QueueLater(d) ==
    /\ RowLeft
    /\ d \in Posts
    /\ content[d] # Gone
    /\ \A w \in writers : w.doc # d
    /\ Insert(d, NoRow, FALSE)
    /\ UNCHANGED <<content, rows, nextId, buffer, index, run, lost, crashes>>

Shown(w) == [content EXCEPT ![w.doc] = IF w.gone THEN Gone ELSE @ + 1]

(* db.session.commit() of a request that has written a post.               *)
CommitPost(w) ==
    /\ w.doc \in Posts
    /\ ~w.shown
    /\ content' = Shown(w)
    /\ writers' = (writers \ {w}) \cup {[w EXCEPT !.shown = TRUE]}
    /\ UNCHANGED <<rows, nextId, buffer, index, run, lost, crashes>>

(* Django's commit: the queue row, and with it any document but a post.    *)
CommitRow(w) ==
    /\ w.doc \in Posts => w.shown
    /\ content' = IF w.doc \in Posts THEN content ELSE Shown(w)
    /\ nextId' = IF w.id = NoRow THEN nextId + 1 ELSE nextId
    /\ rows' = rows \cup
           {[id |-> IF w.id = NoRow THEN nextId ELSE w.id, doc |-> w.doc]}
    /\ writers' = writers \ {w}
    /\ UNCHANGED <<buffer, index, run, lost, crashes>>

(* The request ends early: what it has not committed is rolled back.       *)
RequestDies(w) ==
    /\ crashes < MaxCrashes
    /\ crashes' = crashes + 1
    /\ writers' = writers \ {w}
    /\ lost' = IF w.shown THEN lost \cup {w.doc} ELSE lost
    /\ UNCHANGED <<content, rows, nextId, buffer, index, run>>

-----------------------------------------------------------------------------
(* The cron job: update() around the generator select_blocks().            *)

Start ==
    /\ run.pc = "idle"
    /\ run' = [Idle EXCEPT !.pc = IF rows = {} THEN "finish" ELSE "fetch",
                           !.count = Cardinality(rows)]
    /\ UNCHANGED <<content, rows, nextId, writers, buffer, index, lost, crashes>>

FirstRows(n) ==
    {r \in rows : Cardinality({s \in rows : s.id < r.id}) < n}

(* self.all()[:block_size], evaluated by the for loop.                     *)
Fetch ==
    /\ run.pc = "fetch"
    /\ run' = [run EXCEPT !.pc = "index", !.last = 0,
                          !.block = FirstRows(BlockSize), !.seen = content,
                          !.visible = rows]
    /\ UNCHANGED <<content, rows, nextId, writers, buffer, index, lost, crashes>>

(* Mutant: no adapter raises.                                              *)
StoredIfAny(d, v) == IF v = Gone THEN buffer[d] ELSE v

(* What SearchSystem.index makes of version v: the adapters raise for a    *)
(* missing document, which deletes it from the index, but the forum's      *)
(* returns without a word.                                                 *)
Stored(d, v) == IF v = Gone /\ d \in Posts THEN buffer[d] ELSE v

FlushDue(cur) == cur % FlushEvery = 0

(* One document.  Its version is read in the transaction that fetched the  *)
(* block or in a newer one, which depends on the isolation level.          *)
Index ==
    /\ run.pc = "index"
    /\ \E r \in run.block :
        /\ \A s \in run.block : r.id <= s.id
        /\ \E v \in {run.seen[r.doc], content[r.doc]} :
              buffer' = [buffer EXCEPT ![r.doc] = Stored(r.doc, v)]
        /\ run' = [run EXCEPT !.pc = IF FlushDue(run.cur + 1) THEN "flush"
                                                              ELSE "index",
                              !.cur   = (run.cur + 1) % FlushEvery,
                              !.count = @ - 1,
                              !.last  = r.id,
                              !.block = @ \ {r}]
    /\ UNCHANGED <<content, rows, nextId, writers, index, lost, crashes>>

Flush ==
    /\ run.pc = "flush"
    /\ index' = buffer
    /\ run' = [run EXCEPT !.pc = "index"]
    /\ UNCHANGED <<content, rows, nextId, writers, buffer, lost, crashes>>

(* Mutant: the list is taken to hold one row more.                         *)
BelowNext(last) == {r \in rows : r.id <= last + 1}

(* filter(id__lt=last_id)                                                  *)
Below(last) == {r \in rows : r.id < last}

More(count) == count > 0

(* The end of the block: remove(last_id), then the test of the loop.  Rows *)
(* that were committed after the block was fetched, with a smaller id, go  *)
(* with those that were read.                                              *)
Remove ==
    /\ run.pc = "index"
    /\ run.block = {}
    /\ rows' = rows \ Below(run.last)
    /\ lost' = lost \cup {r.doc : r \in Below(run.last) \ run.visible}
    /\ run' = [run EXCEPT !.pc = IF More(run.count) THEN "fetch" ELSE "finish"]
    /\ UNCHANGED <<content, nextId, writers, buffer, index, crashes>>

(* The last flush of update().                                             *)
Finish ==
    /\ run.pc = "finish"
    /\ index' = buffer
    /\ run' = Idle
    /\ UNCHANGED <<content, rows, nextId, writers, buffer, lost, crashes>>

(* The job dies.  What the index has not flushed is lost if the process    *)
(* was killed, and written if it had time to close the database.           *)
RunDies ==
    /\ run.pc # "idle"
    /\ crashes < MaxCrashes
    /\ crashes' = crashes + 1
    /\ \/ index' = buffer /\ buffer' = buffer /\ lost' = lost
       \/ /\ buffer' = index /\ index' = index
          /\ lost' = IF run.pc = "finish"
                     THEN lost \cup {d \in Docs : buffer[d] # index[d]}
                     ELSE lost
    /\ run' = Idle
    /\ UNCHANGED <<content, rows, nextId, writers>>

-----------------------------------------------------------------------------
Init ==
    /\ content = [d \in Docs |-> 1]
    /\ rows = {}
    /\ nextId = 1
    /\ writers = {}
    /\ buffer = content
    /\ index = content
    /\ run = Idle
    /\ lost = {}
    /\ crashes = 0

Request ==
    \/ \E d \in Docs, gone \in BOOLEAN : Queue(d, gone)
    \/ \E d \in Docs : QueueLater(d)

Commit == \E w \in writers : CommitPost(w) \/ CommitRow(w)

Job == Start \/ Fetch \/ Index \/ Flush \/ Remove \/ Finish

Next ==
    \/ Request
    \/ Commit
    \/ \E w \in writers : RequestDies(w)
    \/ Job
    \/ RunDies

(* Requests end, and cron starts the job again and again.                  *)
Spec == Init /\ [][Next]_vars /\ WF_vars(Commit) /\ WF_vars(Job)

-----------------------------------------------------------------------------
(* Properties.                                                             *)

RowType == [id : 1..MaxRows, doc : Docs]

(* The tables, the requests and the job are within their types.            *)
TypeOK ==
    /\ content \in [Docs -> Nat]
    /\ buffer \in [Docs -> Nat]
    /\ index \in [Docs -> Nat]
    /\ rows \subseteq RowType
    /\ nextId \in 1..(MaxRows + 1)
    /\ writers \subseteq [doc : Docs, id : 0..MaxRows, gone : BOOLEAN,
                          shown : BOOLEAN]
    /\ run \in [pc : {"idle", "fetch", "index", "flush", "finish"},
                count : (1 - BlockSize)..MaxRows, cur : 0..(FlushEvery - 1), last : 0..MaxRows,
                block : SUBSET RowType, seen : [Docs -> Nat],
                visible : SUBSET RowType]
    /\ lost \subseteq Docs
    /\ crashes \in 0..MaxCrashes

(* The forum's adapter never deletes from the index.                       *)
GonePost(d) == d \in Posts /\ content[d] = Gone

(* Somebody will still index d: a committed row, or a request whose row is *)
(* on its way.                                                             *)
Queued(d) ==
    \/ \E r \in rows : r.doc = d
    \/ \E w \in writers : w.doc = d /\ w.shown

(* Nothing is forgotten: a document whose newest version the open index    *)
(* lacks is queued, unless its row was overtaken or its request died.      *)
NothingForgotten ==
    \A d \in Docs : buffer[d] = content[d] \/ GonePost(d) \/ Queued(d)
                        \/ d \in lost

(* A row goes only after its document is safe: before the job has reached  *)
(* its end, what is not flushed yet is still in the queue, so that killing *)
(* the job only repeats work.                                              *)
UnflushedStillQueued ==
    run.pc # "finish" =>
        \A d \in Docs : buffer[d] # index[d] => \E r \in rows : r.doc = d

(* Every run of the job ends, although others add rows meanwhile.          *)
JobEnds == run.pc # "idle" ~> run.pc = "idle"

(* A document that has been changed is in the index sooner or later.       *)
EventuallyIndexed ==
    \A d \in Docs :
        []<>(index[d] = content[d] \/ GonePost(d) \/ d \in lost)

(* No change is lost between a component and the open index, and a row     *)
(* stays queued until the index is on disk.                                *)
QueueIsSafe == NothingForgotten /\ UnflushedStillQueued

(* What was changed is in the index sooner or later, and no run is endless.*)
ChangesIndexed == JobEnds /\ EventuallyIndexed

=============================================================================
