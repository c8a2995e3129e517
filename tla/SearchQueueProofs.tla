-------------------------- MODULE SearchQueueProofs --------------------------
(***************************************************************************)
(* Nothing that is queued for the search index is forgotten, for any       *)
(* number of documents and requests, however many of them die.             *)
(***************************************************************************)
EXTENDS SearchQueue, FiniteSetTheorems, NaturalLemmas, TLAPS

-----------------------------------------------------------------------------
(* The invariant.                                                          *)

Writer == [doc : Docs, id : Nat, gone : BOOLEAN, shown : BOOLEAN]
Row == [id : Nat, doc : Docs]
Run == [pc : {"idle", "fetch", "index", "flush", "finish"}, count : Int, cur : Nat,
        last : Nat, block : SUBSET Row, seen : [Docs -> Nat], visible : SUBSET Row]

RowsTyped ==
    /\ content \in [Docs -> Nat] /\ buffer \in [Docs -> Nat] /\ index \in [Docs -> Nat]
    /\ nextId \in Nat \ {0}
    /\ IsFiniteSet(rows)
    /\ rows \subseteq Row /\ \A r \in rows : r.id \in 1..(nextId - 1)
    /\ writers \subseteq Writer /\ \A w \in writers : w.id <= nextId - 1
    /\ run \in Run

\* An id belongs to one row, or to one request that has yet to commit its row.
IdsUnique ==
    /\ \A r, s \in rows : r.id = s.id => r = s
    /\ \A r \in rows, w \in writers : r.id # w.id
    /\ \A v, w \in writers : v.doc = w.doc \/ (v.id = w.id /\ v.id # NoRow) => v = w

InBlock == run.pc \in {"index", "flush"}

\* Rows of the block and after it that the job has or has not reached.
Done == {r \in run.visible : r.id <= run.last}
Left == {r \in run.visible : r.id > run.last}

\* A block is a prefix of the rows, as long as BlockSize or all of them.
BlockKept ==
    InBlock =>
        /\ run.visible \subseteq rows
        /\ run.block \subseteq Left
        /\ \A b \in run.block, r \in Left \ run.block : b.id < r.id
        /\ Cardinality(Done) + Cardinality(run.block) <= BlockSize
        /\ Cardinality(Done) + Cardinality(run.block) < BlockSize => run.block = Left
        /\ run.cur = IF Cardinality(Done) < BlockSize THEN Cardinality(Done) ELSE 0

\* The count of rows taken before the first block is never ahead of the queue.
CountKept ==
    /\ run.pc = "fetch" => run.cur = 0 /\ run.count \in 1..Cardinality(rows)
    /\ InBlock => run.count <= Cardinality(Left)

ShownBy(d) == \E w \in writers : w.doc = d /\ w.shown
Newer(d) == \E r \in rows : r.doc = d /\ r \notin run.visible

\* What the block was fetched with is current, or there is a newer row or request.
SeenKept ==
    InBlock => \A d \in Docs :
        run.seen[d] = content[d] \/ ShownBy(d) \/ Newer(d) \/ d \in lost

\* What the open index lacks does not rely on the rows that are going to be removed.
BufferKept ==
    InBlock => \A d \in Docs :
        \/ buffer[d] = content[d] \/ GonePost(d) \/ ShownBy(d) \/ Newer(d) \/ d \in lost
        \/ \E r \in Left : r.doc = d

\* What is not flushed stems from the rows of the block, which are still there.
FlushKept ==
    /\ run.pc \in {"idle", "fetch"} => buffer = index
    /\ InBlock => \A d \in Docs : buffer[d] # index[d] => \E r \in Done : r.doc = d
    /\ run.pc = "index" /\ Cardinality(Done) = BlockSize => buffer = index

QueueInv == /\ RowsTyped /\ IdsUnique /\ BlockKept /\ CountKept
            /\ SeenKept /\ BufferKept /\ FlushKept /\ NothingForgotten

-----------------------------------------------------------------------------
(* The first rows of the queue.                                            *)

\* ORDER BY id finds a first and a last row.
LEMMA FirstAndLast ==
    ASSUME RowsTyped, NEW S \in SUBSET rows, S # {}
    PROVE  /\ \E r \in S : \A s \in S : r.id <= s.id
           /\ \E r \in S : \A s \in S : s.id <= r.id
<1> DEFINE ids == {r.id : r \in S}
<1>1. ids \in SUBSET (1..(nextId - 1)) /\ ids \in SUBSET Nat /\ ids # {} /\ nextId - 1 \in Nat
  BY DEF RowsTyped
<1>2. \E i \in ids : \A j \in ids : i <= j
  <2> HIDE DEF ids
  <2>1. QED
    BY <1>1, LeastNatural
<1>3. \E i \in ids : \A j \in ids : j <= i
  <2> HIDE DEF ids
  <2>1. QED
    BY <1>1, GreatestNatural
<1>4. QED
  BY <1>2, <1>3

LEMMA FirstRowsPrefix ==
    ASSUME RowsTyped, IdsUnique, NEW n \in Nat
    PROVE  /\ FirstRows(n) \in SUBSET rows
           /\ \A b \in FirstRows(n), r \in rows \ FirstRows(n) : b.id < r.id
           /\ Cardinality(FirstRows(n)) <= n
           /\ Cardinality(FirstRows(n)) < n => FirstRows(n) = rows
<1> DEFINE F == FirstRows(n)
           Before(r) == {s \in rows : s.id < r.id}
<1>1. IsFiniteSet(rows) /\ \A r \in rows : r.id \in Nat
  BY DEF RowsTyped
<1>2. F \in SUBSET rows /\ \A r \in rows : r \in F <=> Cardinality(Before(r)) < n
  BY DEF FirstRows
<1>3. IsFiniteSet(F) /\ Cardinality(F) \in Nat
  BY <1>1, <1>2, FS_Subset, FS_CardinalityType
<1>4. \A r \in rows : IsFiniteSet(Before(r)) /\ Cardinality(Before(r)) \in Nat
  BY <1>1, FS_Subset, FS_CardinalityType
<1>5. ASSUME NEW b \in F, NEW r \in rows \ F PROVE b.id < r.id
  <2>1. SUFFICES ASSUME r.id <= b.id PROVE FALSE
    BY <1>1, <1>2
  <2>2. Before(r) \in SUBSET Before(b)
    BY <1>1, <1>2, <2>1
  <2>3. Cardinality(Before(r)) <= Cardinality(Before(b))
    <3>1. b \in rows /\ IsFiniteSet(Before(b))
      BY <1>2, <1>4
    <3> HIDE DEF Before
    <3>2. QED
      BY <2>2, <3>1, FS_Subset
  <2>4. /\ Cardinality(Before(b)) < n /\ ~(Cardinality(Before(r)) < n)
        /\ Cardinality(Before(b)) \in Nat /\ Cardinality(Before(r)) \in Nat
    <3>1. b \in rows /\ r \in rows /\ r \notin F
      BY <1>2
    <3> HIDE DEF F, Before
    <3>2. QED
      BY <1>2, <1>4, <3>1
  <2>5. QED
    <3> HIDE DEF F, Before
    <3>1. QED
      BY <2>3, <2>4
<1>6. Cardinality(F) <= n
  <2>1. CASE F = {}
    BY <2>1, FS_EmptySet
  <2>2. CASE F # {}
    <3>1. PICK b \in F : \A c \in F : c.id <= b.id
      BY <1>2, <2>2, FirstAndLast
    <3>2. Before(b) = F \ {b}
      BY <1>1, <1>2, <1>5, <3>1 DEF IdsUnique
    <3>3. Cardinality(Before(b)) = Cardinality(F) - 1
      <4> HIDE DEF F, Before
      <4>1. QED
        BY <1>3, <3>1, <3>2, FS_RemoveElement
    <3>4. QED
      BY <1>2, <1>3, <3>1, <3>3
  <2>3. QED
    BY <2>1, <2>2
<1>7. ASSUME F # rows PROVE Cardinality(F) >= n
  <2>1. rows \ F \in SUBSET rows /\ rows \ F # {}
    BY <1>2, <1>7
  <2>2. PICK r \in rows \ F : \A s \in rows \ F : r.id <= s.id
    <3> HIDE DEF F
    <3>1. QED
      BY <2>1, FirstAndLast
  <2>3. Before(r) = F
    BY <1>1, <1>2, <1>5, <2>2
  <2>4. QED
    BY <1>2, <1>3, <2>2, <2>3
<1>8. QED
  BY <1>2, <1>3, <1>5, <1>6, <1>7

-----------------------------------------------------------------------------
(* The requests.                                                           *)

LEMMA InitInv == ASSUME SearchQueueAssumption, Init PROVE QueueInv
<1>1. run = Idle /\ rows = {} /\ writers = {} /\ nextId = 1 /\ buffer = content /\ index = content
      /\ content \in [Docs -> Nat]
  BY DEF Init
<1>2. run.pc = "idle" /\ run \in Run
  BY <1>1 DEF Idle, Gone, Run
<1>3. RowsTyped /\ IdsUnique
  BY <1>1, <1>2, FS_EmptySet DEF RowsTyped, IdsUnique
<1>4. QED
  BY <1>1, <1>2, <1>3
  DEF QueueInv, BlockKept, CountKept, SeenKept, BufferKept, FlushKept, InBlock, NothingForgotten

\* A request that begins adds a writer that has nothing to show yet.
LEMMA BeginInv ==
    ASSUME QueueInv, NEW d \in Docs, NEW id, NEW gone \in BOOLEAN, Insert(d, id, gone),
           \A w \in writers : w.doc # d, nextId' \in Nat \ {0}, nextId <= nextId',
           id \in Nat, id < nextId', id \in {NoRow, nextId},
           UNCHANGED <<content, rows, buffer, index, run, lost>>
    PROVE  QueueInv'
<1>1. PICK w : w = [doc |-> d, id |-> id, gone |-> gone, shown |-> FALSE]
  OBVIOUS
<1>2. writers' = writers \cup {w} /\ w.doc = d /\ w.id = id /\ ~w.shown /\ w \in Writer
  BY <1>1 DEF Insert, Writer
<1>3. RowsTyped'
  <2>1. nextId' \in Nat /\ nextId <= nextId' /\ id \in Nat /\ id < nextId'
    OBVIOUS
  <2>10. /\ nextId \in Nat
         /\ \A r \in rows : r.id \in 1..(nextId - 1)
         /\ \A v \in writers : v.id \in Nat /\ v.id <= nextId - 1
    BY DEF QueueInv, RowsTyped, Writer
  <2>2. \A r \in rows : r.id \in 1..(nextId' - 1)
    BY <2>1, <2>10
  <2>3. \A v \in writers' : v.id <= nextId' - 1
    BY <1>2, <2>1, <2>10
  <2>4. rows' = rows /\ run' = run /\ content' = content /\ buffer' = buffer /\ index' = index
    OBVIOUS
  <2>5. IsFiniteSet(rows') /\ rows' \subseteq Row /\ \A r \in rows' : r.id \in 1..(nextId' - 1)
    BY <2>2, <2>4 DEF QueueInv, RowsTyped
  <2>6. writers' \subseteq Writer
    BY <1>2 DEF QueueInv, RowsTyped
  <2>7. QED
    BY <2>3, <2>4, <2>5, <2>6 DEF QueueInv, RowsTyped
<1>4. IdsUnique'
  <2>1. /\ \A r \in rows : r.id # id
        /\ id # NoRow => \A v \in writers : v.id # id
    BY DEF QueueInv, RowsTyped, Writer, NoRow
  <2>2. QED
    BY <1>2, <2>1 DEF QueueInv, IdsUnique
<1>5. \A c \in Docs : ShownBy(c)' = ShownBy(c) /\ Newer(c)' = Newer(c) /\ Queued(c)' = Queued(c)
                       /\ GonePost(c)' = GonePost(c)
  BY <1>2 DEF ShownBy, Newer, Queued, GonePost
<1>6. BlockKept' /\ CountKept' /\ FlushKept'
  BY DEF QueueInv, BlockKept, CountKept, FlushKept, InBlock, Done, Left
<1>7. SeenKept' /\ BufferKept' /\ NothingForgotten'
  BY <1>5 DEF QueueInv, SeenKept, BufferKept, NothingForgotten, InBlock, Left
<1>8. QED
  BY <1>3, <1>4, <1>6, <1>7 DEF QueueInv

LEMMA RequestInv == ASSUME QueueInv, Request PROVE QueueInv'
<1>1. nextId \in Nat \ {0}
  BY DEF QueueInv, RowsTyped
<1>2. ASSUME NEW d \in Docs, NEW gone \in BOOLEAN, Queue(d, gone) PROVE QueueInv'
  <2>1. nextId' = nextId + 1
    BY <1>2 DEF Queue
  <2>2. QED
    BY <1>1, <1>2, <2>1, BeginInv DEF Queue
<1>3. ASSUME NEW d \in Docs, QueueLater(d) PROVE QueueInv'
  <2>1. nextId' = nextId /\ NoRow \in Nat /\ NoRow < nextId' /\ FALSE \in BOOLEAN
    BY <1>1, <1>3 DEF QueueLater, NoRow
  <2>2. /\ Insert(d, NoRow, FALSE) /\ \A w \in writers : w.doc # d
        /\ UNCHANGED <<content, rows, buffer, index, run, lost>>
    BY <1>3 DEF QueueLater
  <2>3. nextId' \in Nat \ {0} /\ nextId <= nextId' /\ NoRow \in {NoRow, nextId}
    BY <1>1, <2>1
  <2>4. QED
    BY <2>1, <2>2, <2>3, BeginInv
<1>4. QED
  BY <1>2, <1>3 DEF Request

\* A commit changes the version of one document.
LEMMA ShownTyped ==
    ASSUME QueueInv, NEW w \in writers
    PROVE  w.doc \in Docs /\ \E v \in Nat : Shown(w) = [content EXCEPT ![w.doc] = v]
<1>1. w.doc \in Docs
  BY DEF QueueInv, RowsTyped, Writer
<1>2. content[w.doc] \in Nat
  BY <1>1 DEF QueueInv, RowsTyped
<1>3. CASE w.gone
  BY <1>1, <1>3 DEF Shown, Gone
<1>4. CASE ~w.gone
  BY <1>1, <1>2, <1>4 DEF Shown
<1>5. QED
  BY <1>3, <1>4

LEMMA CommitPostInv == ASSUME QueueInv, NEW w \in writers, CommitPost(w) PROVE QueueInv'
<1>1. PICK s : s = [w EXCEPT !.shown = TRUE]
  OBVIOUS
<1>2. PICK v \in Nat : content' = [content EXCEPT ![w.doc] = v]
  BY ShownTyped DEF CommitPost
<1>3. /\ writers' = (writers \ {w}) \cup {s}
      /\ UNCHANGED <<rows, nextId, buffer, index, run, lost>>
  BY <1>1 DEF CommitPost
<1>4. s.doc = w.doc /\ s.id = w.id /\ s.shown
  <2>1. w \in Writer
    BY DEF QueueInv, RowsTyped
  <2>2. QED
    BY <1>1, <2>1 DEF Writer
<1>5. s \in Writer
  BY <1>1 DEF QueueInv, RowsTyped, Writer
<1>6. RowsTyped'
  BY <1>2, <1>3, <1>4, <1>5 DEF QueueInv, RowsTyped
<1>7. IdsUnique'
  BY <1>3, <1>4 DEF QueueInv, IdsUnique
<1>8. BlockKept' /\ CountKept' /\ FlushKept'
  BY <1>3 DEF QueueInv, BlockKept, CountKept, FlushKept, InBlock, Done, Left
<1>9. /\ ShownBy(w.doc)' /\ Queued(w.doc)'
      /\ \A c \in Docs : /\ ShownBy(c) => ShownBy(c)'
                         /\ Queued(c) => Queued(c)'
                         /\ Newer(c)' = Newer(c)
  BY <1>3, <1>4 DEF ShownBy, Queued, Newer
<1>10. \A c \in Docs : c # w.doc => content'[c] = content[c] /\ GonePost(c)' = GonePost(c)
  BY <1>2 DEF QueueInv, RowsTyped, GonePost
<1>11. SeenKept' /\ BufferKept' /\ NothingForgotten'
  BY <1>3, <1>9, <1>10
  DEF QueueInv, SeenKept, BufferKept, NothingForgotten, InBlock, Left
<1>12. QED
  BY <1>6, <1>7, <1>8, <1>11 DEF QueueInv

LEMMA CommitRowInv == ASSUME QueueInv, NEW w \in writers, CommitRow(w) PROVE QueueInv'
<1>1. PICK r : r = [id |-> IF w.id = NoRow THEN nextId ELSE w.id, doc |-> w.doc]
  OBVIOUS
<1>2. /\ content' \in [Docs -> Nat]
      /\ \A c \in Docs : c # w.doc => content'[c] = content[c]
  <2>1. content \in [Docs -> Nat]
    BY DEF QueueInv, RowsTyped
  <2>2. PICK v \in Nat : Shown(w) = [content EXCEPT ![w.doc] = v]
    BY ShownTyped
  <2>3. content' = content \/ content' = [content EXCEPT ![w.doc] = v]
    BY <2>2 DEF CommitRow
  <2>4. QED
    BY <2>1, <2>3
<1>3. /\ nextId' = IF w.id = NoRow THEN nextId + 1 ELSE nextId
      /\ rows' = rows \cup {r} /\ writers' = writers \ {w}
      /\ UNCHANGED <<buffer, index, run, lost>>
  BY <1>1 DEF CommitRow
<1>4. /\ w \in Writer /\ nextId \in Nat \ {0} /\ w.id <= nextId - 1
      /\ r.doc = w.doc /\ r.id \in 1..(nextId' - 1) /\ r \in Row
  BY <1>1, <1>3 DEF QueueInv, RowsTyped, Writer, NoRow, Row
<1>5. nextId' \in Nat \ {0} /\ nextId <= nextId'
  BY <1>3, <1>4
<1>6. RowsTyped'
  <2>1. IsFiniteSet(rows')
    BY <1>3, FS_AddElement DEF QueueInv, RowsTyped
  <2>2. rows' \subseteq Row /\ \A q \in rows' : q.id \in 1..(nextId' - 1)
    BY <1>3, <1>4, <1>5 DEF QueueInv, RowsTyped
  <2>3. writers' \subseteq Writer /\ \A v \in writers' : v.id <= nextId' - 1
    BY <1>3, <1>4, <1>5 DEF QueueInv, RowsTyped, Writer
  <2>4. QED
    BY <1>2, <1>3, <1>5, <2>1, <2>2, <2>3 DEF QueueInv, RowsTyped
<1>7. (\A q \in rows : q.id # r.id) /\ (\A v \in writers' : v.id # r.id)
  <2>1. CASE w.id = NoRow
    BY <1>1, <1>3, <1>4, <2>1 DEF QueueInv, RowsTyped, Writer
  <2>2. CASE w.id # NoRow
    BY <1>1, <1>3, <2>2 DEF QueueInv, IdsUnique
  <2>3. QED
    BY <2>1, <2>2
<1>8. IdsUnique'
  BY <1>3, <1>7 DEF QueueInv, IdsUnique
<1>9. r \notin rows /\ (InBlock => r \notin run.visible)
  BY <1>7 DEF QueueInv, BlockKept
<1>10. CountKept'
  <2>1. Cardinality(rows') \in Nat /\ Cardinality(rows) \in Nat
           /\ Cardinality(rows) <= Cardinality(rows')
    BY <1>3, <1>6, FS_Subset, FS_CardinalityType DEF QueueInv, RowsTyped
  <2>2. QED
    BY <1>3, <2>1 DEF QueueInv, RowsTyped, CountKept, InBlock, Left
<1>11. BlockKept' /\ FlushKept'
  BY <1>3 DEF QueueInv, BlockKept, FlushKept, InBlock, Done, Left
<1>12. /\ Queued(w.doc)' /\ (InBlock => Newer(w.doc)')
       /\ \A c \in Docs : c # w.doc =>
            (ShownBy(c) => ShownBy(c)') /\ (Queued(c) => Queued(c)') /\ (Newer(c) => Newer(c)')
  BY <1>3, <1>4, <1>9 DEF ShownBy, Queued, Newer
<1>13. \A c \in Docs : c # w.doc => GonePost(c)' = GonePost(c)
  BY <1>2 DEF GonePost
<1>14. SeenKept' /\ BufferKept' /\ NothingForgotten'
  BY <1>2, <1>3, <1>12, <1>13
  DEF QueueInv, SeenKept, BufferKept, NothingForgotten, InBlock, Left
<1>15. QED
  BY <1>6, <1>8, <1>10, <1>11, <1>14 DEF QueueInv

LEMMA RequestDiesInv == ASSUME QueueInv, NEW w \in writers, RequestDies(w) PROVE QueueInv'
<1>1. /\ writers' = writers \ {w} /\ lost \subseteq lost' /\ (w.shown => w.doc \in lost')
      /\ UNCHANGED <<content, rows, nextId, buffer, index, run>>
  BY DEF RequestDies
<1>2. RowsTyped' /\ IdsUnique'
  BY <1>1 DEF QueueInv, RowsTyped, IdsUnique
<1>3. BlockKept' /\ CountKept' /\ FlushKept'
  BY <1>1 DEF QueueInv, BlockKept, CountKept, FlushKept, InBlock, Done, Left
<1>4. \A c \in Docs : /\ ShownBy(c) => ShownBy(c)' \/ c \in lost'
                      /\ Queued(c) => Queued(c)' \/ c \in lost'
                      /\ Newer(c)' = Newer(c) /\ GonePost(c)' = GonePost(c)
  BY <1>1 DEF ShownBy, Queued, Newer, GonePost
<1>5. SeenKept' /\ BufferKept' /\ NothingForgotten'
  BY <1>1, <1>4 DEF QueueInv, SeenKept, BufferKept, NothingForgotten, InBlock, Left
<1>6. QED
  BY <1>2, <1>3, <1>5 DEF QueueInv

-----------------------------------------------------------------------------
(* The job.                                                                *)

LEMMA StartInv == ASSUME QueueInv, Start PROVE QueueInv'
<1>1. /\ run' = [Idle EXCEPT !.pc = IF rows = {} THEN "finish" ELSE "fetch",
                             !.count = Cardinality(rows)]
      /\ UNCHANGED <<content, rows, nextId, writers, buffer, index, lost>> /\ run.pc = "idle"
  BY DEF Start
<1>2. Cardinality(rows) \in Nat /\ (rows # {} => Cardinality(rows) # 0)
  BY FS_CardinalityType, FS_EmptySet DEF QueueInv, RowsTyped
<1>3. /\ run'.pc = IF rows = {} THEN "finish" ELSE "fetch"
      /\ run'.count = Cardinality(rows) /\ run'.cur = 0 /\ run'.last = 0
      /\ run' \in Run
  <2>1. /\ Idle \in Run /\ Idle.cur = 0 /\ Idle.last = 0
    BY DEF Idle, Gone, Run
  <2>2. PICK pc : pc = (IF rows = {} THEN "finish" ELSE "fetch")
    OBVIOUS
  <2>3. pc \in {"finish", "fetch"} /\ Cardinality(rows) \in Int
    BY <1>2, <2>2
  <2>4. run' = [Idle EXCEPT !.pc = pc, !.count = Cardinality(rows)]
    BY <1>1, <2>2
  <2>5. /\ run' \in Run /\ run'.pc = pc /\ run'.count = Cardinality(rows)
        /\ run'.cur = 0 /\ run'.last = 0
    BY <2>1, <2>3, <2>4 DEF Run
  <2>6. QED
    BY <2>2, <2>5
<1>4. RowsTyped' /\ IdsUnique'
  BY <1>1, <1>2, <1>3 DEF QueueInv, RowsTyped, IdsUnique
<1>5. ~InBlock' /\ BlockKept' /\ SeenKept' /\ BufferKept'
  BY <1>3 DEF InBlock, BlockKept, SeenKept, BufferKept
<1>6. CountKept' /\ FlushKept'
  BY <1>1, <1>2, <1>3, <1>5 DEF QueueInv, CountKept, FlushKept
<1>7. NothingForgotten'
  BY <1>1 DEF QueueInv, NothingForgotten, GonePost, Queued
<1>8. QED
  BY <1>4, <1>5, <1>6, <1>7 DEF QueueInv

LEMMA FetchInv == ASSUME SearchQueueAssumption, QueueInv, Fetch PROVE QueueInv'
<1>1. /\ run' = [run EXCEPT !.pc = "index", !.last = 0, !.block = FirstRows(BlockSize),
                            !.seen = content, !.visible = rows]
      /\ UNCHANGED <<content, rows, nextId, writers, buffer, index, lost>> /\ run.pc = "fetch"
  BY DEF Fetch
<1>2. /\ FirstRows(BlockSize) \in SUBSET rows
      /\ \A b \in FirstRows(BlockSize), r \in rows \ FirstRows(BlockSize) : b.id < r.id
      /\ Cardinality(FirstRows(BlockSize)) <= BlockSize
      /\ Cardinality(FirstRows(BlockSize)) < BlockSize => FirstRows(BlockSize) = rows
      /\ BlockSize \in Nat \ {0}
  BY FirstRowsPrefix DEF QueueInv, SearchQueueAssumption
<1>3. /\ run'.pc = "index" /\ run'.last = 0 /\ run'.block = FirstRows(BlockSize)
      /\ run'.seen = content /\ run'.visible = rows
      /\ run'.count = run.count /\ run'.cur = run.cur /\ run' \in Run
  BY <1>1, <1>2 DEF QueueInv, RowsTyped, Run
<1>4. Done' = {} /\ Left' = rows
  BY <1>3 DEF Done, Left, QueueInv, RowsTyped
<1>5. RowsTyped' /\ IdsUnique'
  BY <1>1, <1>3 DEF QueueInv, RowsTyped, IdsUnique
<1>6. Cardinality({}) = 0 /\ Cardinality(FirstRows(BlockSize)) \in Nat
  BY <1>2, FS_EmptySet, FS_Subset, FS_CardinalityType DEF QueueInv, RowsTyped
<1>7. BlockKept'
  BY <1>1, <1>2, <1>3, <1>4, <1>6 DEF QueueInv, BlockKept, CountKept
<1>8. CountKept'
  BY <1>1, <1>3, <1>4, FS_CardinalityType DEF QueueInv, RowsTyped, CountKept
<1>9. SeenKept'
  BY <1>1, <1>3 DEF SeenKept
<1>10. \A c \in Docs : Queued(c) => ShownBy(c)' \/ \E r \in Left' : r.doc = c
  BY <1>1, <1>4 DEF Queued, ShownBy
<1>11. \A c \in Docs : GonePost(c)' = GonePost(c) /\ Queued(c)' = Queued(c)
  BY <1>1 DEF GonePost, Queued
<1>12. BufferKept' /\ NothingForgotten'
  BY <1>1, <1>10, <1>11 DEF QueueInv, BufferKept, NothingForgotten
<1>13. FlushKept'
  BY <1>1, <1>3, <1>4, <1>2, <1>6 DEF QueueInv, FlushKept
<1>14. QED
  BY <1>5, <1>7, <1>8, <1>9, <1>12, <1>13 DEF QueueInv

\* The row that is indexed moves from the rest of the block to what is done.
LEMMA DoneGrows ==
    ASSUME QueueInv, InBlock, NEW r \in run.block, \A s \in run.block : r.id <= s.id,
           run'.last = r.id, run'.visible = run.visible, run'.block = run.block \ {r}
    PROVE  /\ r \in rows /\ r \in Left /\ r \notin Done
           /\ Done' = Done \cup {r} /\ Left' = Left \ {r}
           /\ IsFiniteSet(Done) /\ IsFiniteSet(Left) /\ IsFiniteSet(run.block)
           /\ Cardinality(Done') = Cardinality(Done) + 1
           /\ Cardinality(run'.block) = Cardinality(run.block) - 1
           /\ Cardinality(Left') = Cardinality(Left) - 1
<1>1. run.visible \subseteq rows /\ run.block \subseteq Left /\ IsFiniteSet(rows)
      /\ \A s \in rows : s.id \in Nat
  BY DEF QueueInv, BlockKept, RowsTyped
<1>2. r \in rows /\ r \in Left /\ r \notin Done /\ run.last < r.id /\ run.last \in Nat
  BY <1>1 DEF Left, Done, QueueInv, RowsTyped, Run
<1>3. \A s \in Left : s # r => r.id < s.id
  <2> TAKE s \in Left
  <2>1. CASE s \in run.block
    BY <1>1, <1>2, <2>1 DEF QueueInv, IdsUnique, Left
  <2>2. CASE s \notin run.block
    BY <2>2 DEF QueueInv, BlockKept
  <2>3. QED
    BY <2>1, <2>2
<1>4. \A s \in run.visible : s \in Left \/ s \in Done
  BY <1>1, <1>2 DEF Left, Done
<1>5. Done' = Done \cup {r} /\ Left' = Left \ {r}
  <2>1. Done' = {s \in run.visible : s.id <= r.id} /\ Left' = {s \in run.visible : s.id > r.id}
    BY DEF Done, Left
  <2>2. \A s \in Done : s \in run.visible /\ s.id <= r.id
    BY <1>1, <1>2 DEF Done
  <2>3. \A s \in Left : s \in run.visible
    BY DEF Left
  <2>4. QED
    BY <1>1, <1>2, <1>3, <1>4, <2>1, <2>2, <2>3
<1>6. Done \in SUBSET rows /\ Left \in SUBSET rows /\ run.block \in SUBSET rows
  BY <1>1 DEF Done, Left
<1>7. IsFiniteSet(Done) /\ IsFiniteSet(Left) /\ IsFiniteSet(run.block)
  BY <1>1, <1>6, FS_Subset
<1>8. Cardinality(Done') = Cardinality(Done) + 1
  BY <1>2, <1>5, <1>7, FS_AddElement
<1>9. Cardinality(run'.block) = Cardinality(run.block) - 1
  BY <1>7, FS_RemoveElement
<1>10. Cardinality(Left') = Cardinality(Left) - 1
  BY <1>2, <1>5, <1>7, FS_RemoveElement
<1>11. QED
  BY <1>2, <1>5, <1>7, <1>8, <1>9, <1>10

LEMMA IndexInv ==
    ASSUME SearchQueueAssumption, BlockIsFlushed, QueueInv, Index PROVE QueueInv'
<1>1. PICK r \in run.block :
        /\ \A s \in run.block : r.id <= s.id
        /\ \E v \in {run.seen[r.doc], content[r.doc]} :
              buffer' = [buffer EXCEPT ![r.doc] = Stored(r.doc, v)]
        /\ run' = [run EXCEPT !.pc = IF FlushDue(run.cur + 1) THEN "flush" ELSE "index",
                              !.cur = (run.cur + 1) % FlushEvery,
                              !.count = run.count - 1,
                              !.last = r.id,
                              !.block = run.block \ {r}]
  BY DEF Index
<1>2. run.pc = "index" /\ InBlock /\ UNCHANGED <<content, rows, nextId, writers, index, lost>>
  BY DEF Index, InBlock
<1>3. /\ BlockSize \in Nat \ {0} /\ FlushEvery = BlockSize
      /\ run \in Run /\ run.cur \in Nat /\ run.count \in Int
  BY DEF SearchQueueAssumption, BlockIsFlushed, QueueInv, RowsTyped, Run
<1>4. r \in rows /\ r \in Row /\ r.id \in Nat /\ r.doc \in Docs
  BY <1>2 DEF QueueInv, BlockKept, Left, RowsTyped, Row
<1>5. /\ run'.pc = IF FlushDue(run.cur + 1) THEN "flush" ELSE "index"
      /\ run'.cur = (run.cur + 1) % FlushEvery /\ run'.count = run.count - 1
      /\ run'.last = r.id /\ run'.block = run.block \ {r}
      /\ run'.visible = run.visible /\ run'.seen = run.seen
  BY <1>1, <1>3 DEF Run
<1>6. /\ r \in Left /\ r \notin Done
      /\ Done' = Done \cup {r} /\ Left' = Left \ {r}
      /\ Cardinality(Done) \in Nat /\ Cardinality(Left) \in Nat /\ Cardinality(run.block) \in Nat
      /\ Cardinality(Done') = Cardinality(Done) + 1
      /\ Cardinality(run'.block) = Cardinality(run.block) - 1
      /\ Cardinality(Left') = Cardinality(Left) - 1
      /\ Cardinality(run'.block) \in Nat
  BY <1>1, <1>2, <1>5, DoneGrows, FS_CardinalityType, FS_RemoveElement
<1>7. /\ Cardinality(Done) < BlockSize /\ run.cur = Cardinality(Done)
  BY <1>2, <1>3, <1>6 DEF QueueInv, BlockKept
<1>8. /\ run'.cur = IF Cardinality(Done') < BlockSize THEN Cardinality(Done') ELSE 0
      /\ Cardinality(Done') <= BlockSize
      /\ run'.pc = IF Cardinality(Done') = BlockSize THEN "flush" ELSE "index"
  <2>1. PICK k \in Nat : k = Cardinality(Done) /\ k < BlockSize
    BY <1>6, <1>7
  <2>2. (k + 1) % BlockSize = IF k + 1 < BlockSize THEN k + 1 ELSE 0
    <3>1. CASE k + 1 < BlockSize
      BY <1>3, <3>1
    <3>2. CASE k + 1 = BlockSize
      BY <1>3, <3>2
    <3>3. QED
      BY <1>3, <2>1, <3>1, <3>2
  <2>3. Cardinality(Done') = k + 1 /\ run.cur = k
    BY <1>6, <1>7, <2>1
  <2>4. FlushDue(run.cur + 1) <=> k + 1 = BlockSize
    BY <1>3, <2>1, <2>2, <2>3 DEF FlushDue
  <2>5. run'.cur = (k + 1) % BlockSize
    BY <1>3, <1>5, <2>3
  <2>6. QED
    BY <1>3, <1>5, <2>1, <2>2, <2>3, <2>4, <2>5
<1>9. InBlock' /\ run'.pc \in {"index", "flush"}
  BY <1>8 DEF InBlock
<1>10. PICK v \in {run.seen[r.doc], content[r.doc]} :
          buffer' = [buffer EXCEPT ![r.doc] = Stored(r.doc, v)]
  BY <1>1
<1>11. /\ v \in Nat /\ Stored(r.doc, v) \in Nat
       /\ buffer'[r.doc] = Stored(r.doc, v)
       /\ \A c \in Docs : c # r.doc => buffer'[c] = buffer[c]
       /\ buffer' \in [Docs -> Nat]
  BY <1>3, <1>4, <1>10 DEF QueueInv, RowsTyped, Run, Stored
<1>12. RowsTyped' /\ IdsUnique'
  <2>1. run' \in Run
    <3>1. /\ run'.cur \in Nat /\ run.block \ {r} \in SUBSET Row /\ run.count - 1 \in Int
          /\ run'.pc \in {"idle", "fetch", "index", "flush", "finish"}
      BY <1>3, <1>6, <1>8, <1>9 DEF Run
    <3>2. PICK pc, cur, count, block :
             /\ run' = [run EXCEPT !.pc = pc, !.cur = cur, !.count = count,
                                   !.last = r.id, !.block = block]
             /\ block = run.block \ {r} /\ count = run.count - 1
             /\ pc = (IF FlushDue(run.cur + 1) THEN "flush" ELSE "index")
             /\ cur = (run.cur + 1) % FlushEvery
      BY <1>1
    <3>3. /\ pc \in {"idle", "fetch", "index", "flush", "finish"} /\ cur \in Nat /\ count \in Int
          /\ block \in SUBSET Row
      BY <1>5, <3>1, <3>2
    <3>4. QED
      BY <1>3, <1>4, <3>2, <3>3 DEF Run
  <2>2. QED
    BY <1>2, <1>11, <2>1 DEF QueueInv, RowsTyped, IdsUnique
<1>13. BlockKept'
  <2>1. run'.visible \subseteq rows /\ run'.block \subseteq Left'
    BY <1>2, <1>5, <1>6 DEF QueueInv, BlockKept
  <2>2. \A b \in run'.block, s \in Left' \ run'.block : b.id < s.id
    BY <1>2, <1>5, <1>6 DEF QueueInv, BlockKept
  <2>3. /\ Cardinality(Done') + Cardinality(run'.block)
             = Cardinality(Done) + Cardinality(run.block)
        /\ Cardinality(Done) + Cardinality(run.block) \in Nat
    BY <1>6
  <2>4. run.block = Left => run'.block = Left'
    BY <1>5, <1>6
  <2>5. QED
    BY <1>2, <1>8, <2>1, <2>2, <2>3, <2>4 DEF QueueInv, BlockKept
<1>14. CountKept'
  BY <1>2, <1>3, <1>5, <1>6, <1>9 DEF QueueInv, CountKept
<1>15. \A c \in Docs : ShownBy(c)' = ShownBy(c) /\ Newer(c)' = Newer(c) /\ Queued(c)' = Queued(c)
                        /\ GonePost(c)' = GonePost(c)
  BY <1>2, <1>5 DEF ShownBy, Newer, Queued, GonePost
<1>16. SeenKept'
  BY <1>2, <1>5, <1>15 DEF QueueInv, SeenKept
<1>17. BufferKept'
  <2>1. \/ buffer'[r.doc] = content[r.doc] \/ GonePost(r.doc)
        \/ ShownBy(r.doc) \/ Newer(r.doc) \/ r.doc \in lost
    <3>1. CASE v = content[r.doc]
      BY <1>4, <1>11, <3>1 DEF Stored, GonePost
    <3>2. CASE v = run.seen[r.doc]
      BY <1>2, <1>4, <3>1, <3>2 DEF QueueInv, SeenKept
    <3>3. QED
      BY <1>10, <3>1, <3>2
  <2>2. \A c \in Docs : c # r.doc => ((\E s \in Left : s.doc = c) => \E s \in Left' : s.doc = c)
    BY <1>6
  <2>3. QED
    BY <1>2, <1>11, <1>15, <2>1, <2>2 DEF QueueInv, BufferKept
<1>18. FlushKept'
  BY <1>2, <1>6, <1>8, <1>9, <1>11 DEF QueueInv, FlushKept
<1>19. NothingForgotten'
  <2>1. Queued(r.doc)
    BY <1>4 DEF Queued
  <2>2. QED
    BY <1>2, <1>11, <1>15, <2>1 DEF QueueInv, NothingForgotten
<1>20. QED
  BY <1>12, <1>13, <1>14, <1>16, <1>17, <1>18, <1>19 DEF QueueInv
LEMMA FlushInv == ASSUME QueueInv, Flush PROVE QueueInv'
<1>1. /\ run' = [run EXCEPT !.pc = "index"] /\ run.pc = "flush" /\ index' = buffer
      /\ UNCHANGED <<content, rows, nextId, writers, buffer, lost>>
  BY DEF Flush
<1>2. /\ run' \in Run /\ run'.pc = "index" /\ run'.cur = run.cur /\ run'.count = run.count
      /\ run'.last = run.last /\ run'.block = run.block /\ run'.visible = run.visible
      /\ run'.seen = run.seen
  BY <1>1 DEF QueueInv, RowsTyped, Run
<1>3. RowsTyped' /\ IdsUnique'
  BY <1>1, <1>2 DEF QueueInv, RowsTyped, IdsUnique
<1>4. InBlock /\ InBlock' /\ Done' = Done /\ Left' = Left
  BY <1>1, <1>2 DEF InBlock, Done, Left
<1>5. BlockKept' /\ CountKept'
  BY <1>1, <1>2, <1>4 DEF QueueInv, BlockKept, CountKept
<1>6. \A c \in Docs : ShownBy(c)' = ShownBy(c) /\ Newer(c)' = Newer(c) /\ Queued(c)' = Queued(c)
                        /\ GonePost(c)' = GonePost(c)
  BY <1>1, <1>2 DEF ShownBy, Newer, Queued, GonePost
<1>7. SeenKept' /\ BufferKept' /\ NothingForgotten'
  BY <1>1, <1>2, <1>4, <1>6 DEF QueueInv, SeenKept, BufferKept, NothingForgotten
<1>8. FlushKept'
  BY <1>1, <1>2 DEF FlushKept
<1>9. QED
  BY <1>3, <1>5, <1>7, <1>8 DEF QueueInv

\* What remove() deletes has been indexed, or is lost.
LEMMA RemoveInv ==
    ASSUME SearchQueueAssumption, BlockIsFlushed, QueueInv, Remove PROVE QueueInv'
<1>1. /\ run.pc = "index" /\ run.block = {}
      /\ rows' = rows \ Below(run.last)
      /\ lost' = lost \cup {r.doc : r \in Below(run.last) \ run.visible}
      /\ run' = [run EXCEPT !.pc = IF More(run.count) THEN "fetch" ELSE "finish"]
      /\ UNCHANGED <<content, nextId, writers, buffer, index>>
  BY DEF Remove
<1>2. /\ run' \in Run /\ run'.pc = IF More(run.count) THEN "fetch" ELSE "finish"
      /\ run'.count = run.count /\ run'.cur = run.cur
      /\ run.last \in Nat /\ run.count \in Int
  BY <1>1 DEF QueueInv, RowsTyped, Run
<1>3. /\ rows' \in SUBSET rows /\ IsFiniteSet(rows) /\ IsFiniteSet(rows')
      /\ \A r \in rows : r.id \in Nat
  BY <1>1, FS_Subset DEF QueueInv, RowsTyped, Below
<1>4. RowsTyped'
  BY <1>1, <1>2, <1>3 DEF QueueInv, RowsTyped
<1>5. IdsUnique'
  BY <1>1, <1>3 DEF QueueInv, IdsUnique
<1>6. ~InBlock' /\ InBlock
  BY <1>1, <1>2 DEF InBlock
<1>7. BlockKept' /\ SeenKept' /\ BufferKept'
  BY <1>6 DEF BlockKept, SeenKept, BufferKept
<1>8. run.visible \subseteq rows /\ Left \in SUBSET rows' /\ Left \in SUBSET rows
  <2>1. run.visible \subseteq rows
    BY <1>6 DEF QueueInv, BlockKept
  <2>2. \A r \in Left : r \in rows /\ r \notin Below(run.last)
    BY <1>2, <1>3, <2>1 DEF Left, Below
  <2>3. QED
    BY <1>1, <2>1, <2>2
<1>9. ASSUME More(run.count) PROVE /\ run.cur = 0 /\ buffer = index
                                   /\ run.count \in 1..Cardinality(rows')
  <2>1. IsFiniteSet(Left) /\ Cardinality(Left) \in Nat /\ Cardinality(rows') \in Nat
        /\ Cardinality(Left) <= Cardinality(rows')
    BY <1>3, <1>8, FS_Subset, FS_CardinalityType
  <2>2. run.count > 0 /\ run.count <= Cardinality(Left)
    BY <1>6, <1>9 DEF More, QueueInv, CountKept
  <2>3. Left # {}
    BY <1>2, <2>2, FS_EmptySet
  <2>4. Done \in SUBSET rows
    BY <1>8 DEF Done
  <2>5. Cardinality(Done) \in Nat /\ Cardinality(run.block) = 0 /\ BlockSize \in Nat \ {0}
    BY <1>1, <1>3, <2>4, FS_Subset, FS_CardinalityType, FS_EmptySet DEF SearchQueueAssumption
  <2>6. Cardinality(Done) = BlockSize
    BY <1>1, <1>6, <2>3, <2>5 DEF QueueInv, BlockKept
  <2>7. run.cur = 0 /\ buffer = index
    BY <1>1, <1>6, <2>5, <2>6 DEF QueueInv, BlockKept, FlushKept
  <2>8. QED
    BY <1>2, <2>1, <2>2, <2>7
<1>10. CountKept'
  BY <1>2, <1>6, <1>9 DEF CountKept
<1>11. FlushKept'
  BY <1>1, <1>2, <1>6, <1>9 DEF FlushKept
<1>12. NothingForgotten'
  <2>1. SUFFICES ASSUME NEW d \in Docs
                 PROVE  buffer[d] = content[d] \/ GonePost(d) \/ Queued(d)' \/ d \in lost'
    BY <1>1 DEF NothingForgotten, GonePost
  <2>2. CASE ShownBy(d)
    BY <1>1, <2>2 DEF ShownBy, Queued
  <2>3. CASE Newer(d)
    <3>1. PICK r \in rows : r.doc = d /\ r \notin run.visible
      BY <2>3 DEF Newer
    <3>2. CASE r \in Below(run.last)
      BY <1>1, <3>1, <3>2
    <3>3. CASE r \notin Below(run.last)
      BY <1>1, <3>1, <3>3 DEF Queued
    <3>4. QED
      BY <3>2, <3>3
  <2>4. CASE \E r \in Left : r.doc = d
    BY <1>8, <2>4 DEF Queued
  <2>5. d \in lost => d \in lost'
    BY <1>1
  <2>6. QED
    BY <1>6, <2>2, <2>3, <2>4, <2>5 DEF QueueInv, BufferKept
<1>13. QED
  BY <1>4, <1>5, <1>7, <1>10, <1>11, <1>12 DEF QueueInv

\* At the end of a run, and when it dies, no block is open any more.
LEMMA ClosedInv ==
    ASSUME QueueInv, run' = Idle, UNCHANGED <<content, rows, nextId, writers>>,
           buffer' = index', buffer' \in {buffer, index}, lost \subseteq lost',
           \A d \in Docs : buffer'[d] = buffer[d] \/ d \in lost' \/ \E r \in rows : r.doc = d
    PROVE  QueueInv'
<1>1. run'.pc = "idle" /\ run' \in Run
  BY DEF Idle, Gone, Run
<1>2. RowsTyped' /\ IdsUnique'
  BY <1>1 DEF QueueInv, RowsTyped, IdsUnique
<1>3. ~InBlock' /\ BlockKept' /\ CountKept' /\ SeenKept' /\ BufferKept' /\ FlushKept'
  BY <1>1 DEF InBlock, BlockKept, CountKept, SeenKept, BufferKept, FlushKept
<1>4. \A d \in Docs : Queued(d)' = Queued(d) /\ GonePost(d)' = GonePost(d)
  BY DEF Queued, GonePost
<1>5. \A d \in Docs : (\E r \in rows : r.doc = d) => Queued(d)
  BY DEF Queued
<1>6. NothingForgotten'
  BY <1>4, <1>5 DEF QueueInv, NothingForgotten
<1>7. QED
  BY <1>2, <1>3, <1>6 DEF QueueInv

\* What the disk lacks is in the queue until the last row has been worked off.
LEMMA UnflushedQueued == ASSUME QueueInv PROVE UnflushedStillQueued
<1>1. SUFFICES ASSUME run.pc # "finish", NEW d \in Docs, buffer[d] # index[d]
               PROVE  \E r \in rows : r.doc = d
  BY DEF UnflushedStillQueued
<1>2. InBlock
  BY <1>1 DEF QueueInv, RowsTyped, Run, FlushKept, InBlock
<1>3. Done \subseteq rows
  BY <1>2 DEF QueueInv, BlockKept, Done
<1>4. QED
  BY <1>1, <1>2, <1>3 DEF QueueInv, FlushKept

LEMMA FinishInv == ASSUME QueueInv, Finish PROVE QueueInv'
<1>1. /\ run' = Idle /\ index' = buffer /\ buffer' = buffer /\ lost' = lost
      /\ UNCHANGED <<content, rows, nextId, writers>>
  BY DEF Finish
<1>2. QED
  BY <1>1, ClosedInv

LEMMA RunDiesInv == ASSUME QueueInv, RunDies PROVE QueueInv'
<1>1. run' = Idle /\ UNCHANGED <<content, rows, nextId, writers>>
  BY DEF RunDies
<1>2. CASE index' = buffer /\ buffer' = buffer /\ lost' = lost
  BY <1>1, <1>2, ClosedInv
<1>3. CASE /\ buffer' = index /\ index' = index
           /\ lost' = IF run.pc = "finish" THEN lost \cup {d \in Docs : buffer[d] # index[d]} ELSE lost
  <2>1. \A d \in Docs : index[d] = buffer[d] \/ d \in lost' \/ \E r \in rows : r.doc = d
    BY <1>3, UnflushedQueued DEF UnflushedStillQueued
  <2>2. lost \subseteq lost'
    BY <1>3
  <2>3. QED
    BY <1>1, <1>3, <2>1, <2>2, ClosedInv
<1>4. QED
  BY <1>2, <1>3 DEF RunDies

LEMMA StutterInv == ASSUME QueueInv, UNCHANGED vars PROVE QueueInv'
<1>1. UNCHANGED <<content, rows, nextId, writers, buffer, index, run, lost>>
  BY DEF vars
<1>2. RowsTyped' /\ IdsUnique'
  BY <1>1 DEF QueueInv, RowsTyped, IdsUnique
<1>3. InBlock' = InBlock /\ Done' = Done /\ Left' = Left
  BY <1>1 DEF InBlock, Done, Left
<1>4. BlockKept' /\ CountKept' /\ FlushKept'
  BY <1>1, <1>3 DEF QueueInv, BlockKept, CountKept, FlushKept
<1>5. \A c \in Docs : ShownBy(c)' = ShownBy(c) /\ Newer(c)' = Newer(c) /\ Queued(c)' = Queued(c)
                        /\ GonePost(c)' = GonePost(c)
  BY <1>1 DEF ShownBy, Newer, Queued, GonePost
<1>6. SeenKept' /\ BufferKept' /\ NothingForgotten'
  BY <1>1, <1>3, <1>5 DEF QueueInv, SeenKept, BufferKept, NothingForgotten
<1>7. QED
  BY <1>2, <1>4, <1>6 DEF QueueInv

-----------------------------------------------------------------------------
\* The strengthened invariant of the queue holds in every reachable state, if
\* a block is as long as the stretch between two flushes (both are 100).
THEOREM QueueInvariant ==
    ASSUME SearchQueueAssumption, BlockIsFlushed PROVE Spec => []QueueInv
<1>1. Init => QueueInv
  BY InitInv
<1>2. ASSUME QueueInv, [Next]_vars PROVE QueueInv'
  <2>1. CASE Request
    BY <1>2, <2>1, RequestInv
  <2>2. CASE Commit
    BY <1>2, <2>2, CommitPostInv, CommitRowInv DEF Commit
  <2>3. ASSUME NEW w \in writers, RequestDies(w) PROVE QueueInv'
    BY <1>2, <2>3, RequestDiesInv
  <2>4. CASE Job
    BY <1>2, <2>4, StartInv, FetchInv, IndexInv, FlushInv, RemoveInv, FinishInv DEF Job
  <2>5. CASE RunDies
    BY <1>2, <2>5, RunDiesInv
  <2>6. CASE UNCHANGED vars
    BY <1>2, <2>6, StutterInv
  <2>7. QED
    BY <1>2, <2>1, <2>2, <2>3, <2>4, <2>5, <2>6 DEF Next
<1>3. QED
  BY <1>1, <1>2, PTL DEF Spec

\* No change is forgotten between a component and the open index, and a row
\* stays queued until the index is on disk (search_update, select_blocks).
THEOREM QueueSafeHolds ==
    ASSUME SearchQueueAssumption, BlockIsFlushed PROVE Spec => []QueueIsSafe
<1>1. QueueInv => QueueIsSafe
  BY UnflushedQueued DEF QueueIsSafe, QueueInv
<1>2. QED
  BY <1>1, QueueInvariant, PTL
=============================================================================
