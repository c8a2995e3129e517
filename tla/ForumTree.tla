------------------------------ MODULE ForumTree ------------------------------
(***************************************************************************)
(* The forums themselves: their rows, and how everybody reads them through *)
(* two caches (ForumQuery in forum/models.py), one that maps ids to slugs  *)
(* for a day and one with a forum under each slug for five minutes, while  *)
(* administrators create and edit forums (forum_edit in admin/views.py).   *)
(*                                                                         *)
(* A request that reads is one step.  One that writes takes two: the flush *)
(* with its hooks, which drop cached entries, and the commit.              *)
(***************************************************************************)
EXTENDS Naturals, FiniteSets

CONSTANTS Ids,        \* forums
          Root,       \* the category that is there from the start
          Slugs,
          Nil,
          MaxForumEdits   \* bound: administrators at work

VARIABLES forumRow, \* forum -> [slug, parent], or Nil
          map,      \* cache 'forum/slugs': forum -> slug, or Nil
          copy,     \* cache 'forum/forums/<slug>': [id, slug, parent], or Nil
          forumEdits, \* flushed and not committed: [id, slug, parent, new], Nil for what stays
          renamed,  \* history: a slug was changed behind the cached map
          mapRaced, \* history: the map was read between flush and commit of a new forum
          astray    \* history: with the map not raced, who asked for a forum got another one, none
           \* or an error, or is still looking for the last of its parents

treeVars == <<forumRow, map, copy, forumEdits, renamed, mapRaced, astray>>

TreeRow == [slug : Slugs, parent : Ids \union {Nil}]
TreeCopy == [id : Ids, slug : Slugs, parent : Ids \union {Nil}]

\* What is not there is no forum, no slug, no row and no copy.
TreeAssumption == /\ Root \in Ids /\ Nil \notin Ids /\ Nil \notin Slugs
                  /\ Nil \notin TreeRow /\ Nil \notin TreeCopy

There == {i \in Ids : forumRow[i] # Nil}

TreeInit == /\ \E s \in Slugs :
                 forumRow = [i \in Ids |-> IF i = Root THEN [slug |-> s, parent |-> Nil] ELSE Nil]
            /\ map = Nil /\ copy = [s \in Slugs |-> Nil]
            /\ forumEdits = {} /\ renamed = FALSE /\ mapRaced = FALSE /\ astray = FALSE

-----------------------------------------------------------------------------
(* Reading                                                                  *)

RowCopy(i) == [id |-> i, slug |-> forumRow[i].slug, parent |-> forumRow[i].parent]
WithSlug(s) == {i \in There : forumRow[i].slug = s}
Table == [i \in There |-> forumRow[i].slug]

\* get_slugs
MapNow == IF map = Nil THEN Table ELSE map

\* get_cached of one slug: the copy, or the row with the slug, which becomes the copy
Got(s) == IF copy[s] # Nil THEN copy[s]
          ELSE IF WithSlug(s) = {} THEN Nil ELSE RowCopy(CHOOSE i \in WithSlug(s) : TRUE)
Filled(s) == [copy EXCEPT ![s] = Got(s)]

\* ForumQuery.get of an id, which goes by the slug the map has for it.
ById(i) == IF i \in DOMAIN MapNow THEN Got(MapNow[i]) ELSE Nil

\* get_all_forums_cached: the copies there are, and the rows of the forums that have
\* none.  A row that is not found under the slug of the map is a KeyError.
KnownSlugs == {MapNow[i] : i \in DOMAIN MapNow}
MissingForums == {i \in DOMAIN MapNow : copy[MapNow[i]] = Nil}
AllFound == \A i \in MissingForums : \E j \in There :
              /\ forumRow[j].slug = MapNow[i]
              /\ j \in MissingForums \/ MissingForums = DOMAIN MapNow
AllFilled == [s \in Slugs |-> IF s \in KnownSlugs THEN Got(s) ELSE copy[s]]
ShownForums == {AllFilled[s] : s \in KnownSlugs} \ {Nil}

\* Forum.parents looks for every parent among those, and ends at a forum that has none.
ParentsFound == \A c \in ShownForums : c.parent # Nil => \E d \in ShownForums : d.id = c.parent
Endless(f) == \E C \in SUBSET ShownForums : f \in C /\ \A c \in C : \E d \in C : d.id = c.parent

RacedBy(m) == mapRaced \/ (map = Nil /\ m # Nil /\ \E e \in forumEdits : e.new)

Asked(m, c, wrong) == /\ map' = m /\ copy' = c /\ mapRaced' = RacedBy(m)
                      /\ astray' = (astray \/ (wrong /\ ~mapRaced'))

\* The index, and every page that lists the forums one may choose from.
Index == /\ Asked(MapNow, IF AllFound THEN AllFilled ELSE copy, ~AllFound \/ ~ParentsFound)
         /\ UNCHANGED <<forumRow, forumEdits, renamed>>

\* A page under the slug of a forum
ShowForum(s) == /\ copy' = Filled(s)
                /\ UNCHANGED <<forumRow, map, forumEdits, renamed, mapRaced, astray>>

\* Whoever looks up a forum by its id, for example a new topic, which goes on to the
\* parents to count itself.
LookUp(i) ==
  /\ i \in There
  /\ LET f == ById(i) IN
     Asked(MapNow, IF i \in DOMAIN MapNow THEN Filled(MapNow[i]) ELSE copy,
           f = Nil \/ (f # Nil /\ (f.id # i \/ Endless(f))))
  /\ UNCHANGED <<forumRow, forumEdits, renamed>>

\* Time passes, or the space is needed.
TreeExpires == /\ \/ /\ map # Nil /\ map' = Nil /\ renamed' = FALSE /\ mapRaced' = FALSE
                     /\ UNCHANGED copy
                  \/ /\ \E s \in Slugs : copy[s] # Nil /\ copy' = [copy EXCEPT ![s] = Nil]
                     /\ UNCHANGED <<map, renamed, mapRaced>>
               /\ UNCHANGED <<forumRow, forumEdits, astray>>

-----------------------------------------------------------------------------
(* Writing: forum_edit                                                      *)

\* A parent is chosen among the forums that are listed and looked up by its id, even one
\* below the forum itself, but not the forum (the flush fails); or none is.
Chosen(q) == \/ q = Nil
             \/ \E c \in ShownForums : c.id = q /\ ById(q) # Nil

\* Slugs are unique: a slug another transaction has taken is waited for.
Free(t) == WithSlug(t) = {} /\ \A e \in forumEdits : e.slug # t

\* Hooks: the slug's copy goes, and the map for a new forum only.
MapKept(m) == m
MapDropped(m) == Nil

\* The columns that differ from what was read are written; with none of them no hook runs.
BeginForumEdit(s, t, q) ==
  /\ Cardinality(forumEdits) < MaxForumEdits
  /\ Got(s) # Nil /\ AllFound
  /\ t # s => Free(t)
  /\ Chosen(q) /\ q # Got(s).id
  /\ LET f == Got(s)
         e == [id |-> f.id, slug |-> IF t = f.slug THEN Nil ELSE t,
               parent |-> IF q = f.parent THEN Nil ELSE q, new |-> FALSE] IN
     /\ e.slug # Nil \/ e.parent # Nil
     /\ \A d \in forumEdits : d.id # f.id
     /\ forumEdits' = forumEdits \union {e}
  /\ map' = MapNow
  /\ copy' = [AllFilled EXCEPT ![t] = Nil]
  /\ mapRaced' = RacedBy(MapNow)
  /\ UNCHANGED <<forumRow, renamed, astray>>

BeginCreate(t, q) ==
  /\ Cardinality(forumEdits) < MaxForumEdits
  /\ AllFound /\ Chosen(q) /\ Free(t)
  /\ \E i \in Ids \ There : /\ \A d \in forumEdits : d.id # i
                            /\ forumEdits' = forumEdits \union
                                   {[id |-> i, slug |-> t, parent |-> q, new |-> TRUE]}
  /\ map' = MapDropped(MapNow)
  /\ renamed' = (renamed /\ map' # Nil) /\ mapRaced' = (mapRaced /\ map' # Nil)
  /\ copy' = [AllFilled EXCEPT ![t] = Nil]
  /\ UNCHANGED <<forumRow, astray>>

ChangedForum(e) == [slug |-> IF e.slug = Nil THEN forumRow[e.id].slug ELSE e.slug,
                    parent |-> IF e.parent = Nil /\ ~e.new THEN forumRow[e.id].parent ELSE e.parent]

CommitForum(e) ==
  /\ e \in forumEdits
  /\ forumEdits' = forumEdits \ {e}
  /\ forumRow' = [forumRow EXCEPT ![e.id] = ChangedForum(e)]
  /\ renamed' = (renamed \/ (map # Nil /\ ~e.new /\ e.slug # Nil))
  /\ UNCHANGED <<map, copy, mapRaced, astray>>

RollbackForum(e) == /\ e \in forumEdits
                    /\ forumEdits' = forumEdits \ {e}
                    /\ UNCHANGED <<forumRow, map, copy, renamed, mapRaced, astray>>

TreeNext == \/ Index \/ TreeExpires
            \/ \E s \in Slugs : ShowForum(s)
            \/ \E i \in Ids : LookUp(i)
            \/ \E s, t \in Slugs, q \in Ids \union {Nil} : BeginForumEdit(s, t, q)
            \/ \E t \in Slugs, q \in Ids \union {Nil} : BeginCreate(t, q)
            \/ \E e \in forumEdits : CommitForum(e) \/ RollbackForum(e)

TreeSpec == TreeInit /\ [][TreeNext]_treeVars

-----------------------------------------------------------------------------

TreeTypeOK == /\ \A i \in There : forumRow[i].slug \in Slugs /\ forumRow[i].parent \in Ids \union {Nil}
              /\ map # Nil => DOMAIN map \subseteq Ids
              /\ \A s \in Slugs : copy[s] # Nil => copy[s].id \in Ids
              /\ Cardinality(forumEdits) <= MaxForumEdits

\* Whoever asks for a forum that exists gets it, and the index shows them all, until a
\* slug is changed or a new forum is committed behind the map another request has
\* cached; once that map has expired, all is well again.
ForumsFound ==
  ~renamed /\ ~mapRaced =>
    /\ AllFound /\ ParentsFound
    /\ \A i \in There : ById(i) # Nil /\ ById(i).id = i

\* Forum.query.get, which is to "query the id but accept an slug too", finds the forum
\* with the id, and Forum.parents the forums above it "up to the root level".
AsksAreAnswered == ~astray
=============================================================================
