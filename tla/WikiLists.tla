------------------------------ MODULE WikiLists ------------------------------
(***************************************************************************)
(* The metadata of wiki pages (Page.update_meta) and the lists of pages    *)
(* that macros make of it (wiki/models.py and wiki/macros.py), the pages   *)
(* that are included as templates, and the compiled texts, which know the  *)
(* links to missing pages and the templates from when they were compiled.  *)
(* Then the table of the recent changes: the macro of that name with its   *)
(* pagination (utils/pagination.py).                                       *)
(*                                                                         *)
(* A request is one step here, WikiPage is about those that overlap; the   *)
(* list of all objects is the table, WikiSite is about its copy.           *)
(* A template takes no template itself: one that takes itself never ends.  *)
(***************************************************************************)
EXTENDS Integers, Sequences, FiniteSets, SequencesExt, FiniteSetsExt

CONSTANTS Names, MainPage, Templates,  \* names of pages; the main page's; those of templates
          Texts,      \* of pages: [links, rows, template]; the names linked to, the headers
          Redirect(_),\* the text that a renaming leaves behind
          Filters,    \* of MetaFilter: key -> [inc, exc], the values asked for and ruled out
          Similar,    \* pairs of names that are alike
          None,
          MaxPages,   \* bound: rows ever inserted
          MaxEdits,   \* bound: requests that write
          Pages, Zones,     \* those of the changes; numbers: how much further the clock is
          PerPages,         \* sizes of a part
          Spans,            \* numbers of days to look back
          DayLength,        \* in units of time
          MaxTime, MaxKept  \* bounds

VARIABLES page,      \* id -> [name, text, deleted, att], or None
          meta,      \* id -> its MetaData rows, pairs of a key and a value
          compiled,  \* text -> its render instructions [missing, texts], or None
          edits,     \* spent of MaxEdits
          behind,    \* history: pages whose template was saved after they were
          outdated,  \* history: texts that link to a page that has come or gone since they
                     \* were compiled, or whose template was saved
          now, revisions,   \* sequence of [page, at], the oldest first
          kept,      \* 'wiki/recent_changes/<days>-<part>' -> table, or None
          made       \* history: how and when a kept table was made

listVars == <<page, meta, compiled, edits, behind, outdated>>
changesVars == <<now, revisions, kept, made>>

Ids == 1..MaxPages
Empty == [links |-> {}, rows |-> {}, template |-> {}]   \* the text of a deletion
AllTexts == Texts \union {Empty} \union {Redirect(n) : n \in Names}

Used == {i \in Ids : page[i] # None}
Named(n) == {i \in Used : page[i].name = n}
TextOf(pages, n) == UNION {{pages[i].text} : i \in {j \in Ids : pages[j] # None /\ pages[j].name = n
                                                                 /\ ~pages[j].deleted}}

\* get_page_list
PageListOf(pages) == {pages[i].name : i \in {j \in Ids : pages[j] # None /\ ~pages[j].deleted
                                                         /\ ~pages[j].att}}
PageList == PageListOf(page)
AttachmentList == {page[i].name : i \in {j \in Used : ~page[j].deleted /\ page[j].att}}
Objects == {page[i].name : i \in {j \in Used : ~page[j].deleted}}

-----------------------------------------------------------------------------
(* Saving a page                                                            *)

Key(key, values) == {<<key, v>> : v \in values}

\* A text is parsed with its template, as it is now.
Parsed(pages, text) == {text} \union UNION {TextOf(pages, t) : t \in text.template}
LinksOf(pages, text) == UNION {t.links : t \in Parsed(pages, text)}

FindMeta(pages, text) ==
  UNION {t.rows \union Key("X-Link", t.links) : t \in Parsed(pages, text)}

\* The template is only named in it if it is there.
Attaches(pages, text) == Key("X-Attach", {t \in text.template : TextOf(pages, t) # {}})

\* What is there stays, what is new is added, the rest is removed.
UpdateMeta(old, new) == (old \intersect new) \union (new \ old)
UpdateMetaAdding(old, new) == old \union new
MetaUpdated(old, new) == UpdateMeta(old, new)

\* Instructions are kept with a text, whatever page has it.
Compile(pages, text) ==
  [missing |-> LinksOf(pages, text) \ PageListOf(pages), texts |-> Parsed(pages, text)]

\* The rows that are written, with what they were and are named.
Saved(pages, rows) ==
  LET names == {pages[i].name : i \in rows} \union {page[i].name : i \in rows \intersect Used}
      changed == {n \in names : (n \in PageListOf(pages)) # (n \in PageList)} IN
  /\ edits < MaxEdits /\ edits' = edits + 1
  /\ page' = pages
  /\ meta' = [i \in Ids |-> IF i \in rows
                THEN MetaUpdated(meta[i], FindMeta(pages, pages[i].text) \union Attaches(pages, pages[i].text))
                ELSE meta[i]]
  /\ behind' = {i \in Ids : pages[i] # None
                              /\ \/ i \in behind \ rows
                                 \/ i \notin rows /\ pages[i].text.template \intersect names # {}}
  /\ outdated' = outdated \union {t \in AllTexts : LinksOf(page, t) \intersect changed # {}
                                                   \/ t.template \intersect names # {}}
  /\ UNCHANGED compiled

Row(n, text, deleted, att) == [name |-> n, text |-> text, deleted |-> deleted, att |-> att]

Allowed(n, text) == n \in Templates => text.template = {}

\* do_edit, do_attach of a page or an attachment that is new or changes its text.
Create(n, text, att) ==
  /\ Named(n) = {} /\ Allowed(n, text)
  /\ \E i \in {1 + Cardinality(Used)} \intersect Ids :
       Saved([page EXCEPT ![i] = Row(n, text, FALSE, att)], {i})

\* An attachment that is deleted stays so.
Edit(n, text) ==
  \E i \in Named(n) :
    /\ page[i].text # text /\ Allowed(n, text)
    /\ page[i].att => ~page[i].deleted
    /\ Saved([page EXCEPT ![i] = [@ EXCEPT !.text = text, !.deleted = FALSE]], {i})

Delete(n) == \E i \in Named(n) :
  /\ ~page[i].deleted
  /\ Saved([page EXCEPT ![i] = [@ EXCEPT !.text = Empty, !.deleted = TRUE]], {i})

\* The text may be any the page has had.
Revert(n, text) == \E i \in Named(n) :
  /\ Allowed(n, text)
  /\ Saved([page EXCEPT ![i] = [@ EXCEPT !.text = text, !.deleted = FALSE]], {i})

\* do_rename of a page without attachments, with or without a redirect.
Rename(n, m, redirect) ==
  \E i \in Named(n) :
    /\ ~page[i].deleted /\ Named(m) = {} /\ Allowed(m, page[i].text)
    /\ LET moved == [page EXCEPT ![i] = [@ EXCEPT !.name = m]]
           new == 1 + Cardinality(Used) IN
       IF redirect
       THEN new \in Ids /\ Saved([moved EXCEPT ![new] = Row(n, Redirect(m), FALSE, FALSE)], {i, new})
       ELSE Saved(moved, {i})

-----------------------------------------------------------------------------
(* Showing a page                                                           *)

\* touch_html_render_instructions
Show(n) == \E i \in Named(n) :
  /\ compiled[page[i].text] = None
  /\ compiled' = [compiled EXCEPT ![page[i].text] = Compile(page, page[i].text)]
  /\ outdated' = outdated \ {page[i].text}
  /\ UNCHANGED <<page, meta, edits, behind>>

\* do_prune compiles anew.
Recompiled(text) == Compile(page, text)
Instructions(text) == Recompiled(text)
Prune(n) == \E i \in Named(n) :
  /\ page[i].text \in outdated
  /\ compiled' = [compiled EXCEPT ![page[i].text] = Instructions(page[i].text)]
  /\ outdated' = outdated \ {page[i].text}
  /\ UNCHANGED <<page, meta, edits, behind>>

-----------------------------------------------------------------------------
(* The lists                                                                *)

Values(i, key) == {row[2] : row \in {r \in meta[i] : r[1] = key}}
AllValues(key) == UNION {Values(i, key) : i \in Ids}

GetOrphans == (PageList \ (AllValues("X-Link") \union AllValues("X-Redirect"))) \ {MainPage}

\* The names of deleted pages are looked up, too, but not added.
GetMissing == AllValues("X-Link") \ {page[i].name : i \in Used}

Tags == AllValues("tag")
TagCount(tag) == Cardinality({i \in Ids : tag \in Values(i, "tag")})
TagCloud(max) == {<<t, TagCount(t)>> : t \in
                    {x \in Tags : Cardinality({y \in Tags : TagCount(y) > TagCount(x)}) < max}}
FindByMetadata(key, value) == {page[i].name : i \in {j \in Used : value \in Values(j, key)}}
TagList(tag) == FindByMetadata("tag", tag)
Backlinks(n) == FindByMetadata("X-Link", n)
Embedders(n) == FindByMetadata("X-Attach", n)

\* The key of RedirectPages is an old one, which no renaming writes.
RedirectPages == {page[i].name : i \in {j \in Used : Values(j, "weiterleitung") # {}}}

\* RandomPageList compares names with pages, so that nothing is left out.
RandomPages == PageList

SimilarPages(n) == {m \in Objects \ {n} : <<n, m>> \in Similar}

\* MetaFilter: one of the values of one key, then for one key just these values.
FilterByMetaData(filter) ==
  LET found == {i \in Used : \E k \in DOMAIN filter : Values(i, k) \intersect filter[k].inc # {}} IN
  {i \in found : \E k \in DOMAIN filter : /\ Values(i, k) \intersect filter[k].exc = {}
                                          /\ Values(i, k) = filter[k].inc}

-----------------------------------------------------------------------------

Init == /\ page = [i \in Ids |-> None] /\ meta = [i \in Ids |-> {}]
        /\ compiled = [t \in AllTexts |-> None]
        /\ edits = 0 /\ behind = {} /\ outdated = {}

Next == \E n \in Names :
          \/ \E text \in Texts : \/ \E att \in BOOLEAN : Create(n, text, att)
                                 \/ Edit(n, text) \/ Revert(n, text)
          \/ Delete(n) \/ Show(n) \/ Prune(n)
          \/ \E m \in Names \ {n}, redirect \in BOOLEAN : Rename(n, m, redirect)

Spec == Init /\ [][Next]_listVars

-----------------------------------------------------------------------------

Contents(i) == Parsed(page, page[i].text)
RowsIn(i, key) == {row[2] : row \in {r \in UNION {t.rows : t \in Contents(i)} : r[1] = key}}
Linked == UNION {LinksOf(page, page[i].text) : i \in Used}
Redirected == UNION {RowsIn(i, "X-Redirect") : i \in Used}
ExistingTags == UNION {RowsIn(i, "tag") : i \in Used}

\* The lists tell what the newest texts say, as long as every page was saved after its
\* template; a page's own lists tell who links to it and who takes it as a template.  A
\* link to a deleted page is not missed.  A filter with several keys and no exclusions
\* finds the pages that have, for one of the keys, just the values asked for.
ListsFollowTexts ==
  behind = {} =>
    /\ GetOrphans = {n \in PageList \ {MainPage} : n \notin Linked \union Redirected}
    /\ GetMissing = {n \in Linked : Named(n) = {}}
    /\ \A n \in Names :
         /\ Backlinks(n) = {page[i].name : i \in {j \in Used : n \in LinksOf(page, page[j].text)}}
         /\ Embedders(n) = {page[i].name : i \in {j \in Used : n \in page[j].text.template
                                                               /\ TextOf(page, n) # {}}}
    /\ \A cloud \in {TagCloud(Cardinality(Tags))} :
         cloud = {<<t, Cardinality({i \in Used : t \in RowsIn(i, "tag")})>> : t \in ExistingTags}
    /\ \A filter \in Filters :
         (\A k \in DOMAIN filter : filter[k].exc = {} /\ filter[k].inc # {}) =>
           FilterByMetaData(filter)
           = {i \in Used : \E k \in DOMAIN filter : RowsIn(i, k) = filter[k].inc}

\* The lists draw all their links as links to pages that exist; but for the missing pages,
\* they do.
ListedExist ==
  PageList \union AttachmentList \union GetOrphans \union RandomPages \union RedirectPages
    \union UNION {TagList(tag) : tag \in Tags} \union UNION {SimilarPages(n) : n \in Names}
    \union {page[i].name : i \in UNION {FilterByMetaData(filter) : filter \in Filters}}
  \subseteq Objects

\* What a page shows of other pages is as they are, as long as none of them has come or
\* gone, and no template was saved, since its text was compiled.
CompiledFollowsPages ==
  \A t \in AllTexts : compiled[t] # None /\ t \notin outdated => compiled[t] = Compile(page, t)

ListsAreTrue == ListsFollowTexts /\ ListedExist /\ CompiledFollowsPages

-----------------------------------------------------------------------------
(* The recent changes: a part of the newest revisions divided among days,   *)
(* and those of a day among pages.  A table is kept for a while under the   *)
(* number of days and the number of its part, with the time zone and the    *)
(* size of part of whoever came first.                                      *)

Keys == Spans \X (1..MaxTime)
Day(rev, zone) == (rev.at + zone) \div DayLength

-----------------------------------------------------------------------------
(* Making a table                                                           *)

\* The newest revisions first.
Recent(span) == Reverse(SelectSeq(revisions, LAMBDA r : r.at > now - span * DayLength))

Offset(part, size) == (part - 1) * size
Part(revs, part, size) ==
  SubSeq(revs, Offset(part, size) + 1,
         IF Offset(part, size) + size < Len(revs) THEN Offset(part, size) + size ELSE Len(revs))

MaxParts(revs, size) == IF revs = <<>> THEN 1 ELSE (Len(revs) - 1) \div size + 1

\* A day is begun by its first revision; others go to the day begun last.
AddToDays(days, rev, zone) ==
  LET day == Day(rev, zone) IN
  IF \E i \in DOMAIN days : days[i].day = day
  THEN [days EXCEPT ![Len(days)].revs = Append(@, rev)]
  ELSE Append(days, [day |-> day, revs |-> <<rev>>])
Days(revs, zone) == FoldLeft(LAMBDA days, rev : AddToDays(days, rev, zone), <<>>, revs)

\* The buffer of a day: its pages with their revisions, in the order of time, the page
\* that was changed last in front.
OfPage(revs, p) == SelectSeq(revs, LAMBDA r : r.page = p)
LastChange(x) == Last(x.revs).at
SortedBy(x) == LastChange(x)
PageBuffer(revs) ==
  LET changes == Reverse(revs)
      rows == {[page |-> p, revs |-> OfPage(changes, p)] : p \in {r.page : r \in Range(changes)}}
  IN SetToSortSeq(rows, LAMBDA x, y : SortedBy(x) > SortedBy(y))

Table(revs, zone) ==
  LET days == Days(revs, zone) IN
  [i \in DOMAIN days |-> [day |-> days[i].day, rows |-> PageBuffer(days[i].revs)]]

-----------------------------------------------------------------------------

ChangesInit ==
        /\ now = 0 /\ revisions = <<>>
        /\ kept = [k \in Keys |-> None] /\ made = [k \in Keys |-> None]

Change(p) == /\ now < MaxTime
             /\ now' = now + 1
             /\ revisions' = Append(revisions, [page |-> p, at |-> now'])
             /\ UNCHANGED <<kept, made>>

Wait == /\ now < MaxTime /\ now' = now + 1
        /\ UNCHANGED <<revisions, kept, made>>

\* build_node for the first visitor; the next ones get the kept table.  There is no page
\* behind the last part.
BuildNode(span, part, zone, size) ==
  LET key == <<span, part>>
      revs == Recent(span) IN
  /\ kept[key] = None
  /\ Cardinality({k \in Keys : kept[k] # None}) < MaxKept
  /\ part <= MaxParts(revs, size)
  /\ kept' = [kept EXCEPT ![key] = Table(Part(revs, part, size), zone)]
  /\ made' = [made EXCEPT ![key] = [zone |-> zone, size |-> size, now |-> now]]
  /\ UNCHANGED <<now, revisions>>

\* The cache drops a table after a while.
Expire(key) == /\ kept[key] # None
               /\ kept' = [kept EXCEPT ![key] = None] /\ made' = [made EXCEPT ![key] = None]
               /\ UNCHANGED <<now, revisions>>

ChangesNext ==
        \/ \E p \in Pages : Change(p)
        \/ Wait
        \/ \E span \in Spans, part \in 1..MaxTime, zone \in Zones, size \in PerPages :
             BuildNode(span, part, zone, size)
        \/ \E key \in Keys : Expire(key)

ChangesSpec == ChangesInit /\ [][ChangesNext]_changesVars

-----------------------------------------------------------------------------

\* A revision is in part k if that many parts of newer ones were there when the table was
\* made, and it was not too old then.
BelongsTo(rev, span, part, how) ==
  LET newer == {r \in Range(revisions) : rev.at < r.at /\ r.at <= how.now} IN
  /\ rev.at <= how.now /\ rev.at > how.now - span * DayLength
  /\ Cardinality(newer) \div how.size = part - 1

Entries(table) == {<<i, j, k>> \in (DOMAIN table) \X (1..MaxTime) \X (1..MaxTime) :
                     j \in DOMAIN table[i].rows /\ k \in DOMAIN table[i].rows[j].revs}
At(table, e) == table[e[1]].rows[e[2]].revs[e[3]]

\* A visitor sees every revision of the part once, under the day it has in the time zone
\* of whoever made the table, the newest day first; a page has one row a day, with its
\* revisions in order, and the page changed last comes first.
ShowsPart(span, part, table, how) ==
  /\ {At(table, e) : e \in Entries(table)}
     = {r \in Range(revisions) : BelongsTo(r, span, part, how)}
  /\ \A e, f \in Entries(table) : e # f => At(table, e) # At(table, f)
  /\ \A e \in Entries(table) : /\ Day(At(table, e), how.zone) = table[e[1]].day
                               /\ At(table, e).page = table[e[1]].rows[e[2]].page
  /\ \A i, j \in DOMAIN table : i < j => table[i].day > table[j].day
  /\ \A e, f \in Entries(table) :
       /\ e[1] = f[1] /\ e[2] = f[2] /\ e[3] < f[3] => At(table, e).at < At(table, f).at
       /\ e[1] = f[1] /\ At(table, e).page = At(table, f).page => e[2] = f[2]
       /\ e[1] = f[1] /\ e[2] < f[2] => \E g \in Entries(table) :
            g[1] = e[1] /\ g[2] = e[2] /\ At(table, g).at > At(table, f).at

EveryChangeOnce ==
  \A key \in Keys : kept[key] # None => ShowsPart(key[1], key[2], kept[key], made[key])
=============================================================================
