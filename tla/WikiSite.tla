------------------------------ MODULE WikiSite ------------------------------
(***************************************************************************)
(* The pages and attachments of the wiki under their names (wiki/models.py *)
(* and wiki/actions.py), and what is cached of them: the newest revision   *)
(* of a name, the list of all names, the rules that pages with an X-Behave *)
(* header hold (wiki/storage.py).  WikiPage is about requests that overlap *)
(* on one page; here a request is one step.                                *)
(***************************************************************************)
EXTENDS Naturals, FiniteSets, Sequences

CONSTANTS Sites,       \* what names begin with
          Plain,       \* texts
          Rules,       \* texts with an X-Behave header
          Nil,
          MaxPages     \* bound: rows ever inserted

Roots == {<<s>> : s \in Sites}     \* names of pages: their parts
Below(r) == Append(r, "x")         \* the name of something attached to r
PageNames == Roots \union {Below(r) : r \in Roots}
PageIds == 1..MaxPages
NoText == "empty"                  \* the text of a deletion

SiteTexts == {Plain, NoText} \union Rules
SiteRow == [name : PageNames, text : SiteTexts, deleted : BOOLEAN, att : BOOLEAN]
SiteCopy == [id : PageIds, text : SiteTexts, deleted : BOOLEAN, att : BOOLEAN]
SiteEntry == [name : PageNames, deleted : BOOLEAN, att : BOOLEAN]

\* Nil is no row and no copy of one, and neither plain texts nor deletions have rules.
SiteAssumption ==
  /\ MaxPages \in Nat /\ {Plain, NoText} \intersect Rules = {}
  /\ Nil \notin SiteRow \union SiteCopy

VARIABLES page,    \* id -> row with its newest revision, or Nil
          nextId,  \* its AUTO_INCREMENT
          copy,    \* cache: 'wiki/page/<name>' -> [id, text, deleted, att] or Nil
          list,    \* cache: 'wiki/object_list', a set of [name, deleted, att], or Nil
          rules,   \* cache: 'wiki/storage/...', the rules in force, or Nil
          ghosts,  \* history: names under which a renaming has left a copy
          spoilt,  \* history: the cached list has missed a restored revision, or a name given
                   \* back through such a copy
          retired  \* history: a page with rules lost them behind the cached ones

siteVars == <<page, nextId, copy, list, rules, ghosts, spoilt, retired>>

SiteInit == /\ page = [i \in PageIds |-> Nil] /\ nextId = 1
            /\ copy = [n \in PageNames |-> Nil] /\ list = Nil /\ rules = Nil
            /\ ghosts = {} /\ spoilt = FALSE /\ retired = FALSE

Stored == {i \in PageIds : page[i] # Nil}
NextIds == {nextId} \intersect PageIds
Named(n) == {i \in Stored : page[i].name = n}

\* get_by_name: the copy, or else the newest revision, which becomes the copy.
CopyOf(i) == [id |-> i, text |-> page[i].text, deleted |-> page[i].deleted, att |-> page[i].att]
Got(n) == IF copy[n] # Nil THEN copy[n]
          ELSE IF Named(n) = {} THEN Nil ELSE CopyOf(CHOOSE i \in Named(n) : TRUE)
Refetched(S) == [n \in PageNames |-> IF n \in S THEN Got(n) ELSE copy[n]]

Table == {[name |-> page[i].name, deleted |-> page[i].deleted, att |-> page[i].att] : i \in Stored}
Listed == IF list = Nil THEN Table ELSE list
InForce == {page[i].text : i \in {j \in Stored : ~page[j].deleted}} \intersect Rules

\* get_attachment_list of a page
Attached(n, entries) == {e.name : e \in {x \in entries : x.att /\ n \in Roots /\ x.name = Below(n)}}

-----------------------------------------------------------------------------
(* What saving a page does to the caches                                    *)

Dropped(c, n) == [c EXCEPT ![n] = Nil]

Uncached(c, names) == [n \in PageNames |-> IF n \in names THEN Dropped(c, n)[n] ELSE c[n]]

\* The rules are forgotten when a page with rules is saved, not when one ceases
\* to have any.
SaveRules(texts, gone) ==
  /\ rules' = IF texts \intersect Rules # {} THEN Nil ELSE rules
  /\ retired' = (rules' # Nil /\ (retired \/ gone \intersect Rules # {}))

\* page.edit: a revision of row i, which is saved with the name it was fetched under.
\* The list is forgotten when the page is deleted or brought back.
EditRow(i, n, text, deleted, copies) ==
  /\ page[i] # Nil
  /\ Named(n) \subseteq {i}
  /\ page' = [page EXCEPT ![i] = [@ EXCEPT !.name = n, !.text = text, !.deleted = deleted]]
  /\ copy' = Dropped(copies, n)
  /\ list' = IF page[i].deleted # deleted THEN Nil ELSE list
  /\ spoilt' = (list' # Nil /\ (spoilt \/ page[i].name # n))
  /\ SaveRules({text}, {page[i].text} \ {text})
  /\ UNCHANGED nextId
  /\ ghosts' = (ghosts \union {page[i].name}) \ {n}

\* Page.objects.create
CreateRow(n, text, att, copies) ==
  /\ Named(n) = {}
  /\ \E i \in NextIds :
       /\ page' = [page EXCEPT ![i] = [name |-> n, text |-> text, deleted |-> FALSE, att |-> att]]
       /\ nextId' = i + 1
  /\ copy' = Dropped(copies, n)
  /\ list' = Nil /\ spoilt' = FALSE
  /\ SaveRules({text}, {})
  /\ ghosts' = ghosts \ {n}

-----------------------------------------------------------------------------
(* The actions of a page                                                    *)

\* do_show and whatever else reads a page, the list or the rules
Show(n) == /\ copy[n] = Nil /\ Got(n) # Nil
           /\ copy' = Refetched({n})
           /\ UNCHANGED <<page, nextId, list, rules, ghosts, spoilt, retired>>

ListPages == /\ list = Nil /\ list' = Table
             /\ UNCHANGED <<page, nextId, copy, rules, ghosts, spoilt, retired>>

AskRules == /\ rules = Nil /\ rules' = InForce
            /\ UNCHANGED <<page, nextId, copy, list, ghosts, spoilt, retired>>

\* The cache drops something; do_prune drops a copy.
Forget == /\ \/ \E n \in PageNames : copy[n] # Nil /\ copy' = Dropped(copy, n)
                                 /\ ghosts' = ghosts \ {n}
                                 /\ UNCHANGED <<list, rules, spoilt, retired>>
             \/ list # Nil /\ list' = Nil /\ spoilt' = FALSE
                /\ UNCHANGED <<copy, rules, ghosts, retired>>
             \/ rules # Nil /\ rules' = Nil /\ retired' = FALSE
                /\ UNCHANGED <<copy, list, ghosts, spoilt>>
          /\ UNCHANGED <<page, nextId>>

\* do_edit reads the table; an attachment goes on to do_attach_edit, which reads the
\* copy and leaves a deleted attachment deleted.
Edit(n, text) ==
  IF Named(n) = {} THEN CreateRow(n, text, FALSE, copy)
  ELSE LET i == CHOOSE j \in Named(n) : TRUE IN
       IF page[i].att
       THEN LET c == Got(n) IN
            EditRow(c.id, n, IF page[c.id].deleted THEN NoText ELSE text, page[c.id].deleted, copy)
       ELSE page[i].text # text /\ EditRow(i, n, text, FALSE, copy)

\* do_delete
DeletePage(n) == /\ Got(n) # Nil /\ ~Got(n).deleted
                 /\ EditRow(Got(n).id, n, NoText, TRUE, copy)

\* do_attach: a form in the page r; what is there already is replaced with "override",
\* and stays deleted.
Upload(r) ==
  /\ Got(r) # Nil /\ ~Got(r).att
  /\ \A n \in Attached(r, {e \in Listed : ~e.deleted}) : Got(n) # Nil
  /\ LET n == Below(r)
         seen == Refetched({r} \union Attached(r, {e \in Listed : ~e.deleted})) IN
     IF Got(n) = Nil THEN CreateRow(n, Plain, TRUE, seen)
     ELSE LET c == Got(n) IN
          /\ c.att
          /\ page[c.id] # Nil
          /\ EditRow(c.id, n, IF page[c.id].deleted THEN NoText ELSE Plain, page[c.id].deleted, seen)

\* do_manage_discussion: nothing of the row that is modelled changes.
ManageDiscussion(n) == /\ Named(n) # {}
                       /\ copy' = Dropped(copy, n) /\ ghosts' = ghosts \ {n}
                       /\ SaveRules({page[i].text : i \in Named(n)}, {})
                       /\ UNCHANGED <<page, nextId, list, spoilt>>

\* do_revert: the list is not forgotten.  A page may have had any text before.
Revert(n, text) ==
  \E i \in Named(n) :
    /\ page' = [page EXCEPT ![i] = [@ EXCEPT !.text = text, !.deleted = FALSE]]
    /\ copy' = Dropped(copy, n) /\ ghosts' = ghosts \ {n}
    /\ SaveRules({text}, {page[i].text} \ {text})
    /\ spoilt' = (spoilt \/ (list # Nil /\ page[i].deleted))
    /\ UNCHANGED <<nextId, list>>

-----------------------------------------------------------------------------
(* do_rename                                                                *)

\* The attachments that move along are those in the list.
NoneMoves(n) == {}
Moving(n) == Attached(n, {e \in Listed : ~e.deleted})

\* Attachments of either page, the deleted ones too, with one name but for the page's;
\* those of the new name are deleted for good if the user forces that.
Duplicates(n, m) == IF Attached(n, Listed) = {} THEN {} ELSE Attached(m, Listed)

Rename(n, m, redirect) ==
  LET c == Got(n)
      removed == UNION {Named(d) : d \in Duplicates(n, m)}
      moved == UNION {Named(a) : a \in Moving(n)}
      arriving == {m} \union (IF moved = {} THEN {} ELSE {Below(m)}) IN
  /\ c # Nil /\ ~c.deleted /\ page[c.id] # Nil
  /\ n # m /\ Got(m) = Nil
  /\ n \in Roots => m \in Roots
  \* A name that is taken, or an attachment that is gone, fails the request.
  /\ \A d \in Duplicates(n, m) : Named(d) # {}
  /\ \A a \in Moving(n) : Named(a) # {} /\ Named(Below(m)) \subseteq removed
  /\ \E new \in IF redirect THEN {{i} : i \in NextIds} ELSE {{}} :
       /\ page' = [i \in PageIds |->
                     CASE i \in removed -> Nil
                       [] i \in {c.id} \ removed -> [page[i] EXCEPT !.name = m]
                       [] i \in moved \ (removed \union {c.id}) -> [page[i] EXCEPT !.name = Below(m)]
                       [] i \in new -> [name |-> n, text |-> Plain, deleted |-> FALSE, att |-> FALSE]
                       [] OTHER -> page[i]]
       /\ nextId' = nextId + Cardinality(new)
  \* The copies of what was fetched stay, but for those under the names now given.
  /\ copy' = Uncached(Refetched(Duplicates(n, m) \union Moving(n)), arriving \union {n})
  /\ ghosts' = (ghosts \union {page[c.id].name} \union Duplicates(n, m) \union Moving(n))
                \ (arriving \union {n})
  /\ list' = Nil /\ spoilt' = FALSE
  /\ SaveRules({page[c.id].text} \union {page[i].text : i \in moved},
               {page[i].text : i \in removed})

SiteNext == \/ \E n \in PageNames : \/ Show(n) \/ DeletePage(n) \/ ManageDiscussion(n)
                                \/ \E text \in {Plain} \union Rules : Edit(n, text) \/ Revert(n, text)
                                \/ \E m \in PageNames, redirect \in BOOLEAN : Rename(n, m, redirect)
            \/ \E r \in Roots : Upload(r)
            \/ ListPages \/ AskRules \/ Forget

SiteSpec == SiteInit /\ [][SiteNext]_siteVars

-----------------------------------------------------------------------------

SiteTypeOK ==
  /\ page \in [PageIds -> SiteRow \union {Nil}]
  /\ nextId \in 1..(MaxPages + 1) /\ \A i \in Stored : i < nextId
  /\ copy \in [PageNames -> SiteCopy \union {Nil}]
  /\ \A n \in PageNames : copy[n] # Nil => copy[n].id < nextId
  /\ list \in (SUBSET SiteEntry) \union {Nil} /\ rules \in (SUBSET Rules) \union {Nil}
  /\ spoilt \in BOOLEAN /\ retired \in BOOLEAN

\* Names are unique, and what is cached is what the tables hold: but for the copies a
\* renaming leaves behind, a list that has missed a restored revision or an edit through
\* such a copy, and the rules of pages that were deleted or have lost their header.
SiteCachesCurrent ==
  /\ \A n \in PageNames :
       /\ Cardinality(Named(n)) <= 1
       /\ copy[n] # Nil => n \in ghosts \/ \E i \in Named(n) : copy[n] = CopyOf(i)
  /\ list # Nil => spoilt \/ list = Table
  /\ rules # Nil => retired \/ rules = InForce

\* A page that is renamed takes the attachments it has with it.
Follow ==
  \A i \in Stored, a \in Stored :
    /\ ~page[i].att /\ page[i].name \in Roots
    /\ page'[i] # Nil /\ page'[i].name # page[i].name
    /\ page[a].att /\ ~page[a].deleted /\ page[a].name = Below(page[i].name)
    /\ ~spoilt
    => page'[a] # Nil /\ page'[a].name = Below(page'[i].name)

\* What is cached of the wiki's pages is what the tables hold, with named exceptions, and
\* attachments follow their page.
SitesKept == []SiteCachesCurrent /\ [][Follow]_siteVars
=============================================================================
