------------------------------ MODULE WikiPage ------------------------------
(***************************************************************************)
(* One wiki page: its revisions, the cached newest revision, the cached    *)
(* list of pages, and the requests that edit, delete, restore and read it. *)
(* A request is one database transaction: it reads the snapshot it began   *)
(* with, changes the caches at once, and its rows at its commit.           *)
(*                                                                         *)
(* A text is the set of the users whose contribution it holds.             *)
(***************************************************************************)
EXTENDS Integers, Sequences

CONSTANTS
    Users,
    Null,
    MaxRevs,      \* bound: revisions ever written
    MaxClock,     \* bound: seconds
    Overlap,      \* may requests overlap?
    SameSecond    \* may two things of a page happen in one second?

VARIABLES
    revs,       \* Revision rows of the page, in the order of their commits
    lastRev,    \* Page.last_rev; Null where there is no page
    cached,     \* cache: 'wiki/page/<name>'
    listed,     \* cache: what 'wiki/object_list' says of the page
    clock,      \* seconds; dates are stored without fractions
    form,       \* edit form that a user has open
    req         \* request of a user

vars == <<revs, lastRev, cached, listed, clock, form, req>>

-----------------------------------------------------------------------------
(* Data.                                                                   *)

Text == SUBSET Users
Nothing == {}       \* the text of a deleted revision

Revision == [text : Text, date : 0..MaxClock, deleted : BOOLEAN]

PageState == {"missing", "deleted", "existing"}

(* The hidden fields rev and edit_time, and the text in the form.  History:*)
(* everything shown in the form since it was opened, or passed by: the     *)
(* form is as young as a revision that it has not been merged with; and    *)
(* whether there was a page when it was opened.                            *)
Form == [base : 1..MaxRevs \cup {Null}, time : 0..MaxClock, text : Text,
         shown : Text, forPage : BOOLEAN]

(* A request has begun (it has its snapshot) or waits for its commit.      *)
Begun == [kind : {"begun"}, snapshot : 0..MaxRevs]
Writing == [kind : {"create", "edit", "delete", "revert"}, rev : Revision]

\* What the constants have to be.
WikiPageAssumption ==
    /\ Null \notin Int \cup PageState
    /\ Null \notin Form /\ Null \notin Begun /\ Null \notin Writing
    /\ MaxRevs \in Nat
    /\ MaxClock \in Nat
    /\ Overlap \in BOOLEAN
    /\ SameSecond \in BOOLEAN

(* Revision.objects.latest(): by date, and any of several of one second.   *)
Latest(n) == {i \in 1..n : \A j \in 1..n : revs[j].date <= revs[i].date}

StateOf(n, i) ==
    IF n = 0 THEN "missing"
    ELSE IF revs[i].deleted THEN "deleted" ELSE "existing"

(* Mutant: what others added is dropped.                                   *)
MergeOurs(old, other, new) == {new}

(* merge(): the lines of both sides, without those that one side removed.  *)
(* This is what a merge without conflicts does (Diff3), but that it may    *)
(* lose lines which all have; one with conflicts shows both sides, and the *)
(* form refuses to save it.                                                *)
Merge(old, other, new) ==
    LET common == old \cap other \cap new IN
    {kept \cup (other \ old) \cup (new \ old) : kept \in SUBSET common}

-----------------------------------------------------------------------------
(* Requests.                                                               *)

Idle(u) == req[u] = Null
Finish(u) == req' = [req EXCEPT ![u] = Null]
Prepare(u, kind, rev) == req' = [req EXCEPT ![u] = [kind |-> kind, rev |-> rev]]
Running(u) == req[u] # Null /\ req[u].kind = "begun"
Snapshot(u) == req[u].snapshot

Begin(u) ==
    /\ Idle(u)
    /\ Overlap \/ \A v \in Users : Idle(v)
    /\ req' = [req EXCEPT ![u] = [kind |-> "begun", snapshot |-> Len(revs)]]
    /\ UNCHANGED <<revs, lastRev, cached, listed, clock, form>>

(* A new second, where something has happened in this one.                 *)
Tick ==
    /\ clock < MaxClock
    /\ clock \in {revs[i].date : i \in DOMAIN revs}
                    \cup {form[u].time : u \in {v \in Users : form[v] # Null}}
    /\ clock' = clock + 1
    /\ UNCHANGED <<revs, lastRev, cached, listed, form, req>>

(* A second in which nothing was written and no form was opened.           *)
MayWrite ==
    SameSecond \/
        /\ \A i \in DOMAIN revs : revs[i].date < clock
        /\ \A u \in Users : form[u] # Null => form[u].time < clock

(* get_by_name, through the cache.  Where it misses, its caller fills it.  *)
Newest(u) == IF cached # Null THEN {cached} ELSE Latest(Snapshot(u))

(* Revision.save and Page.save delete the cached revision.                 *)
CacheAfterSave == Null

(* Mutant: a new page leaves the list alone.                               *)
ListKept == listed

(* Page.save: a page that has no row yet invalidates the list.             *)
ListAfterCreate == Null

(* Page.edit: the list is invalidated if the page comes or goes.           *)
ListAfterEdit(old, deleted) ==
    IF old.deleted # deleted THEN Null ELSE listed

(* do_show.                                                                *)
Show(u) ==
    /\ Running(u)
    /\ cached' \in IF Newest(u) = {} THEN {Null} ELSE Newest(u)
    /\ Finish(u)
    /\ UNCHANGED <<revs, lastRev, listed, clock, form>>

(* _get_object_list.                                                       *)
ListPages(u) ==
    /\ Running(u)
    /\ listed = Null
    /\ IF Snapshot(u) = 0 THEN listed' = "missing"
       ELSE \E i \in Latest(Snapshot(u)) : listed' = StateOf(Snapshot(u), i)
    /\ Finish(u)
    /\ UNCHANGED <<revs, lastRev, cached, clock, form>>

(* The answer of do_edit: a form, or, for Null, a redirect to the page.    *)
Reply(u, answer) ==
    /\ form' = [form EXCEPT ![u] = answer]
    /\ Finish(u)
    /\ UNCHANGED listed

Fresh(base, text, passed) ==
    [base |-> base, time |-> clock, text |-> text, shown |-> text \cup passed,
     forPage |-> base # Null]

(* do_edit, GET: the form with the newest revision, past the cache, or     *)
(* with the one that ?rev= asks for.                                       *)
OpenForm(u) ==
    /\ Running(u)
    /\ \/ /\ Snapshot(u) = 0
          /\ Reply(u, Fresh(Null, Nothing, Nothing))
          /\ UNCHANGED cached
       \/ /\ \E i \in Latest(Snapshot(u)) : Reply(u, Fresh(i, revs[i].text, Nothing))
          /\ UNCHANGED cached
       \/ \E i \in 1..Snapshot(u), r \in Newest(u) :
            /\ Reply(u, Fresh(i, revs[i].text, revs[r].text))
            /\ cached' = r
    /\ UNCHANGED <<revs, lastRev, clock>>

(* What a user may make of the text in the form.  The form refuses to save *)
(* an empty text.  Bound: nobody has one previewed.                        *)
Submitted(u) ==
    ({form[u].text, form[u].text \cup {u}} \cup {form[u].text \ {v} : v \in Users})
        \ {Nothing}

(* The newest revision is younger than the form.                           *)
EditedSince(u, r) == form[u].time < revs[r].date

(* The form shows text, on the revision base and as young as date.         *)
Redrawn(u, text, base, date) ==
    [form[u] EXCEPT !.text = text, !.shown = @ \cup text, !.base = base, !.time = date]

(* do_edit, POST: there is no page; the text is saved, previewed, dropped. *)
PostCreate(u, text) ==
    /\ form[u].base = Null
    /\ Snapshot(u) = 0
    /\ \/ /\ listed' = ListAfterCreate
          /\ cached' = CacheAfterSave
          /\ Prepare(u, "create", [text |-> text, date |-> clock, deleted |-> FALSE])
          /\ UNCHANGED form
       \/ /\ Reply(u, Redrawn(u, text, Null, form[u].time)) \/ Reply(u, Null)
          /\ UNCHANGED cached

(* do_edit, POST: the page is shown as of revision base, the newest one    *)
(* is r.  A merged text is not saved but shown again.                      *)
PostEdit(u, text, base, r) ==
    IF EditedSince(u, r)
    THEN \E merged \in Merge(revs[base].text, revs[r].text, text) :
         Reply(u, Redrawn(u, merged, base, revs[r].date))
    ELSE IF text = revs[base].text
    THEN Reply(u, Null)
    ELSE /\ \E i \in Latest(Snapshot(u)) : listed' = ListAfterEdit(revs[i], FALSE)
         /\ Prepare(u, "edit", [text |-> text, date |-> clock, deleted |-> FALSE])
         /\ UNCHANGED form

(* The same with 'preview': the form gets the time of the newest revision, *)
(* but shows the text of the user, not the merged one.                     *)
Preview(u, text, base, r) ==
    IF EditedSince(u, r)
    THEN Reply(u, [Redrawn(u, text, base, revs[r].date) EXCEPT !.shown = @ \cup revs[r].text])
    ELSE Reply(u, Redrawn(u, text, base, form[u].time))

(* Whether do_edit goes on to save.                                        *)
Saves(u) == req'[u] # Null

(* With 'cancel' nothing is left of the form.                              *)
PostAny(u, text, base, r) ==
    PostEdit(u, text, base, r) \/ Preview(u, text, base, r) \/ Reply(u, Null)

Post(u) ==
    /\ Running(u)
    /\ form[u] # Null
    /\ \E text \in Submitted(u) :
        \/ PostCreate(u, text)
        \/ /\ form[u].base # Null
           /\ \E r \in Newest(u) :
                /\ PostAny(u, text, form[u].base, r)
                /\ cached' = IF Saves(u) THEN CacheAfterSave ELSE r
        \/ /\ form[u].base = Null
           /\ \E r \in Latest(Snapshot(u)) :
                /\ PostAny(u, text, r, r)
                /\ cached' = IF Saves(u) THEN CacheAfterSave ELSE cached
    /\ Saves(u) => MayWrite
    /\ UNCHANGED <<revs, lastRev, clock>>

(* do_delete, POST.                                                        *)
Delete(u) ==
    /\ Running(u)
    /\ Snapshot(u) > 0
    /\ MayWrite
    /\ \E r \in Newest(u) : ~revs[r].deleted
    /\ \E i \in Latest(Snapshot(u)) : listed' = ListAfterEdit(revs[i], TRUE)
    /\ cached' = CacheAfterSave
    /\ Prepare(u, "delete", [text |-> Nothing, date |-> clock, deleted |-> TRUE])
    /\ UNCHANGED <<revs, lastRev, clock, form>>

(* do_revert, POST: revision i becomes the current one.                    *)
Revert(u, i) ==
    /\ Running(u)
    /\ MayWrite
    /\ i \in 1..Snapshot(u)
    /\ \E r \in Latest(Snapshot(u)) : r # i
    /\ cached' = CacheAfterSave
    /\ Prepare(u, "revert",
               [text |-> revs[i].text, date |-> clock, deleted |-> FALSE])
    /\ UNCHANGED <<revs, lastRev, listed, clock, form>>

Waiting(u) == req[u] # Null /\ req[u].kind # "begun"

LastAfter(u) == Len(revs) + 1

(* A page name is unique.                                                  *)
Commit(u) ==
    /\ Waiting(u)
    /\ Len(revs) < MaxRevs
    /\ req[u].kind = "create" => lastRev = Null
    /\ revs' = Append(revs, req[u].rev)
    /\ lastRev' = LastAfter(u)
    /\ form' = [form EXCEPT ![u] = IF req[u].kind \in {"create", "edit"}
                                   THEN Null ELSE @]
    /\ Finish(u)
    /\ UNCHANGED <<cached, listed, clock>>

(* A deadlock, a duplicate name, or the end of the process.                *)
Abort(u) ==
    /\ Waiting(u)
    /\ Finish(u)
    /\ UNCHANGED <<revs, lastRev, cached, listed, clock, form>>

Expire ==
    /\ cached # Null \/ listed # Null
    /\ \/ cached' = Null /\ UNCHANGED listed
       \/ listed' = Null /\ UNCHANGED cached
    /\ UNCHANGED <<revs, lastRev, clock, form, req>>

Init ==
    /\ revs = <<>>
    /\ lastRev = Null
    /\ cached = Null
    /\ listed = Null
    /\ clock = 0
    /\ form = [u \in Users |-> Null]
    /\ req = [u \in Users |-> Null]

Next ==
    \/ \E u \in Users : Begin(u) \/ Show(u) \/ ListPages(u) \/ OpenForm(u)
    \/ \E u \in Users : Post(u) \/ Delete(u)
    \/ \E u \in Users, i \in 1..MaxRevs : Revert(u, i)
    \/ \E u \in Users : Commit(u) \/ Abort(u)
    \/ Tick
    \/ Expire

Spec == Init /\ [][Next]_vars

-----------------------------------------------------------------------------
(* Properties.                                                             *)

(* Types of all rows, caches, forms and requests.                          *)
TypeOK ==
    /\ revs \in Seq(Revision) /\ Len(revs) <= MaxRevs
    /\ lastRev \in (1..Len(revs)) \cup {Null}
    /\ cached \in (1..Len(revs)) \cup {Null}
    /\ listed \in PageState \cup {Null}
    /\ clock \in 0..MaxClock
    /\ form \in [Users -> Form \cup {Null}]
    /\ req \in [Users -> Begun \cup Writing \cup {Null}]

(* Page.last_rev, which lists and feeds go by, and the newest revision by  *)
(* date, which the page itself goes by, are the same.                      *)
LastIsLatest == lastRev # Null => Latest(Len(revs)) = {lastRev}

(* get_by_name "returns a page with the most recent revision": what is in  *)
(* the cache is the newest revision that has been committed.               *)
CachedIsLatest == cached # Null => cached = lastRev

(* Saving a form drops nothing that another user has written and that the  *)
(* form has never shown, for a form opened on a page that was there: only  *)
(* what the newest revision held when the form was opened on an older one, *)
(* or when it was previewed behind an edit of another user.                *)
NoUnseenLoss ==
    [][\A u \in Users :
          Commit(u) /\ req[u].kind = "edit" /\ form[u].forPage =>
              revs[lastRev].text \subseteq req[u].rev.text \cup form[u].shown]_vars

(* "Check for edits by other users": the same of every form.               *)
EditsOfOthersChecked ==
    [][\A u \in Users :
          Commit(u) /\ req[u].kind = "edit" =>
              revs[lastRev].text \subseteq req[u].rev.text \cup form[u].shown]_vars

(* What the cached list of pages says of this page is so.                  *)
ListIsCurrent == listed # Null => listed = StateOf(Len(revs), lastRev)

(* "Whenever a page is deleted or created the pagelist cache is            *)
(* invalidated": nothing but the restoring of an old revision makes the    *)
(* cached list wrong, and what is cached of the page after a step is the   *)
(* newest revision that has been committed.                                *)
PagesCachedRight ==
    [][/\ CachedIsLatest'
       /\ ListIsCurrent /\ ~ListIsCurrent' =>
            \E u \in Users : Commit(u) /\ req[u].kind = "revert"]_vars

=============================================================================
