---------------------------- MODULE PortalProofs ----------------------------
(***************************************************************************)
(* What holds of the portal's parts for any number of users, requests and  *)
(* messages: the forms of a wiki page, private messages, sessions, cached  *)
(* permissions and accounts.  Each part has an invariant of its own, which *)
(* says what the requests under way may assume, and every action of the    *)
(* part is shown to keep it.                                               *)
(***************************************************************************)
EXTENDS WikiPage, PrivateMessages, Sessions, Accounts, SequenceTheorems, TLAPS

-----------------------------------------------------------------------------
(* The invariant.                                                          *)

\* Requests follow one another, and every second sees one of them write.
OneByOne == WikiPageAssumption /\ ~Overlap /\ ~SameSecond

PageTyped ==
    /\ revs \in Seq(Revision) /\ Len(revs) <= MaxRevs
    /\ clock \in 0..MaxClock
    /\ form \in [Users -> Form \cup {Null}]
    /\ req \in [Users -> Begun \cup Writing \cup {Null}]

\* One request at a time, and it has seen all that is committed.
OneAtATime ==
    /\ \A u, v \in Users : ~Idle(u) /\ ~Idle(v) => u = v
    /\ \A u \in Users : Running(u) => Snapshot(u) = Len(revs)

\* The revisions are as old as their order says, and what waits for its commit is
\* newer than all of them, and than every open form.
DatesGrow ==
    /\ \A i, j \in 1..Len(revs) : i < j => revs[i].date < revs[j].date
    /\ \A u \in Users : Waiting(u) =>
        /\ \A i \in 1..Len(revs) : revs[i].date < req[u].rev.date
        /\ \A v \in Users : form[v] # Null => form[v].time < req[u].rev.date

\* The newest revision is the last one, and the cache holds none but that.
CacheKept ==
    /\ lastRev = IF Len(revs) = 0 THEN Null ELSE Len(revs)
    /\ cached \in {Null, lastRev}
    /\ \A u \in Users : Waiting(u) => cached = Null

\* A write that waits for its commit has dropped the list, if the page comes or goes.
ListDropped ==
    \A u \in Users : Waiting(u) /\ req[u].kind # "revert" =>
        \/ listed = Null
        \/ Len(revs) # 0 /\ revs[Len(revs)].deleted = req[u].rev.deleted

\* A form has shown the revision it is based on, and has shown or passed by the newest
\* one if that is not younger than the form.
HasShown(f) == /\ f.base \in 1..Len(revs)
               /\ revs[f.base].text \subseteq f.shown
               /\ revs[Len(revs)].date <= f.time => revs[Len(revs)].text \subseteq f.shown

FormsShow == \A u \in Users : form[u] # Null /\ form[u].forPage => HasShown(form[u])

\* A form that is being saved has not been overtaken.
SavedSeen ==
    \A u \in Users : Waiting(u) /\ req[u].kind = "edit" =>
        /\ form[u] # Null
        /\ form[u].forPage => revs[Len(revs)].date <= form[u].time

PageInv == /\ PageTyped /\ OneAtATime /\ DatesGrow /\ CacheKept
           /\ ListDropped /\ FormsShow /\ SavedSeen

-----------------------------------------------------------------------------
(* What a request knows of the page.                                       *)

LEMMA RevisionTyped ==
    ASSUME PageInv, NEW i \in 1..Len(revs)
    PROVE  /\ revs[i] \in Revision /\ revs[i].text \in Text
           /\ revs[i].date \in 0..MaxClock /\ revs[i].deleted \in BOOLEAN
<1>1. revs[i] \in Revision
  BY DEF PageInv, PageTyped
<1>2. QED
  BY <1>1 DEF Revision

\* The newest revision of the page is the last one that has been committed.
LEMMA NewestIsLast ==
    ASSUME OneByOne, PageInv, NEW u \in Users, Running(u)
    PROVE  /\ Len(revs) \in Nat /\ Snapshot(u) = Len(revs)
           /\ Len(revs) = 0 => Latest(Snapshot(u)) = {} /\ Newest(u) = {}
           /\ Len(revs) # 0 => Latest(Snapshot(u)) = {Len(revs)} /\ Newest(u) = {Len(revs)}
<1>1. Len(revs) \in Nat /\ Snapshot(u) = Len(revs)
  BY DEF PageInv, PageTyped, OneAtATime
<1>2. \A i \in 1..Len(revs) : revs[i].date \in Int
  BY RevisionTyped DEF OneByOne, WikiPageAssumption
<1>3. Len(revs) = 0 => Latest(Len(revs)) = {}
  BY <1>1 DEF Latest
<1>4. ASSUME Len(revs) # 0 PROVE Latest(Len(revs)) = {Len(revs)}
  <2>1. Len(revs) \in 1..Len(revs)
    BY <1>1, <1>4
  <2>2. \A i \in 1..Len(revs) : i # Len(revs) => revs[i].date < revs[Len(revs)].date
    BY <1>1, <1>4 DEF PageInv, DatesGrow
  <2>3. \A j \in 1..Len(revs) : revs[j].date <= revs[Len(revs)].date
    BY <1>2, <2>1, <2>2
  <2>4. \A i \in 1..Len(revs) : i # Len(revs) => ~(revs[Len(revs)].date <= revs[i].date)
    BY <1>2, <2>1, <2>2
  <2>5. QED
    BY <2>1, <2>3, <2>4 DEF Latest
<1>5. cached = Null \/ (Len(revs) # 0 /\ cached = Len(revs))
  BY <1>1 DEF PageInv, CacheKept
<1>6. QED
  BY <1>1, <1>3, <1>4, <1>5 DEF Newest

\* After the end of a request, nobody runs.
LEMMA AllIdle ==
    ASSUME PageInv, NEW u \in Users, ~Idle(u), Finish(u)
    PROVE  /\ req' \in [Users -> Begun \cup Writing \cup {Null}]
           /\ \A v \in Users : Idle(v)' /\ ~Waiting(v)' /\ ~Running(v)'
<1>1. req' = [req EXCEPT ![u] = Null] /\ req \in [Users -> Begun \cup Writing \cup {Null}]
  BY DEF Finish, PageInv, PageTyped
<1>2. \A v \in Users : req'[v] = Null
  BY <1>1 DEF PageInv, OneAtATime, Idle
<1>3. QED
  BY <1>1, <1>2 DEF Idle, Waiting, Running

\* A request that ends without a write, whatever it caches or shows.
LEMMA EndsInv ==
    ASSUME PageInv, NEW u \in Users, ~Idle(u), Finish(u), UNCHANGED <<revs, lastRev, clock>>,
           cached' \in {Null, lastRev}, form' \in [Users -> Form \cup {Null}], FormsShow'
    PROVE  PageInv'
<1>1. /\ req' \in [Users -> Begun \cup Writing \cup {Null}]
      /\ \A v \in Users : Idle(v)' /\ ~Waiting(v)' /\ ~Running(v)'
  BY AllIdle
<1>2. PageTyped'
  BY <1>1 DEF PageInv, PageTyped
<1>3. OneAtATime' /\ ListDropped' /\ SavedSeen'
  BY <1>1 DEF OneAtATime, ListDropped, SavedSeen
<1>4. DatesGrow'
  BY <1>1 DEF PageInv, DatesGrow
<1>5. CacheKept'
  BY <1>1 DEF PageInv, CacheKept
<1>6. QED
  BY <1>2, <1>3, <1>4, <1>5 DEF PageInv

\* A request that leaves a row for its commit.
LEMMA WriteInv ==
    ASSUME OneByOne, PageInv, NEW u \in Users, Running(u), NEW kind, NEW rev,
           Prepare(u, kind, rev), [kind |-> kind, rev |-> rev] \in Writing, rev.date = clock,
           MayWrite, cached' = Null, UNCHANGED <<revs, lastRev, clock, form>>,
           kind # "revert" => listed' = Null
                                 \/ (Len(revs) # 0 /\ revs[Len(revs)].deleted = rev.deleted),
           kind = "edit" => form[u] # Null
                             /\ (form[u].forPage => revs[Len(revs)].date <= form[u].time)
    PROVE  PageInv'
<1>1. PICK w \in Writing : w = [kind |-> kind, rev |-> rev] /\ w.kind = kind /\ w.rev = rev
  BY DEF Writing
<1>2. /\ req' = [req EXCEPT ![u] = w] /\ req'[u] = w
      /\ req' \in [Users -> Begun \cup Writing \cup {Null}]
      /\ \A v \in Users : v # u => req'[v] = Null
  <2>1. req \in [Users -> Begun \cup Writing \cup {Null}] /\ req' = [req EXCEPT ![u] = w]
    BY <1>1 DEF PageInv, PageTyped, Prepare
  <2>2. \A v \in Users : v # u => req[v] = Null
    BY DEF PageInv, OneAtATime, Idle, Running
  <2>3. QED
    BY <2>1, <2>2
<1>3. w.kind # "begun" /\ w # Null
  BY <1>1 DEF Writing, OneByOne, WikiPageAssumption
<1>4. Waiting(u)' /\ ~Running(u)' /\ \A v \in Users : v # u => Idle(v)' /\ ~Waiting(v)' /\ ~Running(v)'
  BY <1>2, <1>3 DEF Waiting, Running, Idle
<1>5. PageTyped'
  BY <1>2 DEF PageInv, PageTyped
<1>6. OneAtATime'
  BY <1>4 DEF OneAtATime
<1>7. DatesGrow'
  <2>1. \A i \in 1..Len(revs) : revs[i].date < clock
    BY DEF MayWrite, OneByOne
  <2>2. \A v \in Users : form[v] # Null => form[v].time < clock
    BY DEF MayWrite, OneByOne
  <2>3. QED
    BY <1>1, <1>2, <1>4, <2>1, <2>2 DEF PageInv, DatesGrow
<1>8. CacheKept'
  BY DEF PageInv, CacheKept
<1>9. ListDropped'
  BY <1>1, <1>2, <1>4 DEF ListDropped
<1>10. FormsShow'
  BY DEF PageInv, FormsShow, HasShown
<1>11. SavedSeen'
  BY <1>1, <1>2, <1>4 DEF SavedSeen
<1>12. QED
  BY <1>5, <1>6, <1>7, <1>8, <1>9, <1>10, <1>11 DEF PageInv

-----------------------------------------------------------------------------
(* The actions.                                                            *)

LEMMA InitInv == ASSUME OneByOne, Init PROVE PageInv
<1>1. revs = <<>> /\ Len(revs) = 0 /\ clock = 0 /\ lastRev = Null /\ cached = Null
  BY DEF Init
<1>2. (\A u \in Users : form[u] = Null /\ req[u] = Null) /\ MaxRevs \in Nat /\ MaxClock \in Nat
  BY DEF Init, OneByOne, WikiPageAssumption
<1>3. \A u \in Users : Idle(u) /\ ~Waiting(u) /\ ~Running(u)
  BY <1>2 DEF Idle, Waiting, Running
<1>4. PageTyped
  <2>1. revs \in Seq(Revision) /\ Len(revs) <= MaxRevs /\ clock \in 0..MaxClock
    BY <1>1, <1>2, EmptySeq
  <2>2. form \in [Users -> Form \cup {Null}] /\ req \in [Users -> Begun \cup Writing \cup {Null}]
    BY DEF Init
  <2>3. QED
    BY <2>1, <2>2 DEF PageTyped
<1>5. OneAtATime /\ ListDropped /\ SavedSeen
  BY <1>3 DEF OneAtATime, ListDropped, SavedSeen
<1>6. DatesGrow /\ CacheKept
  BY <1>1, <1>3 DEF DatesGrow, CacheKept
<1>7. FormsShow
  BY <1>2 DEF FormsShow, HasShown
<1>8. QED
  BY <1>4, <1>5, <1>6, <1>7 DEF PageInv

LEMMA BeginInv == ASSUME OneByOne, PageInv, NEW u \in Users, Begin(u) PROVE PageInv'
<1>10. PICK b : b = [kind |-> "begun", snapshot |-> Len(revs)]
  OBVIOUS
<1>1. b \in Begun /\ b.kind = "begun" /\ b.snapshot = Len(revs)
  <2>1. Len(revs) \in 0..MaxRevs
    BY DEF PageInv, PageTyped, OneByOne, WikiPageAssumption
  <2>2. QED
    BY <1>10, <2>1 DEF Begun
<1>2. /\ req' = [req EXCEPT ![u] = b] /\ UNCHANGED <<revs, lastRev, cached, listed, clock, form>>
      /\ \A v \in Users : Idle(v)
  BY <1>10 DEF Begin, OneByOne
<1>3. /\ req' \in [Users -> Begun \cup Writing \cup {Null}]
      /\ req'[u] = b /\ \A v \in Users : v # u => req'[v] = Null
  BY <1>1, <1>2 DEF PageInv, PageTyped, Idle
<1>4. \A v \in Users : ~Waiting(v)' /\ (v # u => Idle(v)' /\ ~Running(v)')
  BY <1>1, <1>3 DEF Waiting, Running, Idle
<1>5. PageTyped'
  BY <1>2, <1>3 DEF PageInv, PageTyped
<1>6. OneAtATime'
  BY <1>1, <1>2, <1>3, <1>4 DEF OneAtATime, Snapshot
<1>7. DatesGrow' /\ CacheKept' /\ FormsShow'
  BY <1>2, <1>4 DEF PageInv, DatesGrow, CacheKept, FormsShow, HasShown
<1>8. ListDropped' /\ SavedSeen'
  BY <1>4 DEF ListDropped, SavedSeen
<1>9. QED
  BY <1>5, <1>6, <1>7, <1>8 DEF PageInv

\* A step that leaves rows, forms and requests alone.
LEMMA AsideInv ==
    ASSUME PageInv, UNCHANGED <<revs, lastRev, form, req>>, clock' \in 0..MaxClock,
           cached' \in {Null, cached}, listed' \in {Null, listed}
    PROVE  PageInv'
<1>1. \A u \in Users : /\ Idle(u)' = Idle(u) /\ Waiting(u)' = Waiting(u)
                       /\ Running(u)' = Running(u) /\ Snapshot(u)' = Snapshot(u)
  BY DEF Idle, Waiting, Running, Snapshot
<1>2. PageTyped' /\ OneAtATime'
  BY <1>1 DEF PageInv, PageTyped, OneAtATime
<1>3. DatesGrow' /\ CacheKept'
  BY <1>1 DEF PageInv, DatesGrow, CacheKept
<1>4. ListDropped' /\ FormsShow' /\ SavedSeen'
  BY <1>1 DEF PageInv, ListDropped, FormsShow, HasShown, SavedSeen
<1>5. QED
  BY <1>2, <1>3, <1>4 DEF PageInv

LEMMA TickInv == ASSUME OneByOne, PageInv, Tick PROVE PageInv'
<1>1. clock' \in 0..MaxClock
  BY DEF Tick, PageInv, PageTyped, OneByOne, WikiPageAssumption
<1>2. QED
  BY <1>1, AsideInv DEF Tick

LEMMA ExpireInv == ASSUME PageInv, Expire PROVE PageInv'
<1>1. clock' \in 0..MaxClock
  BY DEF Expire, PageInv, PageTyped
<1>2. QED
  BY <1>1, AsideInv DEF Expire

LEMMA ShowInv == ASSUME OneByOne, PageInv, NEW u \in Users, Show(u) PROVE PageInv'
<1>1. Running(u) /\ ~Idle(u) /\ Finish(u) /\ UNCHANGED <<revs, lastRev, listed, clock, form>>
  BY DEF Show, Running, Idle
<1>2. cached' \in {Null, lastRev}
  BY <1>1, NewestIsLast DEF Show, PageInv, CacheKept
<1>3. FormsShow' /\ form' \in [Users -> Form \cup {Null}]
  BY <1>1 DEF PageInv, PageTyped, FormsShow, HasShown
<1>4. QED
  BY <1>1, <1>2, <1>3, EndsInv

LEMMA ListPagesInv == ASSUME PageInv, NEW u \in Users, ListPages(u) PROVE PageInv'
<1>1. Running(u) /\ ~Idle(u) /\ Finish(u) /\ UNCHANGED <<revs, lastRev, cached, clock, form>>
  BY DEF ListPages, Running, Idle
<1>2. cached' \in {Null, lastRev}
  BY <1>1 DEF PageInv, CacheKept
<1>3. FormsShow' /\ form' \in [Users -> Form \cup {Null}]
  BY <1>1 DEF PageInv, PageTyped, FormsShow, HasShown
<1>4. QED
  BY <1>1, <1>2, <1>3, EndsInv

\* A request that answers with a form or a redirect.
LEMMA ReplyInv ==
    ASSUME PageInv, NEW u \in Users, Running(u), NEW f \in Form \cup {Null}, Reply(u, f),
           f # Null /\ f.forPage => HasShown(f),
           UNCHANGED <<revs, lastRev, clock>>, cached' \in {Null, lastRev}
    PROVE  PageInv'
<1>1. ~Idle(u) /\ Finish(u) /\ form' = [form EXCEPT ![u] = f]
  BY DEF Reply, Running, Idle
<1>2. form' \in [Users -> Form \cup {Null}] /\ form'[u] = f
      /\ \A v \in Users : v # u => form'[v] = form[v]
  BY <1>1 DEF PageInv, PageTyped
<1>3. FormsShow'
  <2>1. SUFFICES ASSUME NEW v \in Users, form'[v] # Null, form'[v].forPage
                 PROVE  HasShown(form'[v])
    BY DEF FormsShow, HasShown
  <2>2. CASE v = u
    BY <1>2, <2>1, <2>2
  <2>3. CASE v # u
    BY <1>2, <2>1, <2>3 DEF PageInv, FormsShow, HasShown
  <2>4. QED
    BY <2>2, <2>3
<1>4. QED
  BY <1>1, <1>2, <1>3, EndsInv

LEMMA FreshForm ==
    ASSUME OneByOne, PageInv, NEW base \in (1..Len(revs)) \cup {Null},
           NEW text \in Text, NEW passed \in Text
    PROVE  /\ Fresh(base, text, passed) \in Form /\ Fresh(base, text, passed).base = base
           /\ Fresh(base, text, passed).shown = text \cup passed
           /\ Fresh(base, text, passed).forPage = (base # Null)
<1>1. base \in 1..MaxRevs \cup {Null} /\ clock \in 0..MaxClock
  BY DEF PageInv, PageTyped, OneByOne, WikiPageAssumption
<1>2. text \cup passed \in Text /\ (base # Null) \in BOOLEAN
  BY DEF Text
<1>3. QED
  BY <1>1, <1>2 DEF Fresh, Form

LEMMA OpenFormInv == ASSUME OneByOne, PageInv, NEW u \in Users, OpenForm(u) PROVE PageInv'
<1>1. Running(u) /\ UNCHANGED <<revs, lastRev, clock>>
  BY DEF OpenForm
<1>2. cached \in {Null, lastRev} /\ Nothing \in Text /\ Len(revs) \in Nat /\ Snapshot(u) = Len(revs)
  BY <1>1, NewestIsLast DEF PageInv, CacheKept, Nothing, Text
<1>3. CASE Reply(u, Fresh(Null, Nothing, Nothing)) /\ UNCHANGED cached
  BY <1>1, <1>2, <1>3, FreshForm, ReplyInv
<1>4. ASSUME NEW i \in Latest(Snapshot(u)), Reply(u, Fresh(i, revs[i].text, Nothing)), UNCHANGED cached
      PROVE  PageInv'
  <2>1. i = Len(revs) /\ i \in 1..Len(revs)
    BY <1>1, <1>2, <1>4, NewestIsLast
  <2>2. revs[i].text \in Text
    BY <2>1, RevisionTyped
  <2> DEFINE f == Fresh(i, revs[i].text, Nothing)
  <2>3. f \in Form /\ f.base = i /\ revs[i].text \subseteq f.shown
    BY <1>2, <2>1, <2>2, FreshForm
  <2>4. Reply(u, f)
    BY <1>4
  <2> HIDE DEF f
  <2>5. HasShown(f)
    BY <2>1, <2>3 DEF HasShown
  <2>6. QED
    BY <1>1, <1>2, <1>4, <2>3, <2>4, <2>5, ReplyInv
<1>5. ASSUME NEW i \in 1..Snapshot(u), NEW r \in Newest(u),
             Reply(u, Fresh(i, revs[i].text, revs[r].text)), cached' = r
      PROVE  PageInv'
  <2>1. r = Len(revs) /\ r \in 1..Len(revs) /\ i \in 1..Len(revs)
    BY <1>1, <1>2, <1>5, NewestIsLast
  <2>2. revs[i].text \in Text /\ revs[r].text \in Text
    BY <2>1, RevisionTyped
  <2> DEFINE f == Fresh(i, revs[i].text, revs[r].text)
  <2>3. f \in Form /\ f.base = i /\ revs[i].text \subseteq f.shown /\ revs[r].text \subseteq f.shown
    BY <2>1, <2>2, FreshForm
  <2>4. Reply(u, f)
    BY <1>5
  <2> HIDE DEF f
  <2>5. HasShown(f)
    BY <2>1, <2>3 DEF HasShown
  <2>6. cached' = lastRev
    BY <1>5, <2>1 DEF PageInv, CacheKept
  <2>7. QED
    BY <1>1, <2>3, <2>4, <2>5, <2>6, ReplyInv
<1>6. QED
  BY <1>3, <1>4, <1>5 DEF OpenForm

-----------------------------------------------------------------------------
(* The requests that write.                                                *)

\* The record of a row that a request leaves for its commit.
LEMMA RowTyped ==
    ASSUME PageInv, NEW text \in Text, NEW deleted \in BOOLEAN,
           NEW kind \in {"create", "edit", "delete", "revert"}, NEW rev,
           rev = [text |-> text, date |-> clock, deleted |-> deleted]
    PROVE  /\ rev.date = clock /\ rev.deleted = deleted /\ rev.text = text
           /\ [kind |-> kind, rev |-> rev] \in Writing
<1>1. rev \in Revision
  BY DEF Revision, PageInv, PageTyped
<1>2. QED
  BY <1>1 DEF Writing

LEMMA RedrawnForm ==
    ASSUME OneByOne, PageInv, NEW u \in Users, form[u] # Null, NEW text \in Text,
           NEW base \in 1..MaxRevs \cup {Null}, NEW date \in 0..MaxClock
    PROVE  LET f == Redrawn(u, text, base, date) IN
           /\ f \in Form /\ f.base = base /\ f.time = date
           /\ f.shown = form[u].shown \cup text /\ f.forPage = form[u].forPage
<1>1. form[u] \in Form
  BY DEF PageInv, PageTyped
<1>2. form[u].shown \cup text \in Text
  BY <1>1 DEF Form, Text
<1>3. QED
  BY <1>1, <1>2 DEF Redrawn, Form

\* The newest revision, and what a form on the page knows.
LEMMA FormOnPage ==
    ASSUME OneByOne, PageInv, NEW u \in Users, form[u] # Null, Len(revs) # 0
    PROVE  /\ form[u] \in Form /\ form[u].shown \in Text /\ form[u].time \in 0..MaxClock
           /\ form[u].text \in Text /\ form[u].forPage \in BOOLEAN
           /\ Len(revs) \in 1..Len(revs) /\ Len(revs) \in 1..MaxRevs
           /\ revs[Len(revs)].text \in Text /\ revs[Len(revs)].date \in 0..MaxClock
           /\ form[u].forPage => HasShown(form[u])
<1>1. form[u] \in Form /\ Len(revs) \in Nat /\ Len(revs) <= MaxRevs /\ MaxRevs \in Nat
  BY DEF PageInv, PageTyped, OneByOne, WikiPageAssumption
<1>2. Len(revs) \in 1..Len(revs) /\ Len(revs) \in 1..MaxRevs
  BY <1>1
<1>3. form[u].forPage => HasShown(form[u])
  BY DEF PageInv, FormsShow, HasShown
<1>4. QED
  BY <1>1, <1>2, <1>3, RevisionTyped DEF Form

\* The form, shown again with the text merged into that of the newest revision.
LEMMA MergeInv ==
    ASSUME OneByOne, PageInv, NEW u \in Users, Running(u), NEW text \in Text,
           form[u] # Null, Len(revs) # 0, NEW base \in 1..MaxRevs,
           form[u].forPage => base = form[u].base,
           NEW merged \in Merge(revs[base].text, revs[Len(revs)].text, text),
           Reply(u, Redrawn(u, merged, base, revs[Len(revs)].date)),
           UNCHANGED <<revs, lastRev, clock>>, cached' \in {Null, lastRev}
    PROVE  PageInv'
<1>1. PICK kept \in SUBSET (revs[base].text \cap revs[Len(revs)].text \cap text) :
        merged = kept \cup (revs[Len(revs)].text \ revs[base].text) \cup (text \ revs[base].text)
  BY DEF Merge
<1>2. /\ merged \in Text
      /\ revs[Len(revs)].text \subseteq merged \cup revs[base].text
  BY <1>1, FormOnPage DEF Text
<1> DEFINE f == Redrawn(u, merged, base, revs[Len(revs)].date)
<1>3. f \in Form /\ f.base = base /\ f.shown = form[u].shown \cup merged /\ f.forPage = form[u].forPage
  BY <1>2, FormOnPage, RedrawnForm
<1>4. Reply(u, f)
  OBVIOUS
<1> HIDE DEF f
<1>5. f.forPage => HasShown(f)
  BY <1>2, <1>3, FormOnPage DEF HasShown
<1>6. QED
  BY <1>3, <1>4, <1>5, ReplyInv

\* The form, shown again with the text of its user, whether it is behind or not.
LEMMA PreviewInv ==
    ASSUME OneByOne, PageInv, NEW u \in Users, Running(u), NEW text \in Text,
           form[u] # Null, Len(revs) # 0, NEW base \in 1..MaxRevs,
           form[u].forPage => base = form[u].base,
           Preview(u, text, base, Len(revs)),
           UNCHANGED <<revs, lastRev, clock>>, cached' \in {Null, lastRev}
    PROVE  PageInv'
<1>1. CASE EditedSince(u, Len(revs))
  <2> DEFINE g == Redrawn(u, text, base, revs[Len(revs)].date)
             f == [g EXCEPT !.shown = @ \cup revs[Len(revs)].text]
  <2>1. Reply(u, f)
    BY <1>1 DEF Preview
  <2>2. g \in Form /\ g.base = base /\ g.shown = form[u].shown \cup text /\ g.forPage = form[u].forPage
    BY FormOnPage, RedrawnForm
  <2> HIDE DEF g
  <2>3. g.shown \cup revs[Len(revs)].text \in Text
    BY <2>2, FormOnPage DEF Text
  <2>4. /\ f \in Form /\ f.base = base /\ f.forPage = form[u].forPage
        /\ f.shown = form[u].shown \cup text \cup revs[Len(revs)].text
    BY <2>2, <2>3 DEF Form
  <2> HIDE DEF f
  <2>5. f.forPage => HasShown(f)
    BY <2>4, FormOnPage DEF HasShown
  <2>6. QED
    BY <2>1, <2>4, <2>5, ReplyInv
<1>2. CASE ~EditedSince(u, Len(revs))
  <2> DEFINE f == Redrawn(u, text, base, form[u].time)
  <2>1. Reply(u, f)
    BY <1>2 DEF Preview
  <2>2. /\ f \in Form /\ f.base = base /\ f.time = form[u].time
        /\ f.shown = form[u].shown \cup text /\ f.forPage = form[u].forPage
    BY FormOnPage, RedrawnForm
  <2> HIDE DEF f
  <2>3. f.forPage => HasShown(f)
    BY <2>2, FormOnPage DEF HasShown
  <2>4. QED
    BY <2>1, <2>2, <2>3, ReplyInv
<1>3. QED
  BY <1>1, <1>2

\* do_edit with the newest revision of the page.
LEMMA PostEditInv ==
    ASSUME OneByOne, PageInv, NEW u \in Users, Running(u), form[u] # Null, NEW text \in Text,
           NEW base \in 1..MaxRevs, form[u].forPage => base = form[u].base, Len(revs) # 0,
           PostAny(u, text, base, Len(revs)), Saves(u) => MayWrite /\ cached' = Null,
           ~Saves(u) => cached' \in {Null, lastRev}, UNCHANGED <<revs, lastRev, clock>>
    PROVE  PageInv'
<1>1. Len(revs) \in 1..Len(revs)
  BY FormOnPage
<1>2. \A f : Reply(u, f) => ~Saves(u)
  BY DEF Reply, Finish, Saves, PageInv, PageTyped
<1>3. CASE Reply(u, Null)
  BY <1>2, <1>3, ReplyInv
<1>4. CASE Preview(u, text, base, Len(revs))
  <2>1. ~Saves(u)
    BY <1>2, <1>4 DEF Preview
  <2>2. QED
    BY <1>4, <2>1, PreviewInv
<1>5. CASE PostEdit(u, text, base, Len(revs)) /\ EditedSince(u, Len(revs))
  BY <1>2, <1>5, MergeInv DEF PostEdit
<1>6. CASE /\ PostEdit(u, text, base, Len(revs))
           /\ ~EditedSince(u, Len(revs)) /\ text = revs[base].text
  BY <1>3, <1>6 DEF PostEdit
<1>7. CASE /\ PostEdit(u, text, base, Len(revs))
           /\ ~EditedSince(u, Len(revs)) /\ text # revs[base].text
  <2>1. PICK rev : rev = [text |-> text, date |-> clock, deleted |-> FALSE]
    OBVIOUS
  <2>2. /\ Prepare(u, "edit", rev) /\ UNCHANGED form
        /\ \E i \in Latest(Snapshot(u)) : listed' = ListAfterEdit(revs[i], FALSE)
    BY <1>7, <2>1 DEF PostEdit
  <2>3. listed' = Null \/ revs[Len(revs)].deleted = rev.deleted
    BY <2>1, <2>2, NewestIsLast DEF ListAfterEdit
  <2>4. [kind |-> "edit", rev |-> rev] \in Writing /\ rev.date = clock
    <3>1. PICK deleted \in BOOLEAN : deleted = FALSE
      OBVIOUS
    <3>2. rev = [text |-> text, date |-> clock, deleted |-> deleted]
      BY <2>1, <3>1
    <3>3. QED
      BY <3>2, RowTyped
  <2>5. Saves(u)
    BY <2>2, <2>4 DEF Saves, Prepare, PageInv, PageTyped, OneByOne, WikiPageAssumption
  <2>6. revs[Len(revs)].date <= form[u].time
    <3>1. revs[Len(revs)].date \in Int
      BY <1>1, RevisionTyped DEF OneByOne, WikiPageAssumption
    <3>2. form[u].time \in Int
      BY DEF PageInv, PageTyped, Form, OneByOne, WikiPageAssumption
    <3>3. QED
      BY <1>7, <3>1, <3>2 DEF EditedSince
  <2>7. QED
    BY <2>2, <2>3, <2>4, <2>5, <2>6, WriteInv
<1>8. QED
  BY <1>3, <1>4, <1>5, <1>6, <1>7 DEF PostAny

\* do_edit where there is no page.
LEMMA PostCreateInv ==
    ASSUME OneByOne, PageInv, NEW u \in Users, Running(u), form[u] # Null, NEW text \in Text,
           PostCreate(u, text), Saves(u) => MayWrite, UNCHANGED <<revs, lastRev, clock>>
    PROVE  PageInv'
<1>1. form[u] \in Form /\ form[u].base = Null /\ Null \notin 1..Len(revs)
  BY DEF PostCreate, PageInv, PageTyped, OneByOne, WikiPageAssumption
<1>2. CASE /\ Prepare(u, "create", [text |-> text, date |-> clock, deleted |-> FALSE])
           /\ UNCHANGED form /\ listed' = ListAfterCreate /\ cached' = CacheAfterSave
  <2>1. PICK rev : rev = [text |-> text, date |-> clock, deleted |-> FALSE]
    OBVIOUS
  <2>2. Prepare(u, "create", rev) /\ UNCHANGED form /\ listed' = Null /\ cached' = Null
    BY <1>2, <2>1 DEF ListAfterCreate, CacheAfterSave
  <2>3. [kind |-> "create", rev |-> rev] \in Writing /\ rev.date = clock
    BY <2>1, RowTyped
  <2>4. Saves(u)
    BY <2>2, <2>3 DEF Saves, Prepare, PageInv, PageTyped, OneByOne, WikiPageAssumption
  <2>5. QED
    BY <2>2, <2>3, <2>4, WriteInv
<1>3. CASE (Reply(u, Redrawn(u, text, Null, form[u].time)) \/ Reply(u, Null)) /\ UNCHANGED cached
  <2>1. cached' \in {Null, lastRev}
    BY <1>3 DEF PageInv, CacheKept
  <2>2. form[u].time \in 0..MaxClock
    BY <1>1 DEF Form
  <2>3. ~form[u].forPage
    BY <1>1 DEF PageInv, FormsShow, HasShown
  <2> DEFINE f == Redrawn(u, text, Null, form[u].time)
  <2>4. f \in Form /\ ~f.forPage
    <3>1. form[u].shown \cup text \in Text
      BY <1>1 DEF Form, Text
    <3>2. f = [form[u] EXCEPT !.text = text, !.shown = form[u].shown \cup text,
                              !.base = Null, !.time = form[u].time]
      BY DEF Redrawn
    <3>3. QED
      BY <1>1, <2>2, <2>3, <3>1, <3>2 DEF Form
  <2>5. Reply(u, f) \/ Reply(u, Null)
    BY <1>3
  <2> HIDE DEF f
  <2>6. QED
    BY <2>1, <2>4, <2>5, ReplyInv
<1>4. QED
  BY <1>2, <1>3 DEF PostCreate

LEMMA PostInv == ASSUME OneByOne, PageInv, NEW u \in Users, Post(u) PROVE PageInv'
<1>1. Running(u) /\ form[u] # Null /\ UNCHANGED <<revs, lastRev, clock>>
      /\ (Saves(u) => MayWrite) /\ CacheAfterSave = Null
  BY DEF Post, CacheAfterSave
<1>2. form[u] \in Form /\ form[u].text \in Text /\ Len(revs) \in Nat /\ Len(revs) <= MaxRevs
      /\ MaxRevs \in Nat
  BY <1>1 DEF PageInv, PageTyped, Form, OneByOne, WikiPageAssumption
<1>3. \A text \in Submitted(u) : text \in Text
  BY <1>2 DEF Submitted, Text
<1>4. PICK text \in Submitted(u) :
        \/ PostCreate(u, text)
        \/ /\ form[u].base # Null
           /\ \E r \in Newest(u) :
                /\ PostAny(u, text, form[u].base, r)
                /\ cached' = IF Saves(u) THEN CacheAfterSave ELSE r
        \/ /\ form[u].base = Null
           /\ \E r \in Latest(Snapshot(u)) :
                /\ PostAny(u, text, r, r)
                /\ cached' = IF Saves(u) THEN CacheAfterSave ELSE cached
  BY DEF Post
<1>5. text \in Text
  BY <1>3
<1>6. CASE PostCreate(u, text)
  BY <1>1, <1>5, <1>6, PostCreateInv
<1>7. ASSUME form[u].base # Null, NEW r \in Newest(u), PostAny(u, text, form[u].base, r),
             cached' = IF Saves(u) THEN CacheAfterSave ELSE r
      PROVE  PageInv'
  <2>1. Len(revs) # 0 /\ r = Len(revs)
    BY <1>1, <1>7, NewestIsLast
  <2>2. lastRev = Len(revs)
    BY <2>1 DEF PageInv, CacheKept
  <2>3. form[u].base \in 1..MaxRevs
    BY <1>2, <1>7 DEF Form
  <2>4. QED
    BY <1>1, <1>5, <1>7, <2>1, <2>2, <2>3, PostEditInv
<1>8. ASSUME form[u].base = Null, NEW r \in Latest(Snapshot(u)), PostAny(u, text, r, r),
             cached' = IF Saves(u) THEN CacheAfterSave ELSE cached
      PROVE  PageInv'
  <2>1. Len(revs) # 0 /\ r = Len(revs) /\ r \in 1..MaxRevs
    BY <1>1, <1>2, <1>8, NewestIsLast
  <2>2. cached \in {Null, lastRev}
    BY DEF PageInv, CacheKept
  <2>3. ~form[u].forPage
    BY <1>1, <1>2, <1>8 DEF PageInv, FormsShow, HasShown, OneByOne, WikiPageAssumption
  <2>4. QED
    BY <1>1, <1>5, <1>8, <2>1, <2>2, <2>3, PostEditInv
<1>9. QED
  BY <1>4, <1>6, <1>7, <1>8

LEMMA DeleteInv == ASSUME OneByOne, PageInv, NEW u \in Users, Delete(u) PROVE PageInv'
<1>1. PICK rev : rev = [text |-> Nothing, date |-> clock, deleted |-> TRUE]
  OBVIOUS
<1>2. /\ Running(u) /\ MayWrite /\ cached' = Null /\ Prepare(u, "delete", rev)
      /\ UNCHANGED <<revs, lastRev, clock, form>>
      /\ \E i \in Latest(Snapshot(u)) : listed' = ListAfterEdit(revs[i], TRUE)
  BY <1>1 DEF Delete, CacheAfterSave
<1>3. listed' = Null \/ (Len(revs) # 0 /\ revs[Len(revs)].deleted = rev.deleted)
  <2>1. rev.deleted = TRUE
    BY <1>1
  <2>2. PICK i \in Latest(Snapshot(u)) : listed' = ListAfterEdit(revs[i], rev.deleted)
    BY <1>2, <2>1
  <2>3. Len(revs) # 0 /\ i = Len(revs)
    BY <1>2, NewestIsLast
  <2>4. QED
    BY <2>2, <2>3 DEF ListAfterEdit
<1>4. [kind |-> "delete", rev |-> rev] \in Writing /\ rev.date = clock
  <2>1. Nothing \in Text /\ TRUE \in BOOLEAN
    BY DEF Nothing, Text
  <2>2. rev \in Revision /\ rev.date = clock
    BY <1>1, <2>1 DEF Revision, PageInv, PageTyped
  <2>3. QED
    BY <2>2 DEF Writing
<1>5. QED
  BY <1>2, <1>3, <1>4, WriteInv

LEMMA RevertInv ==
    ASSUME OneByOne, PageInv, NEW u \in Users, NEW i \in 1..MaxRevs, Revert(u, i) PROVE PageInv'
<1>1. PICK rev : rev = [text |-> revs[i].text, date |-> clock, deleted |-> FALSE]
  OBVIOUS
<1>2. /\ Running(u) /\ MayWrite /\ cached' = Null /\ Prepare(u, "revert", rev)
      /\ UNCHANGED <<revs, lastRev, listed, clock, form>> /\ i \in 1..Snapshot(u)
  BY <1>1 DEF Revert, CacheAfterSave
<1>3. revs[i].text \in Text
  BY <1>2, NewestIsLast, RevisionTyped
<1>4. [kind |-> "revert", rev |-> rev] \in Writing /\ rev.date = clock
  BY <1>1, <1>3, RowTyped
<1>5. QED
  BY <1>2, <1>4, WriteInv

LEMMA AbortInv == ASSUME PageInv, NEW u \in Users, Abort(u) PROVE PageInv'
<1>1. ~Idle(u) /\ Finish(u) /\ UNCHANGED <<revs, lastRev, cached, listed, clock, form>>
  BY DEF Abort, Waiting, Idle
<1>2. cached' \in {Null, lastRev} /\ FormsShow' /\ form' \in [Users -> Form \cup {Null}]
  BY <1>1 DEF PageInv, PageTyped, CacheKept, FormsShow, HasShown
<1>3. QED
  BY <1>1, <1>2, EndsInv

\* What a commit appends.
LEMMA Committed ==
    ASSUME OneByOne, PageInv, NEW u \in Users, Commit(u)
    PROVE  /\ req[u] \in Writing /\ req[u].rev \in Revision /\ cached = Null
           /\ Len(revs) \in Nat /\ Len(revs') = Len(revs) + 1 /\ Len(revs') <= MaxRevs
           /\ revs' \in Seq(Revision) /\ revs'[Len(revs')] = req[u].rev
           /\ \A i \in 1..Len(revs) : revs'[i] = revs[i]
           /\ lastRev' = Len(revs')
<1>1. revs' = Append(revs, req[u].rev) /\ lastRev' = Len(revs) + 1 /\ Len(revs) < MaxRevs
  BY DEF Commit, LastAfter
<1>2. Waiting(u)
  BY DEF Commit
<1>3. req[u] \in Writing
  BY <1>2 DEF Waiting, PageInv, PageTyped, Begun
<1>4. req[u].rev \in Revision
  BY <1>3 DEF Writing
<1>5. revs \in Seq(Revision) /\ MaxRevs \in Nat
  BY DEF PageInv, PageTyped, OneByOne, WikiPageAssumption
<1>6. cached = Null
  BY <1>2 DEF PageInv, CacheKept
<1>7. QED
  BY <1>1, <1>3, <1>4, <1>5, <1>6

LEMMA CommitInv == ASSUME OneByOne, PageInv, NEW u \in Users, Commit(u) PROVE PageInv'
<1>1. Waiting(u) /\ ~Idle(u) /\ Finish(u) /\ UNCHANGED <<cached, listed, clock>>
  BY DEF Commit, Waiting, Idle
<1>2. /\ req[u].rev \in Revision /\ cached = Null
      /\ Len(revs) \in Nat /\ Len(revs') = Len(revs) + 1 /\ Len(revs') <= MaxRevs
      /\ revs' \in Seq(Revision) /\ revs'[Len(revs')] = req[u].rev
      /\ \A i \in 1..Len(revs) : revs'[i] = revs[i]
      /\ lastRev' = Len(revs')
  BY Committed
<1>3. /\ req' \in [Users -> Begun \cup Writing \cup {Null}]
      /\ \A v \in Users : Idle(v)' /\ ~Waiting(v)' /\ ~Running(v)'
  BY <1>1, AllIdle
<1>4. /\ form' \in [Users -> Form \cup {Null}]
      /\ \A v \in Users : form'[v] = form[v] \/ form'[v] = Null
  <2>1. form \in [Users -> Form \cup {Null}]
    BY DEF PageInv, PageTyped
  <2>2. form' = [form EXCEPT ![u] = Null] \/ form' = [form EXCEPT ![u] = form[u]]
    BY DEF Commit
  <2>3. QED
    BY <2>1, <2>2
<1>5. PageTyped'
  BY <1>1, <1>2, <1>3, <1>4 DEF PageInv, PageTyped
<1>6. OneAtATime' /\ ListDropped' /\ SavedSeen'
  BY <1>3 DEF OneAtATime, ListDropped, SavedSeen
<1>7. DatesGrow'
  <2>1. \A i, j \in 1..Len(revs) : i < j => revs[i].date < revs[j].date
    BY DEF PageInv, DatesGrow
  <2>2. \A i \in 1..Len(revs) : revs[i].date < req[u].rev.date
    BY <1>1 DEF PageInv, DatesGrow
  <2>3. \A i, j \in 1..Len(revs') : i < j => revs'[i].date < revs'[j].date
    <3>1. SUFFICES ASSUME NEW i \in 1..Len(revs'), NEW j \in 1..Len(revs'), i < j
                   PROVE  revs'[i].date < revs'[j].date
      OBVIOUS
    <3>2. i \in 1..Len(revs) /\ revs'[i] = revs[i]
      BY <1>2, <3>1
    <3>3. CASE j \in 1..Len(revs)
      BY <1>2, <2>1, <3>1, <3>2, <3>3
    <3>4. CASE j = Len(revs')
      BY <1>2, <2>2, <3>2, <3>4
    <3>5. QED
      BY <1>2, <3>3, <3>4
  <2>4. QED
    BY <1>3, <2>3 DEF DatesGrow
<1>8. CacheKept'
  BY <1>1, <1>2, <1>3 DEF CacheKept
<1>9. FormsShow'
  <2>1. SUFFICES ASSUME NEW v \in Users, form'[v] # Null, form'[v].forPage
                 PROVE  /\ form'[v].base \in 1..Len(revs')
                        /\ revs'[form'[v].base].text \subseteq form'[v].shown
                        /\ revs'[Len(revs')].date <= form'[v].time
                             => revs'[Len(revs')].text \subseteq form'[v].shown
    BY DEF FormsShow, HasShown
  <2>2. form'[v] = form[v]
    BY <1>4, <2>1
  <2>3. /\ form[v].base \in 1..Len(revs)
        /\ revs[form[v].base].text \subseteq form[v].shown
    BY <2>1, <2>2 DEF PageInv, FormsShow, HasShown
  <2>4. form[v].time < req[u].rev.date
    BY <1>1, <2>1, <2>2 DEF PageInv, DatesGrow
  <2>5. form[v].time \in Int /\ req[u].rev.date \in Int
    BY <1>2, <2>1, <2>2 DEF PageInv, PageTyped, Form, Revision, OneByOne, WikiPageAssumption
  <2>6. QED
    BY <1>2, <2>2, <2>3, <2>4, <2>5
<1>10. QED
  BY <1>5, <1>6, <1>7, <1>8, <1>9 DEF PageInv

-----------------------------------------------------------------------------
\* The strengthened invariant of a wiki page holds in every reachable state.
THEOREM PageInvariant == ASSUME OneByOne PROVE Spec => []PageInv
<1>1. Init => PageInv
  BY InitInv
<1>2. ASSUME PageInv, [Next]_vars PROVE PageInv'
  <2>1. ASSUME NEW u \in Users, Begin(u) \/ Show(u) \/ ListPages(u) \/ OpenForm(u) PROVE PageInv'
    BY <1>2, <2>1, BeginInv, ShowInv, ListPagesInv, OpenFormInv
  <2>2. ASSUME NEW u \in Users, Post(u) \/ Delete(u) PROVE PageInv'
    BY <1>2, <2>2, PostInv, DeleteInv
  <2>3. ASSUME NEW u \in Users, NEW i \in 1..MaxRevs, Revert(u, i) PROVE PageInv'
    BY <1>2, <2>3, RevertInv
  <2>4. ASSUME NEW u \in Users, Commit(u) \/ Abort(u) PROVE PageInv'
    BY <1>2, <2>4, CommitInv, AbortInv
  <2>5. CASE Tick \/ Expire
    BY <1>2, <2>5, TickInv, ExpireInv
  <2>6. CASE UNCHANGED vars
    <3>1. clock' \in 0..MaxClock
      BY <1>2, <2>6 DEF vars, PageInv, PageTyped
    <3>2. QED
      BY <1>2, <2>6, <3>1, AsideInv DEF vars
  <2>7. QED
    BY <1>2, <2>1, <2>2, <2>3, <2>4, <2>5, <2>6 DEF Next
<1>3. QED
  BY <1>1, <1>2, PTL DEF Spec

\* Saving a form drops nothing that another user has written and the form has neither
\* shown nor passed by (do_edit compares the time of the form with the newest revision,
\* and merges; a preview and ?rev= take the time without showing the revision).
THEOREM NoUnseenLossHolds == ASSUME OneByOne PROVE Spec => NoUnseenLoss
<1>1. ASSUME PageInv
      PROVE  \A u \in Users :
                Commit(u) /\ req[u].kind = "edit" /\ form[u].forPage =>
                    revs[lastRev].text \subseteq req[u].rev.text \cup form[u].shown
  <2> SUFFICES ASSUME NEW u \in Users, Commit(u), req[u].kind = "edit", form[u].forPage
               PROVE  revs[lastRev].text \subseteq req[u].rev.text \cup form[u].shown
    OBVIOUS
  <2>1. Waiting(u)
    BY DEF Commit
  <2>2. form[u] # Null /\ revs[Len(revs)].date <= form[u].time
    BY <1>1, <2>1 DEF PageInv, SavedSeen
  <2>3. form[u].base \in 1..Len(revs) /\ revs[Len(revs)].text \subseteq form[u].shown
    BY <1>1, <2>2 DEF PageInv, FormsShow, HasShown
  <2>4. lastRev = Len(revs)
    BY <1>1, <2>3 DEF PageInv, PageTyped, CacheKept
  <2>5. QED
    BY <2>3, <2>4
<1>2. QED
  BY <1>1, PageInvariant, PTL DEF NoUnseenLoss

-----------------------------------------------------------------------------
(* The cached list of pages.                                               *)

LEMMA ListStays ==
    ASSUME PageInv, ListIsCurrent, UNCHANGED <<revs, lastRev>>, listed' \in {Null, listed}
    PROVE  ListIsCurrent'
BY DEF ListIsCurrent, StateOf

LEMMA ListStep ==
    ASSUME OneByOne, PageInv, Next, ListIsCurrent,
           ~\E u \in Users : Commit(u) /\ req[u].kind = "revert"
    PROVE  ListIsCurrent'
<1>1. ASSUME NEW u \in Users, Begin(u) \/ Show(u) \/ OpenForm(u) \/ Abort(u) PROVE ListIsCurrent'
  BY <1>1, ListStays DEF Begin, Show, OpenForm, Reply, Abort
<1>2. ASSUME NEW u \in Users, ListPages(u) PROVE ListIsCurrent'
  <2>1. Running(u) /\ revs' = revs /\ lastRev' = lastRev
    BY <1>2 DEF ListPages
  <2>2. CASE Len(revs) = 0
    BY <1>2, <2>1, <2>2, NewestIsLast DEF ListPages, ListIsCurrent, StateOf
  <2>3. CASE Len(revs) # 0
    <3>1. listed' = StateOf(Len(revs), Len(revs)) /\ lastRev = Len(revs)
      BY <1>2, <2>1, <2>3, NewestIsLast DEF ListPages, PageInv, CacheKept
    <3>2. QED
      BY <2>1, <3>1 DEF ListIsCurrent, StateOf
  <2>4. QED
    BY <2>2, <2>3
<1>3. ASSUME NEW u \in Users, Post(u) PROVE ListIsCurrent'
  <2>1. \A text, base, r : PostAny(u, text, base, r) => listed' \in {Null, listed}
    BY DEF PostAny, PostEdit, Preview, Reply, ListAfterEdit
  <2>2. \A text : PostCreate(u, text) => listed' \in {Null, listed}
    BY DEF PostCreate, Reply, ListAfterCreate
  <2>3. listed' \in {Null, listed} /\ UNCHANGED <<revs, lastRev>>
    BY <1>3, <2>1, <2>2 DEF Post
  <2>4. QED
    BY <2>3, ListStays
<1>4. ASSUME NEW u \in Users, Delete(u) PROVE ListIsCurrent'
  <2>1. listed' \in {Null, listed} /\ UNCHANGED <<revs, lastRev>>
    BY <1>4 DEF Delete, ListAfterEdit
  <2>2. QED
    BY <2>1, ListStays
<1>5. ASSUME NEW u \in Users, NEW i \in 1..MaxRevs, Revert(u, i) PROVE ListIsCurrent'
  BY <1>5, ListStays DEF Revert
<1>6. ASSUME NEW u \in Users, Commit(u) PROVE ListIsCurrent'
  <2>1. Waiting(u) /\ req[u].kind # "revert" /\ listed' = listed
    BY <1>6 DEF Commit
  <2>2. /\ Len(revs) \in Nat /\ Len(revs') = Len(revs) + 1
        /\ revs'[Len(revs')] = req[u].rev /\ lastRev' = Len(revs')
    BY <1>6, Committed
  <2>3. CASE listed = Null
    BY <2>1, <2>3 DEF ListIsCurrent
  <2>4. CASE listed # Null
    <3>1. Len(revs) # 0 /\ revs[Len(revs)].deleted = req[u].rev.deleted
      BY <2>1, <2>4 DEF PageInv, ListDropped
    <3>2. lastRev = Len(revs)
      BY <3>1 DEF PageInv, CacheKept
    <3>3. listed = StateOf(Len(revs), Len(revs))
      BY <2>4, <3>2 DEF ListIsCurrent
    <3>4. Len(revs') # 0
      BY <2>2
    <3>5. QED
      BY <2>1, <2>2, <3>1, <3>3, <3>4 DEF ListIsCurrent, StateOf
  <2>5. QED
    BY <2>3, <2>4
<1>7. CASE Tick \/ Expire
  BY <1>7, ListStays DEF Tick, Expire
<1>8. QED
  BY <1>1, <1>2, <1>3, <1>4, <1>5, <1>6, <1>7 DEF Next

\* What is cached of a page is its newest committed revision, and the list of pages
\* that is cached becomes wrong by the restoring of a revision only.
THEOREM PagesCachedRightHolds == ASSUME OneByOne PROVE Spec => PagesCachedRight
<1>1. ASSUME PageInv, PageInv', Next
      PROVE  /\ CachedIsLatest'
             /\ ListIsCurrent /\ ~ListIsCurrent' =>
                  \E u \in Users : Commit(u) /\ req[u].kind = "revert"
  <2>1. CachedIsLatest'
    BY <1>1 DEF PageInv, CacheKept, CachedIsLatest
  <2>2. QED
    BY <1>1, <2>1, ListStep
<1>2. QED
  BY <1>1, PageInvariant, PTL DEF Spec, PagesCachedRight

-----------------------------------------------------------------------------
(* Private messages.                                                        *)

MessagesTyped ==
  /\ author = [m \in Messages |-> author[m]]
  /\ entry \in [Entries -> EntryRow \union {Unset}]
  /\ badge = [u \in PMUsers |-> badge[u]]
  /\ \A r \in running : /\ r.kind \in {"write", "list"}
                        /\ r.uses \subseteq Entries
                        /\ r.recounts \subseteq PMUsers

\* Who has an entry of a message, or works on one, was sent it.
SentOnly ==
  /\ \A e \in Entries : entry[e] # Unset => author[e[1]] # Unset
  /\ \A r \in running : \A e \in r.uses : author[e[1]] # Unset

Sending(r) == r.kind = "write" /\ r.page = Unset
Showing(r) == r.kind = "write" /\ r.page # Unset

\* Nobody else works on the entries of a message before they are written, and the
\* count of who gets an unread one is emptied.
SendKept(r) ==
  Sending(r) =>
    \A e \in r.uses : /\ entry[e] = Unset
                      /\ r.rows[e] \in EntryRow
                      /\ r.rows[e].read \/ OwnerOf(e) \in r.recounts
                      /\ \A q \in running : e \in q.uses => q = r

\* An entry that is shown becomes read, and its owner's count is emptied unless it was.
ShowKept(r) ==
  Showing(r) =>
    \A e \in r.uses : /\ entry[e] # Unset
                      /\ r.rows[e] \in EntryRow
                      /\ r.rows[e].read
                      /\ entry[e].read \/ OwnerOf(e) \in r.recounts

\* Marked entries are of one user, and in the folder of the page unless another
\* request has used them too.
ListedKept(r) ==
  r.kind = "list" =>
    /\ \E v \in PMUsers : r.uses # {} /\ \A e \in r.uses : OwnerOf(e) = v
    /\ \A e \in r.uses : /\ entry[e] # Unset
                         /\ entry[e].folder = r.page \/ e \in crossed

\* Two requests that work on one entry have crossed.
Apart ==
  \A q, r \in running : q # r => q.uses \cap r.uses \subseteq crossed

\* A count that a request will change is not cached, or was cached too early.
CountsEmptied ==
  \A r \in running : \A u \in r.recounts : badge[u] = Unset \/ u \in early

RequestsKept == \A r \in running : SendKept(r) /\ ShowKept(r) /\ ListedKept(r)

MessagesInv == /\ MessagesTyped /\ SentOnly /\ RequestsKept /\ Apart /\ CountsEmptied
               /\ BadgesCurrent /\ PurgedFromTrash

-----------------------------------------------------------------------------

LEMMA MessagesInitInv == ASSUME MessagesAssumption, MessagesInit PROVE MessagesInv
  BY DEF MessagesInit, MessagesInv, MessagesTyped, SentOnly, RequestsKept, Apart, CountsEmptied,
         BadgesCurrent, PurgedFromTrash

\* A count is that of the rows: it stays where they do.
LEMMA UnreadSame ==
    ASSUME NEW u \in PMUsers,
           \A e \in Entries : OwnerOf(e) = u =>
             (entry'[e] # Unset /\ ~entry'[e].read <=> entry[e] # Unset /\ ~entry[e].read)
    PROVE  Unread(u)' = Unread(u)
<1>1. {e \in EntriesOf(u) : ~entry[e].read}' = {e \in EntriesOf(u) : ~entry[e].read}
  BY DEF EntriesOf
<1>2. QED
  BY <1>1 DEF Unread

LEMMA HeaderInv ==
    ASSUME MessagesInv, NEW u \in PMUsers, Header(u) PROVE MessagesInv'
<1>1. \A v \in PMUsers : Unread(v)' = Unread(v)
  BY UnreadSame DEF Header
<1>2. BadgesCurrent'
  BY <1>1 DEF MessagesInv, MessagesTyped, BadgesCurrent, Header
<1>3. CountsEmptied'
  BY DEF MessagesInv, MessagesTyped, CountsEmptied, Header
<1>4. MessagesTyped' /\ SentOnly' /\ Apart' /\ PurgedFromTrash' /\ RequestsKept'
  BY DEF MessagesInv, MessagesTyped, SentOnly, Apart, PurgedFromTrash, Header,
         RequestsKept, SendKept, ShowKept, ListedKept, Sending, Showing
<1>5. QED
  BY <1>2, <1>3, <1>4 DEF MessagesInv

LEMMA BadgeExpiresInv ==
    ASSUME MessagesInv, NEW u \in PMUsers, BadgeExpires(u) PROVE MessagesInv'
<1>1. \A v \in PMUsers : Unread(v)' = Unread(v)
  BY UnreadSame DEF BadgeExpires
<1>2. BadgesCurrent'
  BY <1>1 DEF MessagesInv, MessagesTyped, BadgesCurrent, BadgeExpires
<1>3. CountsEmptied'
  BY DEF MessagesInv, MessagesTyped, CountsEmptied, BadgeExpires
<1>4. MessagesTyped' /\ SentOnly' /\ Apart' /\ PurgedFromTrash' /\ RequestsKept'
  BY DEF MessagesInv, MessagesTyped, SentOnly, Apart, PurgedFromTrash, BadgeExpires,
         RequestsKept, SendKept, ShowKept, ListedKept, Sending, Showing
<1>5. QED
  BY <1>2, <1>3, <1>4 DEF MessagesInv

\* A request that starts finds the others as they were: it has to be as it should itself.
LEMMA StartRequestInv ==
    ASSUME MessagesInv, NEW r, StartRequest(r),
           author' = [m \in Messages |-> author'[m]],
           \A m \in Messages : author[m] # Unset => author'[m] # Unset,
           r.kind \in {"write", "list"}, r.uses \subseteq Entries, r.recounts \subseteq PMUsers,
           \A e \in r.uses : author'[e[1]] # Unset,
           Sending(r) => \A e \in r.uses : /\ entry[e] = Unset
                                           /\ r.rows[e] \in EntryRow
                                           /\ r.rows[e].read \/ OwnerOf(e) \in r.recounts
                                           /\ \A q \in running : e \notin q.uses,
           ~Sending(r) => \A e \in r.uses : entry[e] # Unset,
           ShowKept(r),
           ListedKept(r)
    PROVE  MessagesInv'
<1> USE DEF MessagesInv
<1>a. /\ running' = running \union {r}
      /\ badge' = Recounted(r.recounts)
      /\ early' = early \ r.recounts /\ unsynced' = unsynced \ r.recounts
      /\ crossed' = crossed \union {e \in r.uses : \E q \in running : e \in q.uses}
      /\ entry' = entry /\ mistaken' = mistaken
  BY DEF StartRequest
<1>1. \A v \in PMUsers : Unread(v)' = Unread(v)
  BY <1>a, UnreadSame
<1>2. BadgesCurrent'
  BY <1>1, <1>a DEF BadgesCurrent, Recounted, MessagesTyped
<1>3. CountsEmptied'
  BY <1>a DEF MessagesTyped, CountsEmptied, Recounted
<1>4. MessagesTyped'
  BY <1>a DEF MessagesTyped, Recounted
<1>5. SentOnly'
  <2>1. \A e \in Entries : e[1] \in Messages
    BY DEF Entries
  <2>2. QED
    BY <1>a, <2>1 DEF MessagesTyped, SentOnly
<1>6. Apart' /\ PurgedFromTrash'
  BY <1>a DEF Apart, PurgedFromTrash
<1>7. RequestsKept'
  <2> SUFFICES ASSUME NEW q \in running' PROVE SendKept(q)' /\ ShowKept(q)' /\ ListedKept(q)'
    BY DEF RequestsKept
  <2>1. CASE q = r /\ r \notin running
    BY <2>1, <1>a DEF SendKept, ShowKept, ListedKept, Sending, Showing
  <2>2. CASE q \in running
    <3>1. SendKept(q) /\ ShowKept(q) /\ ListedKept(q)
      BY <2>2 DEF RequestsKept
    <3>2. SendKept(q)'
      BY <2>2, <3>1, <1>a DEF SendKept, Sending
    <3>3. ShowKept(q)' /\ ListedKept(q)'
      BY <3>1, <1>a DEF ShowKept, ListedKept, Showing
    <3>4. QED
      BY <3>2, <3>3
  <2>3. QED
    BY <2>1, <2>2, <1>a
<1>8. QED
  BY <1>2, <1>3, <1>4, <1>5, <1>6, <1>7

LEMMA SendInv ==
    ASSUME MessagesAssumption, MessagesInv, NEW m \in Messages, NEW u \in PMUsers, Send(m, u)
    PROVE  MessagesInv'
<1>1. PICK to \in (SUBSET (PMUsers \ {u})) \ {{}} :
        StartRequest([kind |-> "write", page |-> Unset, uses |-> {m} \X (to \union {u}), recounts |-> to,
                      rows |-> [e \in {m} \X (to \union {u}) |->
                                  IF OwnerOf(e) = u THEN [read |-> TRUE, folder |-> "sent"]
                                                    ELSE [read |-> FALSE, folder |-> "inbox"]]])
  BY DEF Send
<1> DEFINE rows == [e \in {m} \X (to \union {u}) |->
                      IF OwnerOf(e) = u THEN [read |-> TRUE, folder |-> "sent"]
                                        ELSE [read |-> FALSE, folder |-> "inbox"]]
           r == [kind |-> "write", page |-> Unset, uses |-> {m} \X (to \union {u}), recounts |-> to,
                 rows |-> rows]
<1>2. /\ r.kind = "write" /\ r.page = Unset /\ r.uses = {m} \X (to \union {u})
      /\ r.recounts = to /\ r.rows = rows
  OBVIOUS
<1>3. \A e \in r.uses : e \in Entries /\ e[1] = m /\ OwnerOf(e) \in to \union {u}
  BY <1>2 DEF Entries, OwnerOf
<1>4. author[m] = Unset /\ author' = [author EXCEPT ![m] = u] /\ u # Unset
  BY DEF Send, MessagesAssumption
<1>5. \A e \in r.uses : r.rows[e] \in EntryRow /\ (r.rows[e].read \/ OwnerOf(e) \in r.recounts)
  <2> SUFFICES ASSUME NEW e \in r.uses
               PROVE  r.rows[e] \in EntryRow /\ (r.rows[e].read \/ OwnerOf(e) \in r.recounts)
    OBVIOUS
  <2>1. r.rows[e] = IF OwnerOf(e) = u THEN [read |-> TRUE, folder |-> "sent"]
                                      ELSE [read |-> FALSE, folder |-> "inbox"]
    BY <1>2
  <2>2. QED
    BY <2>1, <1>2, <1>3 DEF EntryRow, Folders
<1>6. \A e \in r.uses : entry[e] = Unset /\ \A q \in running : e \notin q.uses
  BY <1>3, <1>4 DEF MessagesInv, SentOnly
<1>7. /\ author' = [n \in Messages |-> author'[n]]
      /\ \A n \in Messages : author[n] # Unset => author'[n] # Unset
      /\ author'[m] # Unset
  BY <1>4 DEF MessagesInv, MessagesTyped
<1>8. Sending(r) /\ ShowKept(r) /\ ListedKept(r)
  BY <1>2 DEF Sending, Showing, ShowKept, ListedKept
<1> HIDE DEF r
<1>9. StartRequest(r)
  BY <1>1 DEF r
<1>10. QED
  BY <1>2, <1>3, <1>5, <1>6, <1>7, <1>8, <1>9, StartRequestInv

LEMMA ShowEntryInv ==
    ASSUME MessagesAssumption, MessagesInv, NEW e \in Entries, ShowEntry(e) PROVE MessagesInv'
<1>1. PICK action \in {"view", "archive", "restore", "delete"} :
        StartRequest([kind |-> "write", page |-> entry[e].folder, uses |-> {e},
                      recounts |-> IF entry[e].read THEN {} ELSE {OwnerOf(e)},
                      rows |-> [d \in {e} |-> [read |-> TRUE, folder |-> MovedTo(e, action)]]])
  BY DEF ShowEntry
<1> DEFINE r == [kind |-> "write", page |-> entry[e].folder, uses |-> {e},
                 recounts |-> IF entry[e].read THEN {} ELSE {OwnerOf(e)},
                 rows |-> [d \in {e} |-> [read |-> TRUE, folder |-> MovedTo(e, action)]]]
<1>2. /\ r.kind = "write" /\ r.page = entry[e].folder /\ r.uses = {e}
      /\ r.recounts = IF entry[e].read THEN {} ELSE {OwnerOf(e)}
      /\ r.rows[e] = [read |-> TRUE, folder |-> MovedTo(e, action)]
  OBVIOUS
<1>3. /\ entry[e] # Unset /\ entry[e].folder # Unset /\ author' = author
      /\ entry[e] \in EntryRow /\ OwnerOf(e) \in PMUsers /\ e[1] \in Messages
  BY DEF ShowEntry, MessagesInv, MessagesTyped, Entries, OwnerOf
<1>4. MovedTo(e, action) \in Folders \union {Unset}
  BY <1>3 DEF MovedTo, Origin, DeletedTo, Folders, EntryRow
<1>5. ShowKept(r)
  BY <1>2, <1>3, <1>4 DEF ShowKept, EntryRow
<1>6. ~Sending(r) /\ ListedKept(r)
  BY <1>2, <1>3 DEF Sending, ListedKept
<1>7. author[e[1]] # Unset
  BY <1>3 DEF MessagesInv, SentOnly
<1> HIDE DEF r
<1>8. StartRequest(r)
  BY <1>1 DEF r
<1>9. /\ author' = [m \in Messages |-> author'[m]]
      /\ \A m \in Messages : author[m] # Unset => author'[m] # Unset
  BY <1>3 DEF MessagesInv, MessagesTyped
<1>10. QED
  BY <1>2, <1>3, <1>5, <1>6, <1>7, <1>8, <1>9, StartRequestInv

LEMMA SelectMarkedInv ==
    ASSUME MessagesInv, NEW u \in PMUsers, NEW f \in Folders, SelectMarked(u, f) PROVE MessagesInv'
<1>1. PICK marked \in (SUBSET Choices(u, f)) \ {{}} :
        StartRequest([kind |-> "list", page |-> f, uses |-> marked, recounts |-> {}, rows |-> <<>>])
  BY DEF SelectMarked
<1> DEFINE r == [kind |-> "list", page |-> f, uses |-> marked, recounts |-> {}, rows |-> <<>>]
<1>2. r.kind = "list" /\ r.page = f /\ r.uses = marked /\ r.recounts = {}
  OBVIOUS
<1>3. \A e \in marked : /\ e \in Entries /\ OwnerOf(e) = u /\ entry[e] # Unset
                        /\ entry[e].folder = f
  BY DEF Choices, EntriesOf
<1>4. author' = author
  BY DEF SelectMarked
<1>5. ShowKept(r) /\ ListedKept(r) /\ ~Sending(r)
  <2>1. marked # {} /\ \A e \in r.uses : OwnerOf(e) = u
    BY <1>2, <1>3
  <2>2. ListedKept(r)
    BY <2>1, <1>2, <1>3 DEF ListedKept
  <2>3. QED
    BY <2>2, <1>2 DEF ShowKept, Showing, Sending
<1>6. \A e \in r.uses : author[e[1]] # Unset
  BY <1>2, <1>3 DEF MessagesInv, SentOnly
<1> HIDE DEF r
<1>7. StartRequest(r)
  BY <1>1 DEF r
<1>8. /\ author' = [m \in Messages |-> author'[m]]
      /\ \A m \in Messages : author[m] # Unset => author'[m] # Unset
  BY <1>4 DEF MessagesInv, MessagesTyped
<1>9. QED
  BY <1>2, <1>3, <1>4, <1>5, <1>6, <1>7, <1>8, StartRequestInv

LEMMA WriteEntriesInv ==
    ASSUME MessagesAssumption, MessagesInv, NEW r \in running, WriteEntries(r) PROVE MessagesInv'
<1> USE DEF MessagesInv
<1>a. /\ r.kind = "write"
      /\ running' = running \ {r}
      /\ entry' = [e \in Entries |-> IF e \in r.uses THEN r.rows[e] ELSE entry[e]]
      /\ UNCHANGED <<author, badge, early, unsynced, crossed, mistaken>>
  BY DEF WriteEntries
<1>b. SendKept(r) /\ ShowKept(r) /\ r.uses \subseteq Entries
  BY DEF RequestsKept, MessagesTyped
<1>c. \A e \in r.uses : r.rows[e] \in EntryRow /\ r.rows[e] # Unset
  BY <1>a, <1>b DEF SendKept, ShowKept, Sending, Showing, MessagesAssumption
<1>d. \A e \in r.uses : e \in Entries /\ entry'[e] = r.rows[e]
  BY <1>a, <1>b
<1>e. \A e \in Entries \ r.uses : entry'[e] = entry[e]
  BY <1>a
\* Who is not recounted had read what he has, or never had it and gets it read.
<1>1. \A v \in PMUsers : v \notin r.recounts => Unread(v)' = Unread(v)
  <2> SUFFICES ASSUME NEW v \in PMUsers, v \notin r.recounts PROVE Unread(v)' = Unread(v)
    OBVIOUS
  <2>1. ASSUME NEW e \in r.uses, OwnerOf(e) = v
        PROVE  r.rows[e].read /\ (entry[e] = Unset \/ entry[e].read)
    BY <2>1, <1>a, <1>b DEF SendKept, ShowKept, Sending, Showing
  <2>2. \A e \in Entries : OwnerOf(e) = v =>
          (entry'[e] # Unset /\ ~entry'[e].read <=> entry[e] # Unset /\ ~entry[e].read)
    BY <2>1, <1>d, <1>e
  <2>3. QED
    BY <2>2, UnreadSame
<1>2. BadgesCurrent'
  BY <1>1, <1>a DEF BadgesCurrent, CountsEmptied
<1>3. CountsEmptied' /\ Apart' /\ PurgedFromTrash'
  BY <1>a DEF CountsEmptied, Apart, PurgedFromTrash
<1>4. MessagesTyped'
  BY <1>a, <1>c DEF MessagesTyped
<1>5. SentOnly'
  BY <1>a, <1>b, <1>d, <1>e DEF SentOnly
<1>6. RequestsKept'
  <2> SUFFICES ASSUME NEW q \in running, q # r PROVE SendKept(q)' /\ ShowKept(q)' /\ ListedKept(q)'
    BY <1>a DEF RequestsKept
  <2>1. SendKept(q) /\ ShowKept(q) /\ ListedKept(q) /\ q.uses \subseteq Entries
    BY DEF RequestsKept, MessagesTyped
  <2>2. SendKept(q)'
    BY <2>1, <1>a, <1>e DEF SendKept, Sending
  <2>3. ShowKept(q)'
    <3>1. ASSUME Showing(q), NEW e \in q.uses, e \in r.uses PROVE Showing(r)
      BY <3>1, <1>a, <1>b DEF SendKept, Sending, Showing
    <3>2. ASSUME Showing(q), NEW e \in q.uses PROVE entry'[e] # Unset /\ (entry'[e].read \/ OwnerOf(e) \in q.recounts)
      BY <3>1, <3>2, <2>1, <1>b, <1>c, <1>d, <1>e DEF ShowKept
    <3>3. QED
      BY <2>1, <3>2 DEF ShowKept, Showing
  <2>4. ListedKept(q)'
    <3>1. q.uses \cap r.uses \subseteq crossed
      BY DEF Apart
    <3>2. QED
      BY <2>1, <3>1, <1>a, <1>c, <1>d, <1>e DEF ListedKept
  <2>5. QED
    BY <2>2, <2>3, <2>4
<1>7. QED
  BY <1>2, <1>3, <1>4, <1>5, <1>6

LEMMA UpdateMarkedInv ==
    ASSUME MessagesAssumption, MessagesInv, NEW r \in running, UpdateMarked(r) PROVE MessagesInv'
<1> USE DEF MessagesInv
<1> DEFINE u == CHOOSE v \in PMUsers : \E e \in r.uses : OwnerOf(e) = v
<1>a. /\ r.kind = "list"
      /\ running' = running \ {r}
      /\ entry' = [e \in Entries |-> IF e \in r.uses THEN Trashed(entry[e]) ELSE entry[e]]
      /\ unsynced' = IF Unread(u)' # Unread(u) THEN unsynced \union {u} ELSE unsynced
      /\ mistaken' = mistaken \union {e \in r.uses : r.page # "trash" /\ entry[e].folder = "trash"}
      /\ UNCHANGED <<author, badge, early, crossed>>
  BY DEF UpdateMarked
<1>b. ListedKept(r) /\ r.uses \subseteq Entries
  BY DEF RequestsKept, MessagesTyped
<1>c. \A e \in r.uses : OwnerOf(e) = u
  BY <1>a, <1>b DEF ListedKept
<1> HIDE DEF u
<1>d. \A e \in r.uses : /\ e \in Entries /\ entry[e] # Unset /\ entry[e] \in EntryRow
                        /\ entry'[e] = Trashed(entry[e])
  BY <1>a, <1>b DEF ListedKept, MessagesTyped
<1>e. \A e \in Entries \ r.uses : entry'[e] = entry[e]
  BY <1>a
<1>f. \A e \in r.uses : entry'[e] \in EntryRow /\ (entry[e].read => entry'[e].read)
  <2> SUFFICES ASSUME NEW e \in r.uses
               PROVE  entry'[e] \in EntryRow /\ (entry[e].read => entry'[e].read)
    OBVIOUS
  <2>1. DeletedTo(entry[e].folder) \in Folders \union {Unset}
    BY DEF DeletedTo, Folders
  <2>2. Trashed(entry[e]) = [read   |-> entry[e].read \/ DeletedTo(entry[e].folder) = "trash",
                             folder |-> DeletedTo(entry[e].folder)]
    BY DEF Trashed
  <2> DEFINE read == entry[e].read \/ DeletedTo(entry[e].folder) = "trash"
  <2>3. read \in BOOLEAN /\ (entry[e].read => read)
    OBVIOUS
  <2>4. entry'[e] = [read |-> read, folder |-> DeletedTo(entry[e].folder)]
    BY <1>d, <2>2
  <2> HIDE DEF read
  <2>5. entry'[e] \in EntryRow
    BY <2>1, <2>3, <2>4 DEF EntryRow
  <2>6. QED
    BY <2>3, <2>4, <2>5
<1>g. \A e \in r.uses : entry'[e] # Unset
  BY <1>f DEF MessagesAssumption
<1>1. \A v \in PMUsers : v # u => Unread(v)' = Unread(v)
  BY <1>c, <1>e, UnreadSame
<1>2. BadgesCurrent'
  BY <1>1, <1>a DEF BadgesCurrent
<1>3. CountsEmptied' /\ Apart'
  BY <1>a DEF CountsEmptied, Apart
<1>4. PurgedFromTrash'
  BY <1>a, <1>b DEF PurgedFromTrash, ListedKept
<1>5. MessagesTyped'
  BY <1>a, <1>d, <1>e, <1>f DEF MessagesTyped
<1>6. SentOnly'
  BY <1>a, <1>d, <1>e DEF SentOnly
<1>7. RequestsKept'
  <2> SUFFICES ASSUME NEW q \in running, q # r PROVE SendKept(q)' /\ ShowKept(q)' /\ ListedKept(q)'
    BY <1>a DEF RequestsKept
  <2>1. SendKept(q) /\ ShowKept(q) /\ ListedKept(q) /\ q.uses \subseteq Entries
    BY DEF RequestsKept, MessagesTyped
  <2>2. SendKept(q)'
    BY <2>1, <1>a, <1>d, <1>e DEF SendKept, Sending
  <2>3. ShowKept(q)'
    BY <2>1, <1>e, <1>f, <1>g DEF ShowKept, Showing
  <2>4. ListedKept(q)'
    <3>1. q.uses \cap r.uses \subseteq crossed
      BY DEF Apart
    <3>2. QED
      BY <2>1, <3>1, <1>a, <1>e, <1>g DEF ListedKept
  <2>5. QED
    BY <2>2, <2>3, <2>4
<1>8. QED
  BY <1>2, <1>3, <1>4, <1>5, <1>6, <1>7

LEMMA RequestFailsInv ==
    ASSUME MessagesInv, NEW r \in running, RequestFails(r) PROVE MessagesInv'
<1>1. \A v \in PMUsers : Unread(v)' = Unread(v)
  BY UnreadSame DEF RequestFails
<1>2. BadgesCurrent'
  BY <1>1 DEF MessagesInv, BadgesCurrent, RequestFails
<1>3. MessagesTyped' /\ SentOnly' /\ Apart' /\ PurgedFromTrash' /\ CountsEmptied'
  BY DEF MessagesInv, MessagesTyped, SentOnly, Apart, PurgedFromTrash, CountsEmptied, RequestFails
<1>4. RequestsKept'
  BY DEF MessagesInv, RequestFails, RequestsKept, SendKept, ShowKept, ListedKept, Sending, Showing
<1>5. QED
  BY <1>2, <1>3, <1>4 DEF MessagesInv

LEMMA MessagesStepInv ==
    ASSUME MessagesAssumption, MessagesInv, [MessagesNext]_msgVars PROVE MessagesInv'
<1>1. CASE \E u \in PMUsers : Header(u) \/ BadgeExpires(u) \/ \E f \in Folders : SelectMarked(u, f)
  BY <1>1, HeaderInv, BadgeExpiresInv, SelectMarkedInv
<1>2. CASE \E m \in Messages, u \in PMUsers : Send(m, u)
  BY <1>2, SendInv
<1>3. CASE \E e \in Entries : ShowEntry(e)
  BY <1>3, ShowEntryInv
<1>4. CASE \E r \in running : WriteEntries(r) \/ UpdateMarked(r) \/ RequestFails(r)
  BY <1>4, WriteEntriesInv, UpdateMarkedInv, RequestFailsInv
<1>5. CASE UNCHANGED msgVars
  <2>1. \A v \in PMUsers : Unread(v)' = Unread(v)
    BY <1>5, UnreadSame DEF msgVars
  <2>2. BadgesCurrent'
    BY <1>5, <2>1 DEF MessagesInv, BadgesCurrent, msgVars
  <2>3. MessagesTyped' /\ SentOnly' /\ Apart'
    BY <1>5 DEF MessagesInv, MessagesTyped, SentOnly, Apart, msgVars
  <2>4. PurgedFromTrash' /\ CountsEmptied'
    BY <1>5 DEF MessagesInv, PurgedFromTrash, CountsEmptied, msgVars
  <2>5. RequestsKept'
    BY <1>5 DEF MessagesInv, msgVars, RequestsKept, SendKept, ShowKept, ListedKept, Sending, Showing
  <2>6. QED
    BY <2>2, <2>3, <2>4, <2>5 DEF MessagesInv
<1>6. QED
  BY <1>1, <1>2, <1>3, <1>4, <1>5 DEF MessagesNext

\* Whatever requests on private messages overlap, a request under way works on rows that
\* are as it needs them, and counts it will change are not cached or known to be early.
THEOREM MessagesInvariant == ASSUME MessagesAssumption PROVE MessagesSpec => []MessagesInv
<1>1. MessagesInit => MessagesInv
  BY MessagesInitInv
<1>2. MessagesInv /\ [MessagesNext]_msgVars => MessagesInv'
  BY MessagesStepInv
<1>3. QED
  BY <1>1, <1>2, PTL DEF MessagesSpec

\* The number of unread messages in the header is that of the rows, and messages are
\* deleted for good from the trash only, except where requests overlapped as named.
THEOREM MessagesTrueHolds == ASSUME MessagesAssumption PROVE MessagesSpec => []MessagesTrue
<1>1. MessagesInv => MessagesTrue
  BY DEF MessagesInv, MessagesTrue
<1>2. QED
  BY <1>1, MessagesInvariant, PTL

-----------------------------------------------------------------------------
(* Sessions.                                                                *)

\* What a copy of the session has kept: out, until and the messages still due say of
\* what was answered alone.
Keeps(s, o, u, d) == /\ o => ~s.user
                     /\ now < u => s.surge = u
                     /\ d \subseteq s.flash

Copy(s) == /\ s \in Session
           /\ s.key <= sessionKeys
           /\ Keeps(s, out, until, due \ shown)

\* A request under way.
Browsing == [at : {"view", "insert"}, kind : Kinds, session : Session,
             new : BOOLEAN, write : BOOLEAN, row : Nat]

SessionsTyped ==
  /\ now \in Nat \ {0} /\ told \in Nat /\ sessionKeys \in 0..MaxSessionKeys
  /\ out \in BOOLEAN /\ until \in Nat /\ seen \in 0..now
  /\ due \subseteq Nat /\ shown \subseteq Nat
  /\ infos \in [0..MaxSessionKeys -> 0..now]
  /\ requests \in [Requests -> Browsing \cup {NoRequest}]

\* A row that is to be inserted is one of the visitors'.
RequestKept(q) == q # NoRequest => /\ Copy(q.session)
                                   /\ q.at = "insert" => q.row \in 0..MaxSessionKeys

\* The row of the last visitor who came with a cookie is there as long as it counts.
LastSeenKept == seen # 0 /\ seen + Delta > now => \E k \in 0..MaxSessionKeys : infos[k] >= seen

SessionsInv == /\ SessionsTyped
               /\ jar # NoCookie => Copy(jar)
               /\ \A r \in Requests : RequestKept(requests[r])
               /\ LastSeenKept

-----------------------------------------------------------------------------

LEMMA SessionsInitInv == ASSUME SessionsAssumption, SessionsInit PROVE SessionsInv
<1>1. SessionsTyped /\ LastSeenKept
  <2>1. requests \in [Requests -> Browsing \cup {NoRequest}]
    BY DEF SessionsInit
  <2>2. infos \in [0..MaxSessionKeys -> 0..now] /\ seen \in 0..now /\ now = 1 /\ seen = 0
    BY DEF SessionsInit
  <2>3. told = 0 /\ sessionKeys = 0 /\ until = 0 /\ due = {} /\ shown = {}
    BY DEF SessionsInit
  <2>4. out \in BOOLEAN
    BY DEF SessionsInit
  <2>5. SessionsTyped
    BY <2>1, <2>2, <2>3, <2>4 DEF SessionsTyped, SessionsAssumption
  <2>6. QED
    BY <2>2, <2>5 DEF LastSeenKept
<1>2. \A r \in Requests : RequestKept(requests[r])
  BY DEF SessionsInit, RequestKept
<1>3. FreshSession({}) \in Session /\ FreshSession({}).key = 0 /\ FreshSession({}).flash = {}
  BY DEF SessionsAssumption, SessionsInit, FreshSession, Session
<1>4. jar # NoCookie => Copy(jar)
  <2> DEFINE session == [FreshSession({}) EXCEPT !.user = TRUE]
  <2>1. session \in Session /\ session.key = 0
    BY <1>3 DEF Session
  <2> HIDE DEF session
  <2>2. Copy(session)
    BY <2>1 DEF SessionsInit, Copy, Keeps
  <2>3. jar # NoCookie => jar = session
    BY DEF SessionsInit, session
  <2>4. QED
    BY <2>2, <2>3
<1>5. QED
  BY <1>1, <1>2, <1>4 DEF SessionsInv

LEMMA TimePassesInv == ASSUME SessionsAssumption, SessionsInv, TimePasses PROVE SessionsInv'
<1>1. SessionsTyped' /\ LastSeenKept'
  BY DEF SessionsAssumption, SessionsInv, TimePasses, SessionsTyped, LastSeenKept, sessionGhosts
<1>2. \A s : Copy(s) => Copy(s)'
  BY DEF SessionsInv, TimePasses, SessionsTyped, Copy, Keeps, sessionGhosts
<1>3. (jar # NoCookie => Copy(jar))' /\ (\A r \in Requests : RequestKept(requests[r]))'
  BY <1>2 DEF SessionsInv, TimePasses, RequestKept, sessionGhosts
<1>4. QED
  BY <1>1, <1>3 DEF SessionsInv

\* What a request opens is a copy of what the browser sent, or new.
LEMMA OpenedCopy ==
    ASSUME SessionsAssumption, SessionsInv,
           Opened(Sent).keyless => sessionKeys < MaxSessionKeys
    PROVE  /\ Opened(Sent).new \in BOOLEAN /\ Opened(Sent).keyless \in BOOLEAN
           /\ Opened(Sent).session \in Session
           /\ Opened(Sent).session.key <= sessionKeys + (IF Opened(Sent).keyless THEN 1 ELSE 0)
           /\ out => ~Opened(Sent).session.user
           /\ ~Opened(Sent).new => Keeps(Opened(Sent).session, out, until, due \ shown)
           /\ ~Opened(Sent).new => Opened(Sent).row \in 0..MaxSessionKeys
<1> DEFINE o == Opened(Sent)
           expired == Sent # NoCookie /\ Sent.ex < now
           new == Sent = NoCookie \/ expired
           messages == IF expired THEN {told + 1} ELSE {}
           session == IF new THEN FreshSession(messages) ELSE Sent
           keyless == ~new /\ ~session.user /\ session.key = 0
<1>1. Sent # NoCookie => Copy(Sent)
  BY DEF SessionsInv, Sent
<1>2. /\ o.session = IF keyless THEN [session EXCEPT !.key = sessionKeys + 1] ELSE session
      /\ o.new = new /\ o.keyless = keyless
      /\ o.row = IF session.user THEN UserKey ELSE IF keyless THEN sessionKeys + 1 ELSE session.key
  BY DEF Opened
<1>3. messages \subseteq Nat
  BY DEF SessionsInv, SessionsTyped
<1> HIDE DEF messages
<1>4. FreshSession(messages) \in Session /\ FreshSession(messages).key = 0 /\ ~FreshSession(messages).user
  BY <1>3 DEF FreshSession, Session, SessionsInv, SessionsTyped, SessionsAssumption
<1>5. session \in Session /\ session.key <= sessionKeys /\ (out => ~session.user)
      /\ (~new => Keeps(session, out, until, due \ shown))
  BY <1>1, <1>4 DEF Copy, Keeps, SessionsInv, SessionsTyped
<1>k. keyless => sessionKeys < MaxSessionKeys
  BY <1>2
<1> HIDE DEF session, o, new, keyless
<1>6. sessionKeys \in Nat /\ sessionKeys <= MaxSessionKeys /\ MaxSessionKeys \in Nat
      /\ (keyless => sessionKeys + 1 <= MaxSessionKeys)
  BY <1>k DEF SessionsInv, SessionsTyped, SessionsAssumption
<1>7. keyless \in BOOLEAN /\ new \in BOOLEAN
  BY DEF new, keyless
<1>8. o.session \in Session /\ o.session.key <= sessionKeys + (IF keyless THEN 1 ELSE 0)
      /\ o.session.user = session.user /\ o.session.surge = session.surge
      /\ o.session.flash = session.flash
  BY <1>2, <1>5, <1>6 DEF Session
<1>9. ~new => Keeps(o.session, out, until, due \ shown)
  BY <1>5, <1>8 DEF Keeps
<1>10. o.row \in 0..MaxSessionKeys
  BY <1>2, <1>5, <1>6 DEF Session, UserKey
<1>11. QED
  BY <1>2, <1>5, <1>7, <1>8, <1>9, <1>10 DEF o

LEMMA OpenedRow == ASSUME SessionsAssumption, SessionsInv PROVE Opened(Sent).row \in Nat
<1>1. Sent # NoCookie => Sent.key \in Nat
  BY DEF SessionsInv, Sent, Copy, Session
<1>2. \A m : FreshSession(m).key = 0
  BY DEF FreshSession
<1>3. QED
  BY <1>1, <1>2 DEF Opened, UserKey, SessionsInv, SessionsTyped

LEMMA ArriveInv ==
    ASSUME SessionsAssumption, SessionsInv, NEW r \in Requests, NEW kind \in Kinds,
           NEW hides \in BOOLEAN, Arrive(r, kind, hides)
    PROVE  SessionsInv'
<1> DEFINE o == Opened(Sent)
           counted == ~o.new /\ ~hides
           update == counted /\ infos[o.row] # 0
<1>a. /\ sessionKeys + (IF o.keyless THEN 1 ELSE 0) <= MaxSessionKeys
      /\ requests' = [requests EXCEPT ![r] =
             [at |-> IF counted /\ ~update THEN "insert" ELSE "view", kind |-> kind,
              session |-> o.session, new |-> o.new, write |-> o.new \/ o.keyless,
              row |-> o.row]]
      /\ infos' = IF update THEN [infos EXCEPT ![o.row] = now] ELSE infos
      /\ sessionKeys' = IF o.keyless THEN sessionKeys + 1 ELSE sessionKeys
      /\ told' = IF o.expired THEN told + 1 ELSE told
      /\ seen' = IF update THEN now ELSE seen
      /\ until' = IF o.new THEN 0 ELSE until
      /\ due' = IF o.new THEN {} ELSE due
      /\ UNCHANGED <<now, jar, shown, out>>
  BY DEF Arrive
<1>b. /\ o.new \in BOOLEAN /\ o.keyless \in BOOLEAN
      /\ o.session \in Session
      /\ o.session.key <= sessionKeys + (IF o.keyless THEN 1 ELSE 0)
      /\ out => ~o.session.user
      /\ ~o.new => Keeps(o.session, out, until, due \ shown)
      /\ ~o.new => o.row \in 0..MaxSessionKeys
  <2>1. o.keyless => sessionKeys < MaxSessionKeys
    BY <1>a DEF SessionsInv, SessionsTyped, SessionsAssumption
  <2>2. QED
    BY <2>1, OpenedCopy
<1> HIDE DEF o
<1>c. o.row \in Nat /\ o.expired \in BOOLEAN
  <2>1. o.row \in Nat
    BY OpenedRow DEF o
  <2>2. QED
    BY <2>1 DEF o, Opened
<1>d. SessionsTyped
  BY DEF SessionsInv
<1>1. SessionsTyped'
  <2>1. requests' \in [Requests -> Browsing \cup {NoRequest}]
    BY <1>a, <1>b, <1>c, <1>d DEF SessionsTyped, Browsing
  <2>2. infos' \in [0..MaxSessionKeys -> 0..now'] /\ seen' \in 0..now'
    BY <1>a, <1>b, <1>d DEF SessionsTyped
  <2>3. told' \in Nat /\ sessionKeys' \in 0..MaxSessionKeys
    BY <1>a, <1>b, <1>c, <1>d DEF SessionsTyped, SessionsAssumption
  <2>4. QED
    BY <2>1, <2>2, <2>3, <1>a, <1>d DEF SessionsTyped
<1>2. LastSeenKept'
  <2>1. CASE update
    BY <1>a, <1>b, <2>1 DEF SessionsInv, SessionsTyped, LastSeenKept
  <2>2. CASE ~update
    BY <1>a, <2>2 DEF SessionsInv, LastSeenKept
  <2>3. QED
    BY <2>1, <2>2
<1>3. ASSUME NEW s, Copy(s) PROVE Copy(s)'
  <2>1. s \in Session /\ s.key <= sessionKeys'
    BY <1>3, <1>a, <1>b, <1>d DEF Copy, Session, SessionsTyped
  <2>2. due' \ shown' \subseteq due \ shown /\ (now < until' => until' = until)
    BY <1>a, <1>d DEF SessionsTyped
  <2>3. QED
    BY <2>1, <2>2, <1>3, <1>a DEF Copy, Keeps
<1>4. ASSUME NEW s, s = o.session PROVE Copy(s)'
  <2>1. s \in Session /\ s.key <= sessionKeys'
    BY <1>4, <1>a, <1>b, <1>d DEF SessionsTyped
  <2>2. Keeps(s, out, until', due' \ shown)
    <3>1. CASE o.new
      <4>1. until' = 0 /\ due' = {}
        BY <3>1, <1>a
      <4>2. ~(now < until') /\ due' \ shown = {}
        BY <4>1, <1>d DEF SessionsTyped
      <4>3. QED
        BY <4>2, <1>4, <1>b DEF Keeps
    <3>2. CASE ~o.new
      BY <3>2, <1>4, <1>a, <1>b DEF Keeps
    <3>3. QED
      BY <3>1, <3>2
  <2>3. QED
    BY <2>1, <2>2, <1>a DEF Copy, Keeps
<1>5. RequestKept(requests[r])'
  <2>1. requests'[r].session = o.session /\ requests'[r].row = o.row
        /\ requests'[r].at = IF counted /\ ~update THEN "insert" ELSE "view"
    BY <1>a, <1>d DEF SessionsTyped
  <2>2. QED
    BY <2>1, <1>b, <1>4 DEF RequestKept
<1>6. (\A q \in Requests \ {r} : RequestKept(requests[q]))'
  <2>1. \A q \in Requests \ {r} : requests'[q] = requests[q]
    BY <1>a, <1>d DEF SessionsTyped
  <2>2. QED
    BY <2>1, <1>3 DEF SessionsInv, RequestKept
<1>7. (jar # NoCookie => Copy(jar))'
  BY <1>a, <1>3 DEF SessionsInv
<1>8. QED
  BY <1>1, <1>2, <1>5, <1>6, <1>7 DEF SessionsInv

LEMMA InsertInfoInv ==
    ASSUME SessionsAssumption, SessionsInv, NEW r \in Requests, InsertInfo(r) PROVE SessionsInv'
<1>a. /\ requests[r] # NoRequest /\ requests[r].at = "insert"
      /\ requests' = [requests EXCEPT ![r].at = "view"]
      /\ requests[r].row \in 0..MaxSessionKeys
      /\ UNCHANGED <<now, jar, sent, sessionKeys, told, shown, out, until, due>>
  BY DEF InsertInfo, NoRequest, sessionGhosts, SessionsInv, RequestKept
<1>b. requests[r] \in Browsing
  BY <1>a DEF SessionsInv, SessionsTyped
<1>1. SessionsTyped' /\ LastSeenKept'
  <2>1. [requests[r] EXCEPT !.at = "view"] \in Browsing
    BY <1>b DEF Browsing
  <2>2. requests' \in [Requests -> Browsing \cup {NoRequest}]
    BY <1>a, <2>1 DEF SessionsInv, SessionsTyped
  <2>3. SessionsTyped'
    BY <1>a, <2>2 DEF InsertInfo, SessionsInv, SessionsTyped
  <2>4. LastSeenKept'
    BY <1>a DEF InsertInfo, SessionsInv, SessionsTyped, LastSeenKept
  <2>5. QED
    BY <2>3, <2>4
<1>2. \A s : Copy(s) => Copy(s)'
  BY <1>a DEF Copy, Keeps
<1>3. Copy(requests[r].session) /\ requests'[r].session = requests[r].session /\ requests'[r].at = "view"
  BY <1>a, <1>b DEF SessionsInv, SessionsTyped, RequestKept, Browsing
<1>4. \A q \in Requests \ {r} : requests'[q] = requests[q]
  BY <1>a DEF SessionsInv, SessionsTyped
<1>5. (\A q \in Requests : RequestKept(requests[q]))'
  BY <1>2, <1>3, <1>4 DEF SessionsInv, RequestKept
<1>6. (jar # NoCookie => Copy(jar))'
  BY <1>a, <1>2 DEF SessionsInv
<1>7. QED
  BY <1>1, <1>5, <1>6 DEF SessionsInv

LEMMA TidiedTyped ==
    ASSUME NEW s \in Session, SessionsTyped
    PROVE  /\ Tidied(s) \in Session
           /\ Tidied(s).key <= s.key
           /\ Tidied(s).user = s.user /\ Tidied(s).flash = s.flash
           /\ Tidied(s).surge = IF s.surge > now THEN s.surge ELSE 0
<1> DEFINE surge == IF s.surge > now THEN s.surge ELSE 0
           key == IF s.user THEN 0 ELSE s.key
<1>1. Tidied(s) = [s EXCEPT !.surge = surge, !.key = key]
  BY DEF Tidied, Session
<1>2. surge \in Nat /\ key \in Nat /\ key <= s.key
  BY DEF Session
<1> HIDE DEF surge, key
<1>3. QED
  BY <1>1, <1>2 DEF Session, surge

\* An answer leaves the copies of the other requests, and puts one of its own into the
\* jar or none.
LEMMA RespondInv ==
    ASSUME SessionsAssumption, SessionsInv, NEW r \in Requests, NEW s \in Session, NEW write \in BOOLEAN,
           Respond(r, s, write), s.key <= sessionKeys,
           told' \in Nat, shown' \subseteq Nat, due' \subseteq Nat, out' \in BOOLEAN, until' \in Nat,
           \A c : /\ Copy(c)
                  /\ (\E q \in Requests \ {r} : requests[q] # NoRequest) \/ ~write
                  => Keeps(c, out', until', due' \ shown'),
           write \/ requests[r].write => Keeps(Tidied(s), out', until', due' \ shown')
    PROVE  SessionsInv'
<1>a. /\ jar' = IF write \/ requests[r].write THEN Tidied(s) ELSE jar
      /\ requests' = [requests EXCEPT ![r] = NoRequest]
      /\ UNCHANGED <<now, sent, infos, sessionKeys, seen>>
  BY DEF Respond
<1>1. SessionsTyped' /\ LastSeenKept'
  BY <1>a DEF SessionsInv, SessionsTyped, LastSeenKept
<1>2. \A c : Copy(c) /\ ((\E q \in Requests \ {r} : requests[q] # NoRequest) \/ ~write) => Copy(c)'
  BY <1>a DEF Copy, Keeps
<1>3. (\A q \in Requests : RequestKept(requests[q]))'
  <2>1. requests'[r] = NoRequest /\ \A q \in Requests \ {r} : requests'[q] = requests[q]
    BY <1>a DEF SessionsInv, SessionsTyped
  <2>2. QED
    BY <1>2, <2>1 DEF SessionsInv, RequestKept
<1>4. (jar # NoCookie => Copy(jar))'
  <2>1. CASE write \/ requests[r].write
    <3>1. /\ Tidied(s) \in Session /\ Tidied(s).key <= s.key
      BY TidiedTyped DEF SessionsInv
    <3>2. Tidied(s).key <= sessionKeys /\ sessionKeys' = sessionKeys
      BY <3>1, <1>a DEF Session, SessionsInv, SessionsTyped
    <3>3. QED
      BY <2>1, <3>1, <3>2, <1>a DEF Copy, Keeps
  <2>2. CASE ~(write \/ requests[r].write)
    BY <2>2, <1>a, <1>2 DEF SessionsInv
  <2>3. QED
    BY <2>1, <2>2
<1>5. QED
  BY <1>1, <1>3, <1>4 DEF SessionsInv

\* A page shows every message there is, so none that is due is forgotten.
LEMMA ShowPageInv ==
    ASSUME SessionsAssumption, SessionsInv, NEW r \in Requests, requests[r] # NoRequest,
           ShowPage(r, requests[r].session), UNCHANGED <<out, until>>
    PROVE  SessionsInv'
<1> DEFINE session == requests[r].session
           s == [session EXCEPT !.flash = {}]
<1>a. Copy(session)
  BY DEF SessionsInv, RequestKept
<1> HIDE DEF session
<1>b. /\ Respond(r, s, TRUE) /\ shown' = shown \cup session.flash
      /\ UNCHANGED <<told, due, out, until>>
  BY DEF ShowPage, session
<1>1. /\ s \in Session /\ s.key = session.key /\ s.flash = {} /\ s.user = session.user
      /\ s.surge = session.surge
  BY <1>a DEF Session, Copy
<1>2. due' \ shown' \subseteq {} /\ session.flash \subseteq Nat
  BY <1>a, <1>b DEF Copy, Keeps, Session
<1> HIDE DEF s
<1>3. Keeps(Tidied(s), out', until', due' \ shown')
  <2>1. SessionsTyped
    BY DEF SessionsInv
  <2>2. Tidied(s).user = s.user /\ Tidied(s).flash = s.flash
        /\ Tidied(s).surge = IF s.surge > now THEN s.surge ELSE 0
    BY <1>1, <2>1, TidiedTyped
  <2>3. QED
    BY <2>1, <2>2, <1>1, <1>2, <1>a, <1>b DEF Keeps, Copy, Session, SessionsTyped
<1>4. \A c : Copy(c) => Keeps(c, out', until', due' \ shown')
  BY <1>b DEF Copy, Keeps
<1>5. s.key <= sessionKeys
  BY <1>1, <1>a DEF Copy
<1>6. /\ told' \in Nat /\ shown' \subseteq Nat /\ due' \subseteq Nat /\ out' \in BOOLEAN /\ until' \in Nat
  BY <1>b, <1>2 DEF SessionsInv, SessionsTyped
<1>7. QED
  BY <1>1, <1>3, <1>4, <1>5, <1>6, <1>b, RespondInv

\* A message is added, by a request whose session s differs from what it was sent only
\* in the user and what hangs on him.
LEMMA FlashInv ==
    ASSUME SessionsAssumption, SessionsInv, NEW r \in Requests, requests[r] # NoRequest,
           NEW s \in Session, FlashAndRedirect(r, s), UNCHANGED until, out' \in BOOLEAN,
           s.surge = requests[r].session.surge, s.flash = requests[r].session.flash,
           s.key <= sessionKeys, out' => ~s.user,
           out' => out \/ Alone(r)
    PROVE  SessionsInv'
<1> DEFINE t == [s EXCEPT !.flash = @ \cup {told + 1}]
<1>a. Copy(requests[r].session)
  BY DEF SessionsInv, RequestKept
<1>b. /\ told' = told + 1 /\ Respond(r, t, TRUE)
      /\ due' = IF Alone(r) THEN due \cup {told + 1} ELSE due
      /\ UNCHANGED shown
  BY DEF FlashAndRedirect
<1>c. SessionsTyped /\ told + 1 \in Nat
  BY DEF SessionsInv, SessionsTyped
<1>1. /\ t \in Session /\ t.key = s.key /\ t.flash = s.flash \cup {told + 1}
      /\ t.user = s.user /\ t.surge = s.surge
  BY <1>c DEF Session
<1> HIDE DEF t
<1>2. Keeps(Tidied(t), out', until', due' \ shown')
  <2>1. Tidied(t).user = t.user /\ Tidied(t).flash = t.flash
        /\ Tidied(t).surge = IF t.surge > now THEN t.surge ELSE 0
    BY <1>1, <1>c, TidiedTyped
  <2>2. due' \ shown' \subseteq t.flash
    BY <1>1, <1>a, <1>b DEF Copy, Keeps
  <2>3. now < until' => t.surge = until' /\ t.surge > now
    BY <1>1, <1>a, <1>c DEF Copy, Keeps, SessionsTyped
  <2>4. QED
    BY <2>1, <2>2, <2>3, <1>1 DEF Keeps
<1>3. ASSUME NEW c, Copy(c), \E q \in Requests \ {r} : requests[q] # NoRequest
      PROVE  Keeps(c, out', until', due' \ shown')
  <2>1. ~Alone(r)
    BY <1>3 DEF Alone
  <2>2. QED
    BY <2>1, <1>3, <1>b DEF Copy, Keeps
<1>4. /\ told' \in Nat /\ shown' \subseteq Nat /\ due' \subseteq Nat /\ until' \in Nat
  BY <1>b, <1>c DEF SessionsTyped
<1>5. QED
  BY <1>1, <1>2, <1>3, <1>4, <1>b, RespondInv

\* An answer that flashes nothing and shows nothing leaves what is kept.
LEMMA PlainAnswerInv ==
    ASSUME SessionsAssumption, SessionsInv, NEW r \in Requests, requests[r] # NoRequest,
           NEW write \in BOOLEAN, Respond(r, requests[r].session, write),
           UNCHANGED <<told, shown, sessionGhosts>>
    PROVE  SessionsInv'
<1> DEFINE s == requests[r].session
<1>a. Copy(s) /\ SessionsTyped
  BY DEF SessionsInv, RequestKept
<1> HIDE DEF s
<1>1. s \in Session /\ s.key <= sessionKeys
  BY <1>a DEF Copy
<1>2. Keeps(Tidied(s), out', until', due' \ shown')
  <2>1. Tidied(s).user = s.user /\ Tidied(s).flash = s.flash
        /\ Tidied(s).surge = IF s.surge > now THEN s.surge ELSE 0
    BY <1>1, <1>a, TidiedTyped
  <2>2. QED
    BY <2>1, <1>a DEF Copy, Keeps, Session, SessionsTyped, sessionGhosts
<1>3. \A c : Copy(c) => Keeps(c, out', until', due' \ shown')
  BY DEF Copy, Keeps, sessionGhosts
<1>4. /\ told' \in Nat /\ shown' \subseteq Nat /\ due' \subseteq Nat /\ out' \in BOOLEAN /\ until' \in Nat
  BY <1>a DEF SessionsTyped, sessionGhosts
<1>5. Respond(r, s, write)
  BY DEF s
<1>6. QED
  BY <1>1, <1>2, <1>3, <1>4, <1>5, RespondInv

\* A form that is accepted notes when the next one is: the time before was over.
LEMMA AcceptedFormInv ==
    ASSUME SessionsAssumption, SessionsInv, NEW r \in Requests, requests[r] # NoRequest,
           ~(requests[r].session.surge >= now), AnswerForm(r)
    PROVE  SessionsInv'
<1> DEFINE session == requests[r].session
           s == [session EXCEPT !.surge = now + Timeout]
<1>a. Copy(session) /\ SessionsTyped
  BY DEF SessionsInv, RequestKept
<1>b. /\ Respond(r, s, TRUE)
      /\ until' = IF Alone(r) THEN now + Timeout ELSE until
      /\ UNCHANGED <<told, shown, due, out>>
  BY DEF AnswerForm
<1>c. ~(session.surge >= now)
  OBVIOUS
<1> HIDE DEF session
<1>d. now + Timeout \in Nat
  BY <1>a DEF SessionsTyped, SessionsAssumption
<1>1. /\ s \in Session /\ s.key = session.key /\ s.flash = session.flash
      /\ s.user = session.user /\ s.surge = now + Timeout
  BY <1>a, <1>d DEF Session, Copy
<1> HIDE DEF s
<1>2. ~(now < until)
  BY <1>a, <1>c DEF Copy, Keeps, Session, SessionsTyped
<1>3. Keeps(Tidied(s), out', until', due' \ shown')
  <2>1. Tidied(s).user = s.user /\ Tidied(s).flash = s.flash
        /\ Tidied(s).surge = IF s.surge > now THEN s.surge ELSE 0
    BY <1>1, <1>a, TidiedTyped
  <2>2. QED
    BY <2>1, <1>1, <1>2, <1>a, <1>b DEF Copy, Keeps, SessionsTyped, SessionsAssumption
<1>4. ASSUME NEW c, Copy(c), \E q \in Requests \ {r} : requests[q] # NoRequest
      PROVE  Keeps(c, out', until', due' \ shown')
  <2>1. ~Alone(r)
    BY <1>4 DEF Alone
  <2>2. QED
    BY <2>1, <1>2, <1>4, <1>b DEF Copy, Keeps
<1>5. /\ told' \in Nat /\ shown' \subseteq Nat /\ due' \subseteq Nat /\ out' \in BOOLEAN /\ until' \in Nat
  BY <1>a, <1>b, <1>d DEF SessionsTyped
<1>6. s.key <= sessionKeys
  BY <1>1, <1>a DEF Copy
<1>7. QED
  BY <1>1, <1>3, <1>4, <1>5, <1>6, <1>b, RespondInv

LEMMA AnswerLoginInv ==
    ASSUME SessionsAssumption, SessionsInv, NEW r \in Requests, requests[r] # NoRequest, AnswerLogin(r)
    PROVE  SessionsInv'
<1> DEFINE session == requests[r].session
<1>a. Copy(session) /\ SessionsTyped
  BY DEF SessionsInv, RequestKept
<1>b. session \in Session /\ session.key <= sessionKeys /\ (out => ~session.user) /\ out \in BOOLEAN
  BY <1>a DEF Copy, Keeps, SessionsTyped
<1>1. CASE session.user /\ FlashAndRedirect(r, session) /\ UNCHANGED <<out, until>>
  BY <1>1, <1>b, FlashInv
<1>2. CASE Respond(r, session, TRUE) /\ UNCHANGED <<told, shown, sessionGhosts>>
  BY <1>2, PlainAnswerInv
<1>3. ASSUME NEW permanent \in BOOLEAN,
             FlashAndRedirect(r, [session EXCEPT !.user = TRUE, !.key = 0, !.perm = @ \/ permanent]),
             out' = FALSE, UNCHANGED until
      PROVE  SessionsInv'
  <2> DEFINE s == [session EXCEPT !.user = TRUE, !.key = 0, !.perm = @ \/ permanent]
  <2>1. (session.perm \/ permanent) \in BOOLEAN
    OBVIOUS
  <2>2. s = [session EXCEPT !.user = TRUE, !.key = 0, !.perm = (session.perm \/ permanent)]
    BY <1>b DEF Session
  <2>3. s \in Session /\ s.key = 0 /\ s.flash = session.flash /\ s.surge = session.surge
    BY <1>b, <2>1, <2>2 DEF Session
  <2>4. s.key <= sessionKeys
    BY <2>3, <1>a DEF SessionsTyped
  <2>5. FlashAndRedirect(r, s)
    BY <1>3
  <2> HIDE DEF s
  <2>6. QED
    BY <2>3, <2>4, <2>5, <1>3, FlashInv
<1>4. QED
  BY <1>1, <1>2, <1>3 DEF AnswerLogin

LEMMA AnswerLogoutInv ==
    ASSUME SessionsAssumption, SessionsInv, NEW r \in Requests, requests[r] # NoRequest, AnswerLogout(r)
    PROVE  SessionsInv'
<1> DEFINE session == requests[r].session
           s == [session EXCEPT !.user = FALSE]
<1>a. Copy(session) /\ SessionsTyped
  BY DEF SessionsInv, RequestKept
<1>b. /\ FlashAndRedirect(r, s) /\ UNCHANGED until
      /\ out' = (out \/ (session.user /\ Alone(r)))
  BY DEF AnswerLogout
<1>1. /\ s \in Session /\ s.key = session.key /\ ~s.user /\ s.flash = session.flash
      /\ s.surge = session.surge /\ session.key <= sessionKeys
  BY <1>a DEF Session, Copy
<1>2. out' \in BOOLEAN /\ (out' => out \/ Alone(r))
  BY <1>b
<1> HIDE DEF s
<1>3. QED
  BY <1>1, <1>2, <1>b, FlashInv

LEMMA AnswerInv ==
    ASSUME SessionsAssumption, SessionsInv, NEW r \in Requests, Answer(r) PROVE SessionsInv'
<1>1. requests[r] # NoRequest
  BY DEF Answer, NoRequest
<1>2. CASE AnswerPage(r)
  BY <1>1, <1>2, ShowPageInv DEF AnswerPage
<1>3. CASE AnswerService(r)
  BY <1>1, <1>3, PlainAnswerInv DEF AnswerService
<1>4. CASE AnswerForm(r)
  <2>1. CASE requests[r].session.surge >= now
    BY <1>1, <1>4, <2>1, ShowPageInv DEF AnswerForm
  <2>2. CASE ~(requests[r].session.surge >= now)
    BY <1>1, <1>4, <2>2, AcceptedFormInv
  <2>3. QED
    BY <2>1, <2>2
<1>5. QED
  BY <1>1, <1>2, <1>3, <1>4, AnswerLoginInv, AnswerLogoutInv DEF Answer

LEMMA CloseBrowserInv == ASSUME SessionsInv, CloseBrowser PROVE SessionsInv'
  BY DEF SessionsInv, CloseBrowser, SessionsTyped, LastSeenKept, RequestKept

LEMMA CleanupInv == ASSUME SessionsAssumption, SessionsInv, Cleanup PROVE SessionsInv'
<1>1. SessionsTyped' /\ LastSeenKept'
  BY DEF SessionsAssumption, SessionsInv, Cleanup, SessionsTyped, LastSeenKept, sessionGhosts
<1>2. \A s : Copy(s)' <=> Copy(s)
  BY DEF Cleanup, Copy, Keeps, sessionGhosts
<1>3. (jar # NoCookie => Copy(jar))' /\ (\A r \in Requests : RequestKept(requests[r]))'
  BY <1>2 DEF SessionsInv, Cleanup, RequestKept
<1>4. QED
  BY <1>1, <1>3 DEF SessionsInv

LEMMA SessionsStepInv ==
    ASSUME SessionsAssumption, SessionsInv, [SessionsNext]_sessionVars PROVE SessionsInv'
<1>1. CASE SessionsNext
  BY <1>1, TimePassesInv, CloseBrowserInv, CleanupInv, ArriveInv, InsertInfoInv, AnswerInv
  DEF SessionsNext
<1>2. CASE UNCHANGED sessionVars
  <2>1. SessionsTyped' /\ LastSeenKept'
    BY <1>2 DEF SessionsInv, sessionVars, SessionsTyped, LastSeenKept
  <2>2. \A s : Copy(s)' <=> Copy(s)
    BY <1>2 DEF sessionVars, Copy, Keeps
  <2>3. (jar # NoCookie => Copy(jar))' /\ (\A r \in Requests : RequestKept(requests[r]))'
    BY <1>2, <2>2 DEF SessionsInv, sessionVars, RequestKept
  <2>4. QED
    BY <2>1, <2>3 DEF SessionsInv
<1>3. QED
  BY <1>1, <1>2

\* Whatever requests of one browser overlap, every copy of its session under way and in
\* the jar has kept what was answered alone, and the row of who came last is there.
THEOREM SessionsInvariant == ASSUME SessionsAssumption PROVE SessionsSpec => []SessionsInv
<1>1. SessionsInit => SessionsInv
  BY SessionsInitInv
<1>2. SessionsInv /\ [SessionsNext]_sessionVars => SessionsInv'
  BY SessionsStepInv
<1>3. QED
  BY <1>1, <1>2, PTL DEF SessionsSpec

\* A logout, an accepted form or a message that was answered alone is not undone by any
\* interleaving of requests, and visitors are counted.
THEOREM SessionsTrueHolds == ASSUME SessionsAssumption PROVE SessionsSpec => []SessionsTrue
<1>1. SessionsInv => SessionKept
  BY DEF SessionsInv, SessionKept, InUse, RequestKept, Copy, Keeps
<1>2. SessionsInv => VisitorsCounted
  <2> SUFFICES ASSUME SessionsInv, seen # 0, seen + Delta > now PROVE Online # {}
    BY DEF VisitorsCounted
  <2>1. PICK k \in 0..MaxSessionKeys : infos[k] >= seen
    BY DEF SessionsInv, LastSeenKept
  <2>2. k \in DOMAIN infos /\ infos[k] # 0 /\ infos[k] + Delta > now
    BY <2>1 DEF SessionsInv, SessionsTyped, SessionsAssumption
  <2>3. QED
    BY <2>2 DEF Online
<1>3. SessionsInv => SessionsTrue
  BY <1>1, <1>2 DEF SessionsTrue
<1>4. QED
  BY <1>3, SessionsInvariant, PTL

(***************************************************************************)
(* Permissions.                                                            *)
(***************************************************************************)

\* What a request that nothing overlapped will write: of a user whose cached permissions
\* are to outlast it, nothing that they were made of.
Lasting(t, u) ==
  /\ u \in DOMAIN t.user => t.user[u].own = user[u].own \/ cachedPerms[u] = None
  /\ \A g \in DOMAIN t.group \intersect member[u] :
       t.group[g] = group[g] \/ cachedPerms[u] = None

RightsTyped ==
  /\ user \in [People -> UserRow]
  /\ member \in [People -> SUBSET Groups]
  /\ group \in [Groups -> SUBSET Perms]
  /\ cachedPerms \in [People -> (SUBSET Perms) \union {None}]
  /\ \A t \in pending : \A u \in DOMAIN t.user : t.user[u] \in UserRow
  /\ \A t \in pending : \A u \in DOMAIN t.member : t.member[u] \subseteq Groups
  /\ \A t \in pending : \A g \in DOMAIN t.group : t.group[g] \in SUBSET Perms

RightsInv == /\ RightsTyped
             /\ CopiesCurrent
             /\ \A t \in pending, u \in People \ overlapped : Lasting(t, u)

LEMMA GrantedTyped == ASSUME RightsTyped, NEW u \in People PROVE Granted(u) \in SUBSET Perms
  BY DEF Granted, RightsTyped, UserRow

LEMMA RightsInitInv == ASSUME RightsInit PROVE RightsInv
<1>1. RightsTyped
  BY DEF RightsInit, RightsTyped, UserRow
<1>2. CopiesCurrent /\ pending = {}
  BY DEF RightsInit, CopiesCurrent
<1>3. QED
  BY <1>1, <1>2 DEF RightsInv

LEMMA CanInv == ASSUME RightsInv, NEW u \in People, Can(u) PROVE RightsInv'
<1>a. /\ cachedPerms' = [cachedPerms EXCEPT ![u] = Granted(u)]
      /\ moved' = moved \ {u}
      /\ overlapped' = IF pending = {} THEN overlapped \ {u} ELSE overlapped \union {u}
      /\ UNCHANGED <<user, member, group, pending>>
  BY DEF Can
<1>b. RightsTyped
  BY DEF RightsInv
<1>1. RightsTyped'
  BY <1>a, <1>b, GrantedTyped DEF RightsTyped
<1>2. \A v \in People : Granted(v)' = Granted(v)
  BY <1>a DEF Granted
<1>3. cachedPerms'[u] = Granted(u) /\ \A v \in People \ {u} : cachedPerms'[v] = cachedPerms[v]
  BY <1>a, <1>b DEF RightsTyped
<1>4. CopiesCurrent'
  BY <1>a, <1>2, <1>3 DEF CopiesCurrent, RightsInv
<1>5. ASSUME NEW t \in pending', NEW v \in People \ overlapped' PROVE Lasting(t, v)'
  <2>1. t \in pending /\ v # u /\ v \notin overlapped
    BY <1>5, <1>a
  <2>2. QED
    BY <2>1, <1>a, <1>3 DEF RightsInv, Lasting
<1>6. QED
  BY <1>1, <1>4, <1>5 DEF RightsInv

\* A form is under way: it differs from the tables only where it emptied the cache.
LEMMA StartFormInv ==
    ASSUME RightsInv, NEW rows, NEW joined, NEW changed, NEW emptied \in SUBSET People,
           StartForm(rows, joined, changed, emptied),
           \A u \in DOMAIN rows : rows[u] \in UserRow,
           \A u \in DOMAIN joined : joined[u] \subseteq Groups,
           \A g \in DOMAIN changed : changed[g] \in SUBSET Perms,
           \A u \in People \ emptied :
             /\ u \in DOMAIN rows => rows[u].own = user[u].own
             /\ \A g \in DOMAIN changed \intersect member[u] : changed[g] = group[g]
    PROVE  RightsInv'
<1> DEFINE t == [user |-> rows, member |-> joined, group |-> changed]
<1>a. /\ pending' = pending \union {t}
      /\ cachedPerms' = [u \in People |-> IF u \in emptied THEN None ELSE cachedPerms[u]]
      /\ UNCHANGED <<user, member, group, moved, overlapped>>
  BY DEF StartForm
<1>b. RightsTyped
  BY DEF RightsInv
<1>c. t.user = rows /\ t.member = joined /\ t.group = changed
  OBVIOUS
<1> HIDE DEF t
<1>d. \A u \in People : cachedPerms'[u] = IF u \in emptied THEN None ELSE cachedPerms[u]
  BY <1>a
<1>1. RightsTyped'
  <2>1. cachedPerms' \in [People -> (SUBSET Perms) \union {None}]
    BY <1>a, <1>b DEF RightsTyped
  <2>2. QED
    BY <2>1, <1>a, <1>b, <1>c DEF RightsTyped
<1>2. CopiesCurrent'
  BY <1>a, <1>d DEF CopiesCurrent, RightsInv, Granted
<1>3. ASSUME NEW v \in People \ overlapped PROVE Lasting(t, v)'
  BY <1>a, <1>c, <1>d DEF Lasting
<1>4. ASSUME NEW x \in pending, NEW v \in People \ overlapped PROVE Lasting(x, v)'
  BY <1>a, <1>d DEF RightsInv, Lasting
<1>5. QED
  BY <1>1, <1>2, <1>3, <1>4, <1>a DEF RightsInv

LEMMA OnlyFacts == \A x, v : DOMAIN Only(x, v) = {x} /\ Only(x, v)[x] = v
  BY DEF Only

LEMMA EditPrivilegesInv ==
    ASSUME RightsInv, NEW u \in People, EditPrivileges(u) PROVE RightsInv'
<1>1. PICK ps \in SUBSET Perms : StartForm(Only(u, [user[u] EXCEPT !.own = ps]), NoRows, NoRows, {u})
  BY DEF EditPrivileges
<1>2. [user[u] EXCEPT !.own = ps] \in UserRow
  BY DEF RightsInv, RightsTyped, UserRow
<1> DEFINE rows == Only(u, [user[u] EXCEPT !.own = ps])
<1>3. DOMAIN rows = {u} /\ rows[u] \in UserRow /\ DOMAIN NoRows = {}
  BY <1>2, OnlyFacts DEF NoRows
<1>4. StartForm(rows, NoRows, NoRows, {u})
  BY <1>1
<1> HIDE DEF rows
<1>5. QED
  BY <1>3, <1>4, StartFormInv

LEMMA EditGroupsInv ==
    ASSUME RightsInv, NEW u \in People, EditGroups(u) \/ LeaveGroups(u)
    PROVE RightsInv'
<1>1. PICK p \in Groups \union {None}, gs \in SUBSET Groups :
        StartForm(Only(u, [user[u] EXCEPT !.primary = p]), Only(u, gs), NoRows, {})
  BY DEF EditGroups, LeaveGroups
<1>2. /\ [user[u] EXCEPT !.primary = p] \in UserRow
      /\ [user[u] EXCEPT !.primary = p].own = user[u].own
  BY DEF RightsInv, RightsTyped, UserRow
<1> DEFINE rows == Only(u, [user[u] EXCEPT !.primary = p])
           joined == Only(u, gs)
<1>3. DOMAIN rows = {u} /\ rows[u] \in UserRow /\ rows[u].own = user[u].own
  BY <1>2, OnlyFacts
<1>4. DOMAIN joined = {u} /\ joined[u] \subseteq Groups /\ DOMAIN NoRows = {}
  BY OnlyFacts DEF NoRows
<1>5. StartForm(rows, joined, NoRows, {})
  BY <1>1
<1> HIDE DEF rows, joined
<1>6. QED
  BY <1>3, <1>4, <1>5, StartFormInv

LEMMA EditGroupInv ==
    ASSUME RightsInv, NEW g \in Groups, EditGroup(g) PROVE RightsInv'
<1>1. PICK ps \in SUBSET Perms :
        StartForm(NoRows, NoRows, Only(g, ps), IF ps # group[g] THEN Members(g) ELSE {})
  BY DEF EditGroup
<1> DEFINE changed == Only(g, ps)
           emptied == IF ps # group[g] THEN Members(g) ELSE {}
<1>2. DOMAIN changed = {g} /\ changed[g] = ps /\ DOMAIN NoRows = {}
  BY OnlyFacts DEF NoRows
<1>3. /\ emptied \in SUBSET People
      /\ \A u \in People \ emptied : g \in member[u] => ps = group[g]
  BY DEF Members
<1>4. StartForm(NoRows, NoRows, changed, emptied)
  BY <1>1
<1> HIDE DEF changed, emptied
<1>5. QED
  BY <1>2, <1>3, <1>4, StartFormInv

LEMMA CommitRightsInv ==
    ASSUME RightsInv, NEW t \in pending, CommitRights(t) PROVE RightsInv'
<1>a. /\ pending' = pending \ {t}
      /\ user' = Written(user, t.user) /\ member' = Written(member, t.member)
      /\ group' = Written(group, t.group)
      /\ moved' = moved \union {u \in DOMAIN t.member : cachedPerms[u] # None}
      /\ overlapped' = IF pending' = {} THEN overlapped ELSE overlapped \union People
      /\ UNCHANGED cachedPerms
  BY DEF CommitRights
<1>b. RightsTyped
  BY DEF RightsInv
<1>1. RightsTyped'
  <2>1. user' \in [People -> UserRow]
    BY <1>a, <1>b DEF RightsTyped, Written
  <2>2. member' \in [People -> SUBSET Groups]
    BY <1>a, <1>b DEF RightsTyped, Written
  <2>3. group' \in [Groups -> SUBSET Perms]
    BY <1>a, <1>b DEF RightsTyped, Written
  <2>4. QED
    BY <2>1, <2>2, <2>3, <1>a, <1>b DEF RightsTyped
<1>2. ASSUME NEW u \in People, u \notin moved', u \notin overlapped', cachedPerms[u] # None
      PROVE  cachedPerms[u] = Granted(u)'
  <2>1. u \notin moved /\ u \notin overlapped /\ Lasting(t, u) /\ cachedPerms[u] = Granted(u)
    BY <1>2, <1>a DEF RightsInv, CopiesCurrent
  <2>2. user'[u].own = user[u].own
    BY <2>1, <1>2, <1>a, <1>b DEF Lasting, Written, RightsTyped
  <2>3. member'[u] = member[u]
    BY <1>2, <1>a, <1>b DEF Written, RightsTyped
  <2>4. \A g \in member[u] : group'[g] = group[g]
    BY <2>1, <1>2, <1>a, <1>b DEF Lasting, Written, RightsTyped
  <2>5. QED
    BY <2>1, <2>2, <2>3, <2>4 DEF Granted
<1>3. CopiesCurrent'
  BY <1>2, <1>a DEF CopiesCurrent
<1>4. ASSUME NEW x \in pending', NEW v \in People \ overlapped' PROVE Lasting(x, v)'
  BY <1>4, <1>a
<1>5. QED
  BY <1>1, <1>3, <1>4 DEF RightsInv

LEMMA RightsExpireInv ==
    ASSUME RightsInv, NEW u \in People, RightsExpire(u) PROVE RightsInv'
<1>a. /\ cachedPerms' = [cachedPerms EXCEPT ![u] = None]
      /\ moved' = moved \ {u}
      /\ overlapped' = IF pending = {} THEN overlapped \ {u} ELSE overlapped
      /\ UNCHANGED <<user, member, group, pending>>
  BY DEF RightsExpire
<1>b. RightsTyped
  BY DEF RightsInv
<1>1. RightsTyped'
  BY <1>a, <1>b DEF RightsTyped
<1>2. cachedPerms'[u] = None /\ \A v \in People \ {u} : cachedPerms'[v] = cachedPerms[v]
  BY <1>a, <1>b DEF RightsTyped
<1>3. CopiesCurrent'
  BY <1>a, <1>2 DEF CopiesCurrent, RightsInv, Granted
<1>4. ASSUME NEW t \in pending', NEW v \in People \ overlapped' PROVE Lasting(t, v)'
  BY <1>a, <1>2 DEF RightsInv, Lasting
<1>5. QED
  BY <1>1, <1>3, <1>4 DEF RightsInv

LEMMA RightsStepInv ==
    ASSUME RightsInv, [RightsNext]_rightVars PROVE RightsInv'
<1>1. ASSUME NEW t \in pending, AbortRights(t) PROVE RightsInv'
  BY <1>1 DEF RightsInv, AbortRights, RightsTyped, CopiesCurrent, Granted, Lasting
<1>2. CASE UNCHANGED rightVars
  BY <1>2 DEF RightsInv, rightVars, RightsTyped, CopiesCurrent, Granted, Lasting
<1>3. QED
  BY <1>1, <1>2, CanInv, EditPrivilegesInv, EditGroupsInv, EditGroupInv, CommitRightsInv, RightsExpireInv
  DEF RightsNext

\* A form under way differs from the tables only where it emptied the cache, unless
\* something overlapped it.
THEOREM RightsInvariant == RightsSpec => []RightsInv
<1>1. RightsInit => RightsInv
  BY RightsInitInv
<1>2. RightsInv /\ [RightsNext]_rightVars => RightsInv'
  BY RightsStepInv
<1>3. QED
  BY <1>1, <1>2, PTL DEF RightsSpec

\* The cached permissions of every user are the sum of the tables' but for changed
\* memberships and overlapping requests.
THEOREM CopiesCurrentHolds == RightsSpec => []CopiesCurrent
<1>1. RightsInv => CopiesCurrent
  BY DEF RightsInv
<1>2. QED
  BY <1>1, RightsInvariant, PTL

(***************************************************************************)
(* Accounts.                                                               *)
(***************************************************************************)

\* Deleted and without address, whatever mails and forms are still about.
Locked(r) == r.status = Deleted /\ r.email = Dead

\* A row somebody holds, with a password key that has been made.
Held(r) == r \in Row /\ r.key <= keys

AccountsTyped ==
  /\ keys \in Nat
  /\ links \subseteq Link
  /\ row \in {None, Gone} \/ Held(row)
  /\ account \in {None, Gone} \/ Held(account)
  /\ row = None => account = None /\ tx = {}
  /\ left \in {Leave, Reset, Back}
  /\ \A t \in tx : /\ t.row = None \/ Held(t.row)
                   /\ t.row = None => t.left = Stay /\ Exists
                   /\ t.left \in {Stay, Leave, Reset, Back}
                   /\ t.add \in Nat

\* What the history says of the request under way: it started from the row it is
\* to leave, nothing older is kept, and it is the only one.
KnownKept ==
  meant # None =>
    /\ row = meant
    /\ account # None => account = row
    /\ tx # {} => account = None /\ Exists
    /\ \A t \in tx :
         /\ tx = {t}
         /\ t.row # None => [c \in DOMAIN meant |-> IF c \in t.cols THEN t.row[c] ELSE meant[c]] = t.row

\* What is about to be written to a deactivated account keeps it locked.
LockedKept ==
  /\ left # Back => row \in Row /\ Locked(row)
  /\ left = Leave => ~row.pw
  /\ \A t \in tx : t.left = Leave => Locked(t.row) /\ ~t.row.pw
  /\ meant # None => \A t \in tx : t.row # None =>
       /\ left # Back /\ t.left \in {Stay, Reset} => Locked(t.row)
       /\ left = Leave /\ t.left = Stay => ~t.row.pw

AccountsInv == AccountsTyped /\ KnownKept /\ LockedKept

LEMMA AccountsInitInv == ASSUME AccountsAssumption, AccountsInit PROVE AccountsInv
<1>1. AccountsTyped
  BY DEF AccountsInit, AccountsTyped
<1>2. KnownKept /\ LockedKept
  BY DEF AccountsInit, KnownKept, LockedKept, Leave, Back
<1>3. QED
  BY <1>1, <1>2 DEF AccountsInv

LEMMA FourKinds == /\ Stay \notin {Leave, Reset, Back} /\ Leave \notin {Stay, Reset, Back}
                   /\ Reset \notin {Stay, Leave, Back} /\ Back \notin {Stay, Leave, Reset}
  BY DEF Stay, Leave, Reset, Back

\* Writing the changed columns to what they were changed from gives the new row.
LEMMA ChangedColumns ==
    ASSUME NEW base \in Row, NEW new \in Row
    PROVE  [c \in DOMAIN base |-> IF c \in {d \in DOMAIN base : base[d] # new[d]}
                                  THEN new[c] ELSE base[c]] = new
<1>1. DOMAIN base = DOMAIN new
  BY DEF Row
<1>2. new = [c \in DOMAIN new |-> new[c]]
  BY DEF Row
<1>3. \A c \in DOMAIN base : (IF c \in {d \in DOMAIN base : base[d] # new[d]} THEN new[c] ELSE base[c]) = new[c]
  OBVIOUS
<1>4. QED
  BY <1>1, <1>2, <1>3

\* Links are made for addresses of people.
Mailed == keys' \in Nat /\ keys <= keys' /\ links' \subseteq Link

\* A row that is read or cached is a row of the table; only of a deleted one is a
\* copy left that differs, and then the history is over.
LEMMA BaseRow ==
    ASSUME AccountsAssumption, AccountsInv, MayStart, NEW base, base \in {row, Mine}, base \notin {None, Gone}
    PROVE  /\ base \in Row /\ base.key \in Nat /\ base.key <= keys /\ keys \in Nat
           /\ row # None
           /\ meant # None => base = row
           /\ meant = None => row = Gone
<1>1. Held(base) /\ row # None /\ keys \in Nat
  BY DEF Mine, AccountsInv, AccountsTyped
<1>2. meant # None => base = row
  BY DEF Mine, AccountsInv, KnownKept
<1>3. QED
  BY <1>1, <1>2 DEF Held, Row, MayStart

\* A request saves a row it made of the one it holds, and does not unlock an
\* account while it means to leave it as it is.
LEMMA SaveInv ==
    ASSUME AccountsAssumption, AccountsInv, NEW base, base \in {row, Mine}, base \notin {None, Gone},
           NEW new \in Row, NEW back \in {Stay, Leave, Reset, Back},
           Save(base, new, back), Mailed, new.key <= keys',
           back = Leave => Locked(new) /\ ~new.pw,
           back \in {Stay, Reset} /\ Locked(base) => Locked(new),
           back = Stay /\ Locked(base) /\ ~base.pw => ~new.pw
    PROVE  AccountsInv'
<1> DEFINE t == [row |-> new, cols |-> {c \in DOMAIN base : base[c] # new[c]}, add |-> 0, left |-> back]
<1>a. /\ MayStart
      /\ tx' = tx \union {t} /\ account' = None
      /\ meant' = IF tx = {} THEN meant ELSE None
      /\ UNCHANGED <<row, doomed, left>>
  BY DEF Save, Emptied
<1>b. t.row = new /\ t.cols = {c \in DOMAIN base : base[c] # new[c]} /\ t.add = 0 /\ t.left = back
  OBVIOUS
<1> HIDE DEF t
<1>c. AccountsTyped /\ KnownKept /\ LockedKept
  BY DEF AccountsInv
<1>d. /\ base \in Row /\ row # None
      /\ meant # None => base = row
      /\ meant = None => row = Gone
  BY <1>a, BaseRow
<1>e. t.row # None
  BY <1>b DEF AccountsAssumption
<1>1. AccountsTyped'
  <2>1. \A r : Held(r) => Held(r)'
    BY <1>c DEF Held, Mailed, Row, AccountsTyped
  <2>2. Held(new)'
    BY DEF Held
  <2>3. links' \subseteq Link /\ keys' \in Nat
    BY DEF Mailed
  <2>4. row' # None /\ (row' = Gone \/ Held(row)') /\ account' = None /\ (Exists => Exists')
    BY <2>1, <1>a, <1>c, <1>d DEF AccountsTyped, Exists
  <2>5. (\A x \in tx : /\ x.row = None \/ Held(x.row)
                       /\ x.row = None => x.left = Stay /\ Exists
                       /\ x.left \in {Stay, Leave, Reset, Back}
                       /\ x.add \in Nat)'
    BY <2>1, <2>2, <2>4, <1>a, <1>b, <1>c, <1>e DEF AccountsTyped
  <2>6. left' \in {Leave, Reset, Back}
    BY <1>a, <1>c DEF AccountsTyped
  <2>7. QED
    BY <2>3, <2>4, <2>5, <2>6 DEF AccountsTyped
<1>2. KnownKept'
  <2>1. CASE meant = None
    BY <2>1, <1>a DEF KnownKept
  <2>2. CASE meant # None
    <3>1. [c \in DOMAIN row |-> IF c \in t.cols THEN new[c] ELSE row[c]] = new
      BY <2>2, <1>b, <1>d, ChangedColumns
    <3>2. Exists' /\ row = meant
      BY <2>2, <1>a, <1>c, <1>d DEF Exists, KnownKept
    <3>3. QED
      BY <3>1, <3>2, <1>a, <1>b DEF KnownKept
  <2>3. QED
    BY <2>1, <2>2
<1>3. LockedKept'
  <2>1. left' # Back => row' \in Row /\ Locked(row)'
    BY <1>a, <1>c DEF LockedKept, Locked
  <2>2. left' = Leave => ~row'.pw
    BY <1>a, <1>c DEF LockedKept
  <2>3. \A x \in tx' : x.left = Leave => Locked(x.row)' /\ ~x.row.pw
    BY <1>a, <1>b, <1>c DEF LockedKept, Locked
  <2>4. meant' # None => \A x \in tx' : x.row # None =>
          /\ left' # Back /\ x.left \in {Stay, Reset} => Locked(x.row)'
          /\ left' = Leave /\ x.left = Stay => ~x.row.pw
    <3> SUFFICES ASSUME meant' # None
                 PROVE  /\ left # Back /\ back \in {Stay, Reset} => Locked(new)
                        /\ left = Leave /\ back = Stay => ~new.pw
      BY <1>a, <1>b DEF Locked
    <3>1. base = row
      BY <1>a, <1>d
    <3>2. Leave # Back
      BY FourKinds
    <3>3. QED
      BY <3>1, <3>2, <1>c DEF LockedKept
  <2>5. QED
    BY <2>1, <2>2, <2>3, <2>4 DEF LockedKept
<1>4. QED
  BY <1>1, <1>2, <1>3 DEF AccountsInv

\* A save that mails nothing and makes no key.
LEMMA QuietSaveInv ==
    ASSUME AccountsAssumption, AccountsInv, NEW base, base \in {row, Mine}, base \notin {None, Gone},
           NEW new \in Row, NEW back \in {Stay, Reset, Back},
           Save(base, new, back), UNCHANGED <<links, keys>>,
           new.key \in {0, base.key},
           back # Back /\ Locked(base) => Locked(new),
           back = Stay /\ Locked(base) /\ ~base.pw => ~new.pw
    PROVE  AccountsInv'
<1>1. MayStart
  BY DEF Save
<1>2. Mailed
  BY DEF Mailed, AccountsInv, AccountsTyped
<1>3. new.key <= keys'
  BY <1>1, BaseRow
<1>4. back # Leave /\ (back \in {Stay, Reset} => back # Back)
  BY FourKinds
<1>5. QED
  BY <1>2, <1>3, <1>4, SaveInv

LEMMA ActivateInv ==
    ASSUME AccountsAssumption, AccountsInv, NEW l \in links, Activate(l) PROVE AccountsInv'
<1> DEFINE new == [row EXCEPT !.status = Active]
<1>1. row \in Row /\ row \notin {None, Gone}
  BY BaseRow DEF Activate, Save, Exists
<1>2. new \in Row /\ new.key = row.key
  BY <1>1 DEF Row, Active, Inactive, Deleted
<1>3. l.email # Dead
  BY DEF Activate, AccountsInv, AccountsTyped, Link, AccountsAssumption
<1>4. ~Locked(row)
  BY <1>3 DEF Activate, Locked
<1>5. Save(row, new, Stay) /\ UNCHANGED <<links, keys>>
  BY DEF Activate
<1> HIDE DEF new
<1>6. QED
  BY <1>1, <1>2, <1>4, <1>5, QuietSaveInv

LEMMA LoggedInRow ==
    ASSUME NEW r \in Row
    PROVE  /\ LoggedIn(r) \in Row /\ LoggedIn(r).key = 0 /\ LoggedIn(r).status = r.status
           /\ LoggedIn(r).email = r.email /\ LoggedIn(r).pw = r.pw
           /\ Unbanned(r) \in Row /\ Unbanned(r).key = r.key
<1>1. /\ LoggedIn(r) \in Row /\ LoggedIn(r).key = 0 /\ LoggedIn(r).status = r.status
      /\ LoggedIn(r).email = r.email /\ LoggedIn(r).pw = r.pw
  BY DEF LoggedIn, Row
<1>2. Active \in Inactive..Deleted /\ FALSE \in BOOLEAN
  BY DEF Active, Inactive, Deleted
<1>3. \A s \in Inactive..Deleted, u \in BOOLEAN :
        /\ [r EXCEPT !.status = s, !.until = u] \in Row
        /\ [r EXCEPT !.status = s, !.until = u].key = r.key
  BY DEF Row
<1>4. QED
  BY <1>1, <1>2, <1>3 DEF Unbanned

LEMMA LoginInv ==
    ASSUME AccountsAssumption, AccountsInv, Login \/ WrongPassword \/ OpenIdLogin PROVE AccountsInv'
<1>1. UNCHANGED <<links, keys>> /\ row \notin {None, Gone}
  BY DEF Login, WrongPassword, OpenIdLogin, Exists
<1>2. ASSUME NEW new, Save(row, new, Stay) PROVE row \in Row
  BY <1>1, <1>2, BaseRow DEF Save
<1>3. CASE Login /\ Save(row, LoggedIn(row), Stay)
  <2>1. row \in Row
    BY <1>2, <1>3
  <2>2. row.pw
    BY <1>3 DEF Login
  <2>3. Locked(row) => Locked(LoggedIn(row))
    BY <2>1, LoggedInRow DEF Locked
  <2>4. QED
    BY <2>1, <2>2, <2>3, <1>1, <1>3, LoggedInRow, QuietSaveInv
<1>4. CASE Login /\ BanOver(row) /\ Save(row, LoggedIn(Unbanned(row)), Stay)
  <2>1. row \in Row /\ ~Locked(row)
    BY <1>2, <1>4 DEF BanOver, Locked, Banned, Deleted
  <2> DEFINE new == LoggedIn(Unbanned(row))
  <2>2. new \in Row /\ new.key = 0
    BY <2>1, LoggedInRow
  <2>3. Save(row, new, Stay)
    BY <1>4
  <2> HIDE DEF new
  <2>4. QED
    BY <2>1, <2>2, <2>3, <1>1, QuietSaveInv
<1>5. CASE WrongPassword
  <2>1. row \in Row /\ ~Locked(row) /\ Save(row, Unbanned(row), Stay)
    BY <1>2, <1>5 DEF WrongPassword, BanOver, Locked, Banned, Deleted
  <2>2. QED
    BY <2>1, <1>1, LoggedInRow, QuietSaveInv
<1>6. CASE OpenIdLogin
  <2>1. row \in Row /\ Save(row, LoggedIn(row), Stay)
    BY <1>2, <1>6 DEF OpenIdLogin
  <2>2. (Locked(row) => Locked(LoggedIn(row))) /\ (~row.pw => ~LoggedIn(row).pw)
    BY <2>1, LoggedInRow DEF Locked
  <2>3. QED
    BY <2>1, <2>2, <1>1, LoggedInRow, QuietSaveInv
<1>7. QED
  BY <1>3, <1>4, <1>5, <1>6 DEF Login

\* Whoever is deleted does not act.
LEMMA ActingRow ==
    ASSUME AccountsAssumption, AccountsInv, Acting, MayStart
    PROVE  /\ Mine \in Row /\ Mine \notin {None, Gone} /\ Mine.key \in Nat /\ Mine.key <= keys
           /\ keys \in Nat /\ ~Locked(Mine)
  BY BaseRow DEF Acting, Locked

LEMMA FilledInv ==
    ASSUME AccountsAssumption, AccountsInv, Mine # None, account' \in {None, Mine},
           account = None => row # Gone \/ account' = None,
           meant' = IF account = None /\ tx # {} THEN None ELSE meant,
           UNCHANGED <<row, tx, links, keys, left>>
    PROVE  AccountsInv'
<1>1. AccountsTyped'
  BY DEF AccountsInv, AccountsTyped, Mine, Held, Exists
<1>2. KnownKept'
  BY DEF AccountsInv, KnownKept, Mine, Exists
<1>3. LockedKept'
  BY DEF AccountsInv, LockedKept, Locked
<1>4. QED
  BY <1>1, <1>2, <1>3 DEF AccountsInv

LEMMA VisitInv == ASSUME AccountsAssumption, AccountsInv, Visit PROVE AccountsInv'
  BY FilledInv DEF Visit, Mine

LEMMA LogoutInv == ASSUME AccountsAssumption, AccountsInv, Logout PROVE AccountsInv'
<1>1. CASE Save(Mine, Mine, Stay) /\ UNCHANGED <<links, keys>>
  <2>1. Mine \in Row /\ Mine \notin {None, Gone}
    BY <1>1, ActingRow DEF Logout, Save
  <2>2. QED
    BY <1>1, <2>1, QuietSaveInv
<1>2. CASE /\ account' = Mine
           /\ meant' = IF account = None /\ tx # {} THEN None ELSE meant
           /\ UNCHANGED <<row, tx, links, keys, doomed, left>>
  <2>1. Mine \notin {None, Gone}
    BY DEF Logout, Acting
  <2>2. account = None => row # Gone
    BY <2>1 DEF Mine
  <2>3. QED
    BY <1>2, <2>1, <2>2, FilledInv
<1>3. QED
  BY <1>1, <1>2 DEF Logout

LEMMA PlainMail ==
    ASSUME AccountsInv, NEW new \in SUBSET Link, NEW email, Mail(new, email), UNCHANGED keys
    PROVE  Mailed
  BY DEF Mail, Mailed, AccountsInv, AccountsTyped

LEMMA SaveProfileInv == ASSUME AccountsAssumption, AccountsInv, SaveProfile PROVE AccountsInv'
<1>1. Mine \in Row /\ Mine \notin {None, Gone} /\ ~Locked(Mine) /\ Mine.key <= keys
  BY ActingRow DEF SaveProfile, Save
<1>2. Mailed
  <2>1. CASE UNCHANGED links
    BY <2>1 DEF SaveProfile, Mailed, AccountsInv, AccountsTyped
  <2>2. ASSUME NEW e \in Emails, Mail({[kind |-> "set_new_email", email |-> e]}, e) PROVE Mailed
    <3>1. [kind |-> "set_new_email", email |-> e] \in Link
      BY DEF Link
    <3>2. QED
      BY <2>2, <3>1, PlainMail DEF SaveProfile
  <2>3. QED
    BY <2>1, <2>2 DEF SaveProfile
<1>3. Save(Mine, Mine, Stay) /\ UNCHANGED keys
  BY DEF SaveProfile
<1>4. Stay # Leave
  BY FourKinds
<1>5. QED
  BY <1>1, <1>2, <1>3, <1>4, SaveInv

LEMMA ChangePasswordInv == ASSUME AccountsAssumption, AccountsInv, ChangePassword PROVE AccountsInv'
<1> DEFINE base == Mine
<1>1. base \in Row /\ base \notin {None, Gone} /\ ~Locked(base)
  BY ActingRow DEF ChangePassword, Save
<1> DEFINE new == [base EXCEPT !.key = 0]
<1>2. Save(base, new, Stay) /\ UNCHANGED <<links, keys>> /\ base = Mine
  BY DEF ChangePassword
<1> HIDE DEF base
<1>3. new \in Row /\ new.key = 0
  BY <1>1 DEF Row
<1> HIDE DEF new
<1>4. QED
  BY <1>1, <1>2, <1>3, QuietSaveInv

LEMMA DeactivateInv == ASSUME AccountsAssumption, AccountsInv, Deactivate PROVE AccountsInv'
<1> DEFINE base == Mine
<1>1. base \in Row /\ base \notin {None, Gone} /\ keys \in Nat
  BY ActingRow DEF Deactivate, Save
<1> DEFINE new == Anonymous(base)
           mails == {[kind |-> "reactivate", email |-> e, status |-> base.status] : e \in {base.email} \ {Dead}}
<1>2. Save(base, new, Leave) /\ Mail(mails, base.email) /\ UNCHANGED keys /\ base = Mine
  BY DEF Deactivate
<1> HIDE DEF base
<1>3. new \in Row /\ new.key = 0 /\ Locked(new) /\ ~new.pw
  <2>1. Deleted \in Inactive..Deleted /\ Dead \in Emails \union {Dead} /\ FALSE \in BOOLEAN /\ 0 \in Nat
    BY DEF Deleted, Inactive
  <2>2. new \in Row
    BY <1>1, <2>1 DEF Anonymous, Row
  <2>3. new.status = Deleted /\ new.email = Dead /\ new.key = 0
    BY <1>1 DEF Anonymous, Row
  <2>4. ~new.pw
    BY <1>1 DEF Anonymous, Row
  <2>5. QED
    BY <2>2, <2>3, <2>4 DEF Locked
<1>4. mails \subseteq Link
  BY <1>1 DEF Link, Row
<1> HIDE DEF new, mails
<1>5. Mailed
  BY <1>2, <1>4, PlainMail
<1>6. new.key <= keys' /\ Leave \notin {Stay, Reset}
  BY <1>1, <1>2, <1>3, FourKinds
<1>7. QED
  BY <1>1, <1>2, <1>3, <1>5, <1>6, SaveInv

\* A new key is mailed, or not.
LEMMA KeyMail == ASSUME AccountsInv, NewKey, UNCHANGED links PROVE Mailed
  BY DEF Mailed, NewKey, AccountsInv, AccountsTyped

LEMMA LostPasswordInv == ASSUME AccountsAssumption, AccountsInv, LostPassword PROVE AccountsInv'
<1>1. row \in Row /\ row \notin {None, Gone} /\ keys \in Nat /\ keys' = keys + 1
  BY BaseRow DEF LostPassword, Save, Exists, NewKey
<1> DEFINE new == [row EXCEPT !.key = keys']
<1>2. new \in Row /\ new.key = keys' /\ new.status = row.status /\ new.email = row.email /\ new.pw = row.pw
  BY <1>1 DEF Row
<1>3. Save(row, new, Stay)
  BY DEF LostPassword
<1>4. Mailed
  BY KeyMail DEF LostPassword
<1> HIDE DEF new
<1>5. (Locked(row) => Locked(new)) /\ new.key <= keys'
  BY <1>1, <1>2 DEF Locked
<1>6. Stay # Leave
  BY FourKinds
<1>7. QED
  BY <1>1, <1>2, <1>3, <1>4, <1>5, <1>6, SaveInv

\* The form for a new password leaves status and address as they are.
LEMMA SetNewPasswordInv ==
    ASSUME AccountsAssumption, AccountsInv, SetNewPassword PROVE AccountsInv'
<1>1. row \in Row /\ row \notin {None, Gone}
  BY BaseRow DEF SetNewPassword, Save, Exists
<1> DEFINE new == [row EXCEPT !.pw = TRUE, !.key = 0]
<1>2. new \in Row /\ new.key = 0 /\ new.status = row.status /\ new.email = row.email
  BY <1>1 DEF Row
<1>3. Save(row, new, Reset) /\ UNCHANGED <<links, keys>>
  BY DEF SetNewPassword
<1> HIDE DEF new
<1>4. (Locked(row) => Locked(new)) /\ Reset # Stay
  BY <1>2, FourKinds DEF Locked
<1>5. QED
  BY <1>1, <1>2, <1>3, <1>4, QuietSaveInv

LEMMA ReactivateInv ==
    ASSUME AccountsAssumption, AccountsInv, NEW l \in links, Reactivate(l) PROVE AccountsInv'
<1>1. row \in Row /\ row \notin {None, Gone} /\ keys \in Nat /\ keys' = keys + 1
  BY BaseRow DEF Reactivate, Save, Exists, NewKey
<1>2. l.email \in Emails /\ l.status \in Inactive..Deleted
  BY DEF Reactivate, AccountsInv, AccountsTyped, Link
<1> DEFINE b == [row EXCEPT !.email = l.email, !.status = l.status, !.key = keys']
<1>3. b \in Row /\ b.key = keys'
  <2>1. \A s \in Inactive..Deleted, e \in Emails \union {Dead}, k \in Nat :
          /\ [row EXCEPT !.email = e, !.status = s, !.key = k] \in Row
          /\ [row EXCEPT !.email = e, !.status = s, !.key = k].key = k
    BY <1>1 DEF Row
  <2>2. keys' \in Nat /\ l.email \in Emails \union {Dead}
    BY <1>1, <1>2
  <2>3. QED
    BY <1>2, <2>1, <2>2
<1>4. PICK over \in {FALSE, row.until} : Save(row, IF over THEN Unbanned(b) ELSE b, Back)
  BY DEF Reactivate
<1>5. Mailed
  BY KeyMail DEF Reactivate
<1> HIDE DEF b
<1>6. Unbanned(b) \in Row /\ Unbanned(b).key = keys'
  BY <1>3, LoggedInRow
<1>7. Back \notin {Stay, Leave, Reset} /\ keys' <= keys'
  BY <1>1, FourKinds
<1>8. QED
  BY <1>1, <1>3, <1>4, <1>5, <1>6, <1>7, SaveInv

LEMMA SetNewEmailInv ==
    ASSUME AccountsAssumption, AccountsInv, NEW l \in links, SetNewEmail(l) \/ ResetEmail(l)
    PROVE  AccountsInv'
<1>1. row \in Row /\ row \notin {None, Gone} /\ row.key <= keys
  BY BaseRow DEF SetNewEmail, ResetEmail, Save, Exists
<1>2. l.email \in Emails
  BY DEF SetNewEmail, ResetEmail, AccountsInv, AccountsTyped, Link
<1> DEFINE new == [row EXCEPT !.email = l.email]
           mails == {[kind |-> "reset_email", email |-> e] : e \in {row.email} \ {Dead}}
<1>3. new \in Row /\ new.key = row.key
  BY <1>1, <1>2 DEF Row
<1>4. mails \subseteq Link
  BY <1>1 DEF Link, Row
<1>5. /\ Save(row, new, Back) /\ UNCHANGED keys
      /\ UNCHANGED links \/ Mail(mails, row.email)
  BY DEF SetNewEmail, ResetEmail
<1> HIDE DEF new, mails
<1>6. Mailed
  BY <1>4, <1>5, PlainMail DEF Mailed, AccountsInv, AccountsTyped
<1>7. Back \notin {Stay, Leave, Reset}
  BY FourKinds
<1>8. QED
  BY <1>1, <1>3, <1>5, <1>6, <1>7, SaveInv

LEMMA EditInv ==
    ASSUME AccountsAssumption, AccountsInv, EditProfile \/ EditStatus \/ EditPassword
    PROVE  AccountsInv'
<1>1. row \in Row /\ row \notin {None, Gone} /\ UNCHANGED <<links, keys>>
  <2>1. MayStart
    BY DEF EditProfile, EditStatus, EditPassword, Save
  <2>2. row \notin {None, Gone} /\ UNCHANGED <<links, keys>>
    BY DEF EditProfile, EditStatus, EditPassword, Exists
  <2>3. QED
    BY <2>1, <2>2, BaseRow
<1>2. Back # Stay
  BY FourKinds
<1>3. CASE EditProfile
  <2>1. PICK e \in Emails \union {row.email} :
          Save(row, [row EXCEPT !.email = e], IF e = row.email THEN Stay ELSE Back)
    BY <1>3 DEF EditProfile
  <2> DEFINE new == [row EXCEPT !.email = e]
  <2>2. new \in Row /\ new.key = row.key /\ new.status = row.status /\ new.email = e /\ new.pw = row.pw
    BY <1>1 DEF Row
  <2>3. CASE e = row.email
    <3>1. Save(row, new, Stay)
      BY <2>1, <2>3
    <3> HIDE DEF new
    <3>2. Locked(row) => Locked(new)
      BY <2>2, <2>3 DEF Locked
    <3>3. QED
      BY <3>1, <3>2, <2>2, <1>1, QuietSaveInv
  <2>4. CASE e # row.email
    <3>1. Save(row, new, Back)
      BY <2>1, <2>4
    <3> HIDE DEF new
    <3>2. QED
      BY <3>1, <2>2, <1>1, <1>2, QuietSaveInv
  <2>5. QED
    BY <2>3, <2>4
<1>4. CASE EditStatus
  <2>1. PICK s \in Inactive..Deleted, dated \in BOOLEAN :
          Save(row, [row EXCEPT !.status = s, !.until = dated], IF s = row.status THEN Stay ELSE Back)
    BY <1>4 DEF EditStatus
  <2> DEFINE new == [row EXCEPT !.status = s, !.until = dated]
  <2>2. new \in Row /\ new.key = row.key /\ new.status = s /\ new.email = row.email /\ new.pw = row.pw
    BY <1>1 DEF Row
  <2>3. CASE s = row.status
    <3>1. Save(row, new, Stay)
      BY <2>1, <2>3
    <3> HIDE DEF new
    <3>2. Locked(row) => Locked(new)
      BY <2>2, <2>3 DEF Locked
    <3>3. QED
      BY <3>1, <3>2, <2>2, <1>1, QuietSaveInv
  <2>4. CASE s # row.status
    <3>1. Save(row, new, Back)
      BY <2>1, <2>4
    <3> HIDE DEF new
    <3>2. QED
      BY <3>1, <2>2, <1>1, <1>2, QuietSaveInv
  <2>5. QED
    BY <2>3, <2>4
<1>5. CASE EditPassword
  <2> DEFINE new == [row EXCEPT !.pw = TRUE, !.key = 0]
  <2>1. new \in Row /\ new.key = 0
    BY <1>1 DEF Row
  <2>2. Save(row, new, Back)
    BY <1>5 DEF EditPassword
  <2> HIDE DEF new
  <2>3. QED
    BY <2>1, <2>2, <1>1, <1>2, QuietSaveInv
<1>6. QED
  BY <1>3, <1>4, <1>5

LEMMA CountPostInv ==
    ASSUME AccountsAssumption, AccountsInv, CountPost(1) PROVE AccountsInv'
<1> DEFINE t == [row |-> None, cols |-> {}, add |-> 1, left |-> Stay]
<1>a. /\ Exists
      /\ tx' = tx \union {t} /\ account' = None
      /\ meant' = IF tx = {} THEN meant ELSE None
      /\ UNCHANGED <<row, links, keys, logged, doomed, left>>
  BY DEF CountPost
<1>b. t.row = None /\ t.add = 1 /\ t.left = Stay
  OBVIOUS
<1> HIDE DEF t
<1>1. AccountsTyped'
  BY <1>a, <1>b DEF AccountsInv, AccountsTyped, Held, Exists
<1>2. KnownKept'
  BY <1>a, <1>b DEF AccountsInv, KnownKept, Exists
<1>3. LockedKept'
  <2>1. Stay # Leave
    BY FourKinds
  <2>2. QED
    BY <2>1, <1>a, <1>b DEF AccountsInv, LockedKept, Locked
<1>4. QED
  BY <1>1, <1>2, <1>3 DEF AccountsInv

\* The history follows the columns that were changed, and ends where the row does.
LEMMA CommitSaveInv ==
    ASSUME AccountsAssumption, AccountsInv, NEW t \in tx, CommitSave(t) PROVE AccountsInv'
<1> DEFINE after == IF t.row = None THEN [row EXCEPT !.posts = @ + t.add] ELSE t.row
<1>a. /\ tx' = tx \ {t} /\ row' = after
      /\ meant' = IF meant = None THEN IF tx' = {} /\ account = None THEN after ELSE None
                  ELSE IF t.row = None THEN [meant EXCEPT !.posts = @ + t.add]
                  ELSE [c \in DOMAIN meant |-> IF c \in t.cols THEN t.row[c] ELSE meant[c]]
      /\ left' = IF tx' = {} /\ meant # None THEN After(left, t.left) ELSE Back
      /\ UNCHANGED <<account, links, keys>>
  BY DEF CommitSave
<1>b. AccountsTyped /\ KnownKept /\ LockedKept
  BY DEF AccountsInv
<1>c. /\ t.add \in Nat /\ t.left \in {Stay, Leave, Reset, Back} /\ row # None
      /\ t.row = None => Held(row) /\ t.left = Stay
      /\ t.row # None => Held(t.row)
  BY <1>b DEF AccountsTyped, Exists
<1>1. /\ after \in Row /\ after.key <= keys
      /\ t.row = None => /\ after.status = row.status /\ after.email = row.email
                         /\ after.pw = row.pw
  BY <1>c DEF Held, Row
<1>2. meant # None => meant' = after
  BY <1>a, <1>b DEF KnownKept
<1> HIDE DEF after
<1>3. left' \in {Leave, Reset, Back}
  BY <1>a, <1>b, <1>c DEF After, AccountsTyped
<1>4. AccountsTyped'
  <2>1. \A r : Held(r) <=> Held(r)'
    BY <1>a DEF Held
  <2>2. Held(row)' /\ row' \notin {None, Gone}
    BY <1>1, <1>a DEF Held, AccountsAssumption
  <2>3. QED
    BY <2>1, <2>2, <1>3, <1>a, <1>b DEF AccountsTyped, Exists
<1>5. KnownKept'
  <2>1. CASE meant # None
    BY <2>1, <1>2, <1>a, <1>b DEF KnownKept
  <2>2. CASE meant = None
    BY <2>2, <1>a DEF KnownKept
  <2>3. QED
    BY <2>1, <2>2
<1>6. (left' # Back => Locked(after)) /\ (left' = Leave => ~after.pw)
  <2>1. CASE t.row = None
    <3>1. left' # Back => left' = left
      BY <2>1, <1>a, <1>c DEF After
    <3>2. QED
      BY <3>1, <2>1, <1>1, <1>b, FourKinds DEF LockedKept, Locked
  <2>2. CASE t.row # None
    <3>1. after = t.row
      BY <2>2 DEF after
    <3>2. ASSUME left' # Back PROVE meant # None /\ left' = After(left, t.left)
      BY <3>2, <1>a
    <3>3. CASE t.left = Leave
      BY <3>1, <3>3, <1>b DEF LockedKept
    <3>4. CASE t.left \in {Stay, Reset}
      <4>1. left' # Back => left # Back
        BY <3>2, <3>4, FourKinds DEF After
      <4>2. left' = Leave => t.left = Stay /\ left = Leave
        BY <3>2, <3>4, FourKinds DEF After
      <4>3. QED
        BY <4>1, <4>2, <3>1, <3>2, <3>4, <2>2, <1>b, FourKinds DEF LockedKept
    <3>5. CASE t.left = Back
      BY <3>2, <3>5, FourKinds DEF After
    <3>6. QED
      BY <3>3, <3>4, <3>5, <1>c
  <2>3. QED
    BY <2>1, <2>2
<1>7. LockedKept'
  <2>1. \A r : Locked(r) <=> Locked(r)'
    BY DEF Locked
  <2>2. left' # Back => tx' = {}
    BY <1>a
  <2>3. left' # Back => row' \in Row /\ Locked(row)'
    BY <2>1, <1>1, <1>6, <1>a
  <2>4. left' = Leave => ~row'.pw
    BY <1>6, <1>a
  <2>5. \A x \in tx' : x.left = Leave => Locked(x.row)' /\ ~x.row.pw
    BY <2>1, <1>a, <1>b DEF LockedKept
  <2>6. Leave # Back
    BY FourKinds
  <2>7. QED
    BY <2>2, <2>3, <2>4, <2>5, <2>6 DEF LockedKept
<1>8. QED
  BY <1>4, <1>5, <1>7 DEF AccountsInv

LEMMA AbortSaveInv == ASSUME AccountsInv, NEW t \in tx, AbortSave(t) PROVE AccountsInv'
<1>1. AccountsTyped'
  BY DEF AccountsInv, AccountsTyped, AbortSave, Held, Exists
<1>2. KnownKept'
  BY DEF AccountsInv, KnownKept, AbortSave, Exists
<1>3. LockedKept'
  BY DEF AccountsInv, LockedKept, AbortSave, Locked
<1>4. QED
  BY <1>1, <1>2, <1>3 DEF AccountsInv

LEMMA RegisterInv == ASSUME AccountsAssumption, AccountsInv, Register PROVE AccountsInv'
<1>1. PICK e \in Emails, s \in {Inactive, Active} :
        /\ row' = [status |-> s, email |-> e, pw |-> TRUE, key |-> 0, until |-> FALSE, posts |-> 0]
        /\ links' = IF s = Inactive THEN {[kind |-> "activate", email |-> e]} ELSE {}
  BY DEF Register
<1>2. /\ row = None /\ account = None /\ tx = {} /\ meant' = row'
      /\ UNCHANGED <<account, tx, keys, left>>
  BY DEF Register, AccountsInv, AccountsTyped
<1>3. row' \in Row /\ row'.key = 0
  BY <1>1 DEF Row, Inactive, Active, Deleted
<1>4. links' \subseteq Link
  BY <1>1 DEF Link
<1>5. left = Back
  BY <1>2 DEF AccountsInv, AccountsTyped, LockedKept, AccountsAssumption
<1>6. AccountsTyped'
  BY <1>2, <1>3, <1>4 DEF AccountsInv, AccountsTyped, Held
<1>7. KnownKept' /\ LockedKept'
  BY <1>2, <1>5, FourKinds DEF KnownKept, LockedKept
<1>8. QED
  BY <1>6, <1>7 DEF AccountsInv

\* The links change alone.
LEMMA LinksInv ==
    ASSUME AccountsInv, Mailed, UNCHANGED <<row, account, tx, keys, meant, left>> PROVE AccountsInv'
<1>1. AccountsTyped'
  BY DEF AccountsInv, AccountsTyped, Mailed, Held, Exists
<1>2. KnownKept'
  BY DEF AccountsInv, KnownKept, Exists
<1>3. LockedKept'
  BY DEF AccountsInv, LockedKept, Locked
<1>4. QED
  BY <1>1, <1>2, <1>3 DEF AccountsInv

LEMMA ResendInv == ASSUME AccountsAssumption, AccountsInv, Resend PROVE AccountsInv'
<1> DEFINE link == [kind |-> "activate", email |-> row.email]
<1>1. row \in Row /\ row.email # Dead
  BY DEF Resend, AccountsInv, AccountsTyped, Held, Exists
<1>2. link \in Link
  BY <1>1 DEF Link, Row
<1>3. Mail({link}, row.email) /\ UNCHANGED <<row, account, tx, keys, meant, left>>
  BY DEF Resend
<1> HIDE DEF link
<1>4. Mailed
  BY <1>2, <1>3, PlainMail
<1>5. QED
  BY <1>3, <1>4, LinksInv

LEMMA LinkExpiresInv == ASSUME AccountsInv, NEW l \in links, LinkExpires(l) PROVE AccountsInv'
  BY LinksInv DEF LinkExpires, Mailed, AccountsInv, AccountsTyped

LEMMA ScanInv == ASSUME AccountsInv, Scan PROVE AccountsInv'
  BY DEF Scan, AccountsInv, AccountsTyped, KnownKept, LockedKept, Locked, Held, Exists

LEMMA CleanInv == ASSUME AccountsAssumption, AccountsInv, Clean PROVE AccountsInv'
<1>1. AccountsTyped'
  BY DEF Clean, AccountsInv, AccountsTyped, Held, AccountsAssumption
<1>2. KnownKept' /\ LockedKept'
  BY FourKinds DEF Clean, KnownKept, LockedKept
<1>3. QED
  BY <1>1, <1>2 DEF AccountsInv

LEMMA CacheExpiresInv == ASSUME AccountsInv, CacheExpires PROVE AccountsInv'
<1>1. AccountsTyped'
  BY DEF CacheExpires, AccountsInv, AccountsTyped, Held, Exists
<1>2. KnownKept'
  BY DEF CacheExpires, AccountsInv, KnownKept, Exists
<1>3. LockedKept'
  BY DEF CacheExpires, AccountsInv, LockedKept, Locked
<1>4. QED
  BY <1>1, <1>2, <1>3 DEF AccountsInv

LEMMA AccountsStepInv ==
    ASSUME AccountsAssumption, AccountsInv, [AccountsNext]_accountVars PROVE AccountsInv'
<1>1. CASE UNCHANGED accountVars
  BY <1>1 DEF accountVars, AccountsInv, AccountsTyped, KnownKept, LockedKept, Locked, Held, Exists
<1>2. QED
  BY <1>1, RegisterInv, ResendInv, VisitInv, LoginInv, LogoutInv, SaveProfileInv, ChangePasswordInv,
     DeactivateInv, LostPasswordInv, ActivateInv, SetNewPasswordInv, ReactivateInv, SetNewEmailInv,
     LinkExpiresInv, EditInv, ScanInv, CleanInv, CacheExpiresInv, CountPostInv, CommitSaveInv, AbortSaveInv
  DEF AccountsNext

\* The row is what the requests meant to leave, each of which started from it; a deactivated
\* account is deleted and has no address, and what is about to be saved leaves it so; it has
\* no password either as long as no form for a new one is sent.
THEOREM AccountsInvariant == ASSUME AccountsAssumption PROVE AccountsSpec => []AccountsInv
<1>1. AccountsInit => AccountsInv
  BY AccountsInitInv
<1>2. AccountsInv /\ [AccountsNext]_accountVars => AccountsInv'
  BY AccountsStepInv
<1>3. QED
  BY <1>1, <1>2, PTL DEF AccountsSpec

\* Requests that run one after another leave the account as they meant to, though each
\* saves every column, and a deactivated account stays deleted and without address, and
\* without password but for the form for a new one.
THEOREM AccountsAsMeantHolds == ASSUME AccountsAssumption PROVE AccountsSpec => []AccountsAsMeant
<1>1. AccountsInv => NothingUndone
  BY DEF AccountsInv, KnownKept, NothingUndone
<1>2. AccountsInv => DeactivatedStaysLocked
  BY DEF AccountsInv, LockedKept, Locked, DeactivatedStaysLocked
<1>3. AccountsInv => AccountsAsMeant
  BY <1>1, <1>2 DEF AccountsAsMeant
<1>4. QED
  BY <1>3, AccountsInvariant, PTL
=============================================================================
