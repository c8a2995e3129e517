------------------------------ MODULE OpenTasks ------------------------------
(***************************************************************************)
(* What waits for the team: reported topics (report, reportlist and        *)
(* reported_topics_subscription in forum/views.py), suggested articles     *)
(* (ikhaya/views.py), events that are not visible yet (portal/views.py,    *)
(* admin/views.py, Event in portal/models.py), and the cached numbers of   *)
(* them in the header of every page (utils/templating.py).                 *)
(*                                                                         *)
(* A report is committed before its key is deleted from the cache; the     *)
(* views of the others delete the key first, and the transaction           *)
(* middleware commits when they are done.                                  *)
(***************************************************************************)
EXTENDS Naturals, FiniteSets, FiniteSetsExt

CONSTANTS Topics, Team, Names,  \* Names: dates and names of events, the start of their slugs
          Void, MaxIds, MaxRequests   \* bounds: rows of a table, requests that write

VARIABLES report,       \* topic -> number of its report, or Void
          claim,        \* topic -> who has taken it (report_claimed_by), or Void
          there,        \* topics that have not been deleted
          subscribers,  \* storage['reported_topics_subscribers']
          suggestion,   \* id -> its owner, or NoOne; Void
          event,        \* id -> [name, number, visible], or Void
          count,        \* kind -> the cached number, or Void
          header,       \* kind -> the number of a header under way, or Void
          taskTx,       \* number -> the request under way, or Void
          requests,     \* spent of MaxRequests
          had,          \* history: event -> its numbers since it has its name
          member,       \* history: who subscribed and has not unsubscribed
          overtaken     \* history: kinds whose count may be stale, "team" for its list,
                        \* topics claimed while they were not reported

taskVars == <<report, claim, there, subscribers, suggestion, event, count, header, taskTx,
              requests, had, member, overtaken>>

Kinds == {"reported", "suggestion", "event"}
Ids == 1..MaxIds
NoOne == "-"
Running == {n \in DOMAIN taskTx : taskTx[n] # Void}

\* What an event is stored with; the number is the end of its slug.
NamedEvent == [name : Names, number : Nat \ {0}, visible : BOOLEAN]
Requests(kind, ids, rows) ==
  [no : 1..MaxRequests, kind : {kind},
   op : {"report", "solve", "remove", "subscribe", "unsubscribe", "new", "assign", "edit", "delete"},
   id : ids, row : rows, stage : {"read", "saved", "committed"}]
Request == Requests("reported", Topics \union {Void}, {Void})
           \union Requests("team", Team, SUBSET Team)
           \union Requests("suggestion", Ids, {Void, NoOne})
           \union Requests("event", Ids, NamedEvent \union {Void})

\* Void is no number, no person, no row and no request, and the names of topics are not
\* those of the kinds.
TasksAssumption ==
  /\ MaxIds \in Nat /\ MaxRequests \in Nat
  /\ Void \notin Nat /\ Void \notin Team \union {NoOne}
  /\ Void \notin NamedEvent /\ Void \notin Request
  /\ Topics \intersect (Kinds \union {"team"}) = {}

Used(table) == {i \in Ids : table[i] # Void}
Waiting(kind) ==
  CASE kind = "reported"   -> Cardinality({t \in there : report[t] # Void})
    [] kind = "suggestion" -> Cardinality(Used(suggestion))
    [] kind = "event"      -> Cardinality({i \in Used(event) : ~event[i].visible})

-----------------------------------------------------------------------------
(* The header                                                               *)

Changing(kind) == \E n \in Running : taskTx[n].kind = kind /\ taskTx[n].stage = "saved"

\* Its transaction sees the rows as they are now.
OpenHeader == /\ header = Void /\ header' = [kind \in Kinds |-> Waiting(kind)]
              /\ overtaken' = overtaken \union {kind \in Kinds : Changing(kind)}
              /\ UNCHANGED <<report, claim, there, subscribers, suggestion, event, count, taskTx,
                             requests, had, member>>

\* populate_context_defaults sets what it did not get.
FillHeader ==
  /\ header # Void /\ header' = Void
  /\ count' = [kind \in Kinds |-> IF count[kind] = Void THEN header[kind] ELSE count[kind]]
  /\ UNCHANGED <<report, claim, there, subscribers, suggestion, event, taskTx, requests, had,
                 member, overtaken>>

Uncounted(kind) == [count EXCEPT ![kind] = Void]
Deleted(kind) == Uncounted(kind)

\* A header under way may put the old number back.
KeyDeleted(kind) == /\ count' = Deleted(kind)
                    /\ overtaken' = IF header = Void THEN overtaken \ {kind}
                                    ELSE overtaken \union {kind}

\* Rows change without the key being touched.
Disturbed(kind) == overtaken' = IF header = Void THEN overtaken ELSE overtaken \union {kind}

-----------------------------------------------------------------------------
(* Requests: [no, kind, op, id, row, stage]                                 *)

Started(kind, op, id, row, stage) ==
  /\ requests < MaxRequests /\ requests' = requests + 1
  /\ taskTx' = [taskTx EXCEPT ![requests'] =
                  [no |-> requests', kind |-> kind, op |-> op, id |-> id, row |-> row, stage |-> stage]]

Moved(r, row, stage) == taskTx' = [taskTx EXCEPT ![r.no].row = row, ![r.no].stage = stage]
Ended(r) == taskTx' = [taskTx EXCEPT ![r.no] = Void]

\* A row that a transaction has written is locked until it ends.
RowLocked(kind, id) ==
  \E n \in Running : taskTx[n].kind = kind /\ taskTx[n].id = id /\ taskTx[n].stage = "saved"
At(r, kind, ops, stage) == r.kind = kind /\ r.op \in ops /\ r.stage = stage

Begin(kind, op, id, row) ==
  /\ Started(kind, op, id, row, "read")
  /\ UNCHANGED <<report, claim, there, subscribers, suggestion, event, count, header, had,
                 member, overtaken>>

\* The end of the view: what it has written is there for everybody.
CommitTask(r) ==
  /\ r.stage = "saved" /\ Ended(r)
  /\ there' = IF r.kind = "reported" THEN there \ {r.id} ELSE there
  /\ suggestion' = IF r.kind = "suggestion" THEN [suggestion EXCEPT ![r.id] = r.row] ELSE suggestion
  /\ event' = IF r.kind = "event" THEN [event EXCEPT ![r.id] = r.row] ELSE event
  /\ had' = IF r.kind # "event" THEN had
            ELSE [had EXCEPT ![r.id] =
                    IF r.row = Void THEN {}
                    ELSE IF event[r.id] # Void /\ event[r.id].name = r.row.name
                         THEN @ \union {r.row.number} ELSE {r.row.number}]
  /\ Disturbed(r.kind)
  /\ UNCHANGED <<report, claim, subscribers, count, header, requests, member>>

-----------------------------------------------------------------------------
(* Reported topics                                                          *)

BeginReport(t) == t \in there /\ report[t] = Void /\ Begin("reported", "report", t, Void)

\* Fails if the topic is gone.
CommitReport(r) ==
  /\ At(r, "reported", {"report"}, "read") /\ ~RowLocked("reported", r.id)
  /\ IF r.id \in there
     THEN /\ report' = [report EXCEPT ![r.id] = r.no]
          /\ Moved(r, Void, "committed") /\ Disturbed("reported")
     ELSE Ended(r) /\ UNCHANGED <<report, overtaken>>
  /\ UNCHANGED <<claim, there, subscribers, suggestion, event, count, header, requests, had, member>>

\* Who subscribed is told, or the list tells that topics are done; then the key is deleted.
Tell(r) == /\ At(r, "reported", {"report", "solve"}, "committed")
           /\ Ended(r) /\ KeyDeleted("reported")
           /\ UNCHANGED <<report, claim, there, subscribers, suggestion, event, header,
                          requests, had, member>>

\* The link is in the list of the reported topics, but takes any topic.
Assign(u, t) ==
  /\ t \in there /\ ~RowLocked("reported", t)
  /\ claim' = [claim EXCEPT ![t] = u]
  /\ overtaken' = IF report[t] = Void THEN overtaken \union {t} ELSE overtaken
  /\ requests < MaxRequests /\ requests' = requests + 1
  /\ UNCHANGED <<report, there, subscribers, suggestion, event, count, header, taskTx, had, member>>

Unclaimed(done) == [t \in Topics |-> IF t \in done THEN Void ELSE claim[t]]
ClaimsLeft(done) == claim
ClaimsAfter(done) == Unclaimed(done)

Solve(done) ==
  /\ done # {} /\ \A t \in done : t \in there /\ report[t] # Void /\ ~RowLocked("reported", t)
  /\ report' = [t \in Topics |-> IF t \in done THEN Void ELSE report[t]]
  /\ claim' = ClaimsAfter(done)
  /\ overtaken' = (IF header = Void THEN overtaken ELSE overtaken \union {"reported"}) \ done
  /\ Started("reported", "solve", Void, Void, "committed")
  /\ UNCHANGED <<there, subscribers, suggestion, event, count, header, had, member>>

\* The key is deleted with the row, before the commit.
RemoveTopic(t) ==
  /\ t \in there /\ ~RowLocked("reported", t)
  /\ Started("reported", "remove", t, Void, "saved") /\ KeyDeleted("reported")
  /\ UNCHANGED <<report, claim, there, subscribers, suggestion, event, header, had, member>>

\* reported_topics_subscription writes the whole list.
BeginSubscription(u, op) == Begin("team", op, u, subscribers)

With(r) == IF r.op = "subscribe" THEN r.row \union {r.id} ELSE r.row \ {r.id}
WriteSubscription(r) ==
  /\ At(r, "team", {"subscribe", "unsubscribe"}, "read") /\ Ended(r)
  /\ subscribers' = With(r)
  /\ member' = IF r.op = "subscribe" THEN member \union {r.id} ELSE member \ {r.id}
  /\ overtaken' = IF \E n \in Running \ {r.no} : taskTx[n].kind = "team"
                  THEN overtaken \union {"team"} ELSE overtaken
  /\ UNCHANGED <<report, claim, there, suggestion, event, count, header, requests, had>>

-----------------------------------------------------------------------------
(* Suggested articles                                                       *)

\* Numbers nobody refers to.
FreeIds(kind, table) ==
  {i \in Ids : table[i] = Void /\ \A n \in Running : taskTx[n].kind = kind => taskTx[n].id # i}

Suggest ==
  \E i \in FreeIds("suggestion", suggestion) :
    /\ \A j \in FreeIds("suggestion", suggestion) : i <= j
    /\ Started("suggestion", "new", i, NoOne, "saved") /\ KeyDeleted("suggestion")
    /\ UNCHANGED <<report, claim, there, subscribers, suggestion, event, header, had, member>>

BeginSuggestion(i, op) == suggestion[i] # Void /\ Begin("suggestion", op, i, Void)

\* suggestion_assign_to does not touch the key.  What becomes of a row that was deleted
\* meanwhile is the database's: saving it changes nothing, or inserts it again.
AssignSuggestion(r, owner) ==
  /\ At(r, "suggestion", {"assign"}, "read") /\ ~RowLocked("suggestion", r.id) /\ Ended(r)
  /\ \/ /\ suggestion[r.id] # Void
        /\ suggestion' = [suggestion EXCEPT ![r.id] = owner] /\ UNCHANGED overtaken
     \/ /\ suggestion[r.id] = Void
        /\ \/ /\ suggestion' = [suggestion EXCEPT ![r.id] = owner]
              /\ overtaken' = overtaken \union {"suggestion"}
           \/ UNCHANGED <<suggestion, overtaken>>
  /\ UNCHANGED <<report, claim, there, subscribers, event, count, header, requests, had, member>>

DeleteSuggestion(r) ==
  /\ At(r, "suggestion", {"delete"}, "read") /\ ~RowLocked("suggestion", r.id)
  /\ Moved(r, Void, "saved") /\ KeyDeleted("suggestion")
  /\ UNCHANGED <<report, claim, there, subscribers, suggestion, event, header, requests, had, member>>

-----------------------------------------------------------------------------
(* Events                                                                   *)

\* Event.save looks for a new slug each time; the one it has is taken.
NumbersOf(name) == {event[i].number : i \in {j \in Used(event) : event[j].name = name}}
NextNumber(name) == IF NumbersOf(name) = {} THEN 1 ELSE Max(NumbersOf(name)) + 1
Number(name) == NextNumber(name)

EventRow(name, visible) == [name |-> name, number |-> Number(name), visible |-> visible]

\* Slugs are unique: one that another transaction has taken is waited for.
FreeSlug(row) ==
  \A n \in Running : taskTx[n].kind = "event" /\ taskTx[n].stage = "saved" /\ taskTx[n].row # Void
     => <<taskTx[n].row.name, taskTx[n].row.number>> # <<row.name, row.number>>

\* event_new, event_edit without an id
NewEvent(name, visible) ==
  \E i \in FreeIds("event", event) :
    /\ \A j \in FreeIds("event", event) : i <= j
    /\ FreeSlug(EventRow(name, visible))
    /\ Started("event", "new", i, EventRow(name, visible), "saved") /\ KeyDeleted("event")
    /\ UNCHANGED <<report, claim, there, subscribers, suggestion, event, header, had, member>>

BeginEvent(i, op) == event[i] # Void /\ Begin("event", op, i, Void)

EditEvent(r, name, visible) ==
  /\ At(r, "event", {"edit"}, "read") /\ ~RowLocked("event", r.id)
  /\ FreeSlug(EventRow(name, visible))
  /\ \/ Moved(r, EventRow(name, visible), "saved")
     \/ event[r.id] = Void /\ Ended(r)
  /\ KeyDeleted("event")
  /\ UNCHANGED <<report, claim, there, subscribers, suggestion, event, header, requests, had, member>>

DeleteEvent(r) ==
  /\ At(r, "event", {"delete"}, "read") /\ ~RowLocked("event", r.id)
  /\ Moved(r, Void, "saved") /\ KeyDeleted("event")
  /\ UNCHANGED <<report, claim, there, subscribers, suggestion, event, header, requests, had, member>>

-----------------------------------------------------------------------------

TasksInit == /\ report = [t \in Topics |-> Void] /\ claim = [t \in Topics |-> Void] /\ there = Topics
             /\ subscribers = {} /\ member = {}
             /\ suggestion = [i \in Ids |-> Void] /\ event = [i \in Ids |-> Void]
             /\ count = [kind \in Kinds |-> Void] /\ header = Void
             /\ taskTx = [n \in 1..MaxRequests |-> Void] /\ requests = 0
             /\ had = [i \in Ids |-> {}] /\ overtaken = {}

Reports == \/ \E t \in Topics : \/ BeginReport(t) \/ RemoveTopic(t)
                                \/ \E u \in Team : Assign(u, t)
           \/ \E done \in SUBSET Topics : Solve(done)
           \/ \E n \in Running : \/ CommitReport(taskTx[n]) \/ Tell(taskTx[n])
                                \/ WriteSubscription(taskTx[n])
           \/ \E u \in Team, op \in {"subscribe", "unsubscribe"} : BeginSubscription(u, op)

Suggestions == \/ Suggest
               \/ \E i \in Ids, op \in {"assign", "delete"} : BeginSuggestion(i, op)
               \/ \E n \in Running :
                    \/ DeleteSuggestion(taskTx[n])
                    \/ \E owner \in Team \union {NoOne} : AssignSuggestion(taskTx[n], owner)

Events == \/ \E name \in Names, visible \in BOOLEAN :
               \/ NewEvent(name, visible)
               \/ \E n \in Running : EditEvent(taskTx[n], name, visible)
          \/ \E i \in Ids, op \in {"edit", "delete"} : BeginEvent(i, op)
          \/ \E n \in Running : DeleteEvent(taskTx[n])

TasksNext == \/ Reports \/ Suggestions \/ Events
             \/ OpenHeader \/ FillHeader
             \/ \E n \in Running : CommitTask(taskTx[n])

TasksSpec == TasksInit /\ [][TasksNext]_taskVars

-----------------------------------------------------------------------------

\* A number in the header is that of what waits, but while a report is committed and its
\* key not yet deleted, and unless a header was under way together with a change.
CountsAreTrue ==
  \A kind \in Kinds \ overtaken :
    /\ count[kind] # Void
    /\ (\A n \in Running : ~At(taskTx[n], kind, {"report", "solve"}, "committed"))
    => count[kind] = Waiting(kind)

\* Who has taken a report is forgotten with it: the next report of the topic is nobody's,
\* unless somebody took the topic in between.
ClaimsAreOfReports == \A t \in there \ overtaken : claim[t] # Void => report[t] # Void

\* Whoever subscribed to the reports is told, unless two changed the list at once.
SubscribersKept == "team" \notin overtaken => subscribers = member

\* An address that an event had under its name does not lead to another event as long as
\* the event has that name.
AddressesKept ==
  \A i, j \in Used(event) : i # j /\ event[i].name = event[j].name => event[j].number \notin had[i]

TeamSeesWhatWaits == CountsAreTrue /\ ClaimsAreOfReports /\ SubscribersKept /\ AddressesKept
=============================================================================
