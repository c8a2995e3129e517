-------------------------- MODULE PrivateMessages --------------------------
(***************************************************************************)
(* Private messages: the personal entry every person involved has, its     *)
(* folder and read flag, and the cached number of unread entries in the    *)
(* page header (portal/models.py, portal/views.py, utils/templating.py).   *)
(*                                                                         *)
(* A request reads the entries it works on in one step and writes them in  *)
(* another; requests of one user, too, run side by side.                   *)
(***************************************************************************)
EXTENDS Naturals, FiniteSets

CONSTANTS PMUsers, Messages, Unset,
          MaxPMRequests       \* bound: requests that run at a time

Entries == Messages \X PMUsers
OwnerOf(e) == e[2]

Folders == {"sent", "inbox", "trash", "archive"}   \* NULL is Unset: deleted for good
EntryRow == [read : BOOLEAN, folder : Folders \union {Unset}]

\* What is not there is no user, no folder and no row.
MessagesAssumption == /\ Unset \notin PMUsers
                      /\ Unset \notin Folders
                      /\ Unset \notin EntryRow

VARIABLES author,    \* message -> its author, or Unset while it is not sent
          entry,     \* entry -> [read, folder], or Unset
          running,   \* requests that have read and not written
          badge,     \* user -> 'portal/pm_count/<id>', or Unset
          early,     \* history: users whose count was cached while it was changing
          unsynced,  \* history: users whose count changed without emptying the cache
          crossed,   \* history: entries used by two requests at a time
          mistaken   \* history: entries deleted for good on a page of another folder

msgVars == <<author, entry, running, badge, early, unsynced, crossed, mistaken>>

MessagesInit == /\ author = [m \in Messages |-> Unset]
                /\ entry = [e \in Entries |-> Unset]
                /\ running = {}
                /\ badge = [u \in PMUsers |-> Unset]
                /\ early = {} /\ unsynced = {} /\ crossed = {} /\ mistaken = {}

EntriesOf(u) == {e \in Entries : OwnerOf(e) = u /\ entry[e] # Unset}
Unread(u) == Cardinality({e \in EntriesOf(u) : ~entry[e].read})

-----------------------------------------------------------------------------
(* The page header                                                          *)

Header(u) ==
  /\ badge[u] = Unset
  /\ badge' = [badge EXCEPT ![u] = Unread(u)]
  /\ early' = IF \E r \in running : u \in r.recounts THEN early \union {u} ELSE early
  /\ UNCHANGED <<author, entry, running, unsynced, crossed, mistaken>>

Recounted(us) == [u \in PMUsers |-> IF u \in us THEN Unset ELSE badge[u]]

BadgeExpires(u) == /\ badge[u] # Unset
                   /\ badge' = [badge EXCEPT ![u] = Unset]
                   /\ early' = early \ {u} /\ unsynced' = unsynced \ {u}
                   /\ UNCHANGED <<author, entry, running, crossed, mistaken>>

\* A request r starts: it works on some entries and empties the cached counts of
\* the users whose entries it marks or makes.
StartRequest(r) ==
  /\ Cardinality(running) < MaxPMRequests
  /\ running' = running \union {r}
  /\ badge' = Recounted(r.recounts)
  /\ early' = early \ r.recounts /\ unsynced' = unsynced \ r.recounts
  /\ crossed' = crossed \union {e \in r.uses : \E q \in running : e \in q.uses}
  /\ UNCHANGED <<entry, mistaken>>

-----------------------------------------------------------------------------
(* The requests                                                             *)

\* send(): the author's entry is in "sent" and read, those of the others in
\* "inbox" and unread.
Send(m, u) ==
  /\ author[m] = Unset
  /\ author' = [author EXCEPT ![m] = u]
  /\ \E to \in (SUBSET (PMUsers \ {u})) \ {{}} :
       StartRequest([kind |-> "write", page |-> Unset, uses |-> {m} \X (to \union {u}), recounts |-> to,
              rows |-> [e \in {m} \X (to \union {u}) |->
                          IF OwnerOf(e) = u THEN [read |-> TRUE, folder |-> "sent"]
                                            ELSE [read |-> FALSE, folder |-> "inbox"]]])

\* Where the folder actions of a single entry put it.
Origin(e) == IF OwnerOf(e) = author[e[1]] THEN "sent" ELSE "inbox"
DeletedTo(folder) == IF folder = "trash" THEN Unset ELSE "trash"

MovedTo(e, action) ==
  LET f == entry[e].folder IN
  CASE action = "archive" -> "archive"
    [] action = "restore" /\ f = "trash" -> Origin(e)
    [] action = "delete" -> DeletedTo(f)
    [] OTHER -> f

\* privmsg: showing an entry marks it as read; an action may move it.
ShowEntry(e) ==
  /\ entry[e] # Unset /\ entry[e].folder # Unset
  /\ \E action \in {"view", "archive", "restore", "delete"} :
       LET row == [read |-> TRUE, folder |-> MovedTo(e, action)] IN
       /\ row # entry[e]
       /\ StartRequest([kind |-> "write", page |-> entry[e].folder, uses |-> {e},
                 recounts |-> IF entry[e].read THEN {} ELSE {OwnerOf(e)},
                 rows |-> [d \in {e} |-> row]])
  /\ UNCHANGED author

\* "delete marked messages" accepts entries that are in the folder of the page.
AnyChoice(u, f) == {e \in EntriesOf(u) : entry[e].folder # Unset}
Choices(u, f) == {e \in EntriesOf(u) : entry[e].folder = f}

SelectMarked(u, f) ==
  /\ \E marked \in (SUBSET Choices(u, f)) \ {{}} :
       StartRequest([kind |-> "list", page |-> f, uses |-> marked, recounts |-> {}, rows |-> <<>>])
  /\ UNCHANGED author

WriteEntries(r) ==
  /\ r.kind = "write"
  /\ running' = running \ {r}
  /\ entry' = [e \in Entries |-> IF e \in r.uses THEN r.rows[e] ELSE entry[e]]
  /\ UNCHANGED <<author, badge, early, unsynced, crossed, mistaken>>

\* delete_list is one UPDATE.  MySQL assigns from left to right, so "read" is
\* decided by the new folder: an entry put into the trash becomes read.
Trashed(row) == LET f == DeletedTo(row.folder) IN [read |-> row.read \/ f = "trash", folder |-> f]

UpdateMarked(r) ==
  LET u == CHOOSE v \in PMUsers : \E e \in r.uses : OwnerOf(e) = v IN
  /\ r.kind = "list"
  /\ running' = running \ {r}
  /\ entry' = [e \in Entries |-> IF e \in r.uses THEN Trashed(entry[e]) ELSE entry[e]]
  /\ unsynced' = IF Unread(u)' # Unread(u) THEN unsynced \union {u} ELSE unsynced
  /\ mistaken' = mistaken \union
       {e \in r.uses : r.page # "trash" /\ entry[e].folder = "trash"}
  /\ UNCHANGED <<author, badge, early, crossed>>

\* The request fails before it has written.
RequestFails(r) == /\ running' = running \ {r}
                   /\ UNCHANGED <<author, entry, badge, early, unsynced, crossed, mistaken>>

MessagesNext == \/ \E u \in PMUsers : Header(u) \/ BadgeExpires(u) \/ \E f \in Folders : SelectMarked(u, f)
                \/ \E m \in Messages, u \in PMUsers : Send(m, u)
                \/ \E e \in Entries : ShowEntry(e)
                \/ \E r \in running : WriteEntries(r) \/ UpdateMarked(r) \/ RequestFails(r)

MessagesSpec == MessagesInit /\ [][MessagesNext]_msgVars

-----------------------------------------------------------------------------

MessagesTypeOK == /\ author \in [Messages -> PMUsers \union {Unset}]
                  /\ entry \in [Entries -> EntryRow \union {Unset}]
                  /\ badge \in [PMUsers -> 0..Cardinality(Messages) \union {Unset}]

\* The number of unread messages in the header is right, unless it was cached
\* while a message was being sent or read, or unread messages were put into the
\* trash from a list, which does not empty the cache.
BadgesCurrent ==
  \A u \in PMUsers \ (early \union unsynced) : badge[u] \in {Unset, Unread(u)}

\* A message is deleted for good only from the trash: a list of another folder
\* that is submitted again does not find it, unless two requests overlap.
PurgedFromTrash == mistaken \subseteq crossed

\* Both together, for every user.
MessagesTrue == BadgesCurrent /\ PurgedFromTrash
=============================================================================
