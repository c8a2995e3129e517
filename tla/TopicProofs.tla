---------------------------- MODULE TopicProofs ----------------------------
(***************************************************************************)
(* What hangs on a topic, while requests overlap and end anywhere: the     *)
(* files of attachments, the mails to subscribers, the texts of a post     *)
(* that is edited, the forums that are looked up through caches, the votes *)
(* in its polls, and the lists that show it: for any number of uploads,    *)
(* readers, texts, forums, topics, polls, voters and requests.             *)
(***************************************************************************)
EXTENDS PostEdits, Polls, Attachments, Subscriptions, ForumTree, TopicPages,
        FiniteSetTheorems, TLAPS

-----------------------------------------------------------------------------
(* Attachments.                                                            *)

(* A request under way, and what it knows: a deletion was begun on a row   *)
(* that was there, and knows its place as long as that is the temporary    *)
(* one; a sent form has copied what it has done, and none of its copies is *)
(* removed before the row says that it is there.                           *)
Deleting(r) ==
    /\ r.kind = "delete" /\ r.of \in Uploads /\ r.file \in Places
    /\ r = [kind |-> "delete", of |-> r.of, file |-> r.file, done |-> r.done]
    /\ r.done \subseteq {r.of}
    /\ fileRow[r.of] # None
    /\ fileRow[r.of] = "temp" => r.file = "temp"

Sending(r) ==
    /\ r.kind = "send" /\ r.todo \subseteq Uploads /\ r.copied \subseteq Uploads
    /\ r = [kind |-> "send", todo |-> r.todo, copied |-> r.copied, done |-> r.done]
    /\ r.done \subseteq r.copied
    /\ \A a \in r.todo \union r.copied : fileRow[a] # None
    /\ \A a \in r.copied : fileRow[a] = "temp" => <<a, "post">> \in disk

(* The files of rows: as FilesExist, but what a request that sends the     *)
(* form has done excuses nothing once the row names the final place.       *)
RowsHaveFiles ==
    \A a \in Uploads :
        /\ fileRow[a] = "temp" => \/ <<a, "temp">> \in disk
                                  \/ a \in broken \union UnderWay \union cleaned
        /\ fileRow[a] = "post" => \/ <<a, "post">> \in disk
                                  \/ a \in broken
                                  \/ \E r \in uploads : r.kind = "delete" /\ a \in r.done

FilesInv == /\ FilesTypeOK
            /\ \A r \in uploads : Deleting(r) \/ Sending(r)
            /\ RowsHaveFiles

LEMMA FilesInvInit == FilesInit /\ FilesAssumption => FilesInv
BY DEF FilesInit, FilesInv, FilesTypeOK, RowsHaveFiles, FilesAssumption, Places

LEMMA UploadKeeps ==
    ASSUME FilesInv, FilesAssumption, NEW a \in Uploads, NEW over \in SUBSET (Uploads \ {a}), Upload(a, over)
    PROVE  FilesInv'
<1>1. FilesTypeOK'
  BY DEF FilesInv, FilesTypeOK, Upload, Places, Has
<1>2. \A r \in uploads : Deleting(r)' \/ Sending(r)'
  <2> SUFFICES ASSUME NEW r \in uploads PROVE Deleting(r)' \/ Sending(r)'
    OBVIOUS
  <2>1. CASE Deleting(r)
    BY <2>1 DEF Deleting, Upload, FilesAssumption, Places, FilesInv, FilesTypeOK
  <2>2. CASE Sending(r)
    BY <2>2 DEF Sending, Upload, FilesAssumption, Places, FilesInv, FilesTypeOK
  <2>3. QED BY <2>1, <2>2 DEF FilesInv
<1>3. RowsHaveFiles'
  BY DEF FilesInv, RowsHaveFiles, Upload, FilesAssumption, UnderWay
<1>4. QED
  BY <1>1, <1>2, <1>3 DEF FilesInv, Upload

(* A request that begins has done nothing.                                 *)
LEMMA BeginFilesKeeps ==
    ASSUME FilesInv, NEW r, BeginFiles(r), Deleting(r) \/ Sending(r), r.done = {}
    PROVE  FilesInv'
<1>1. FilesTypeOK'
  BY DEF FilesInv, FilesTypeOK, BeginFiles
<1>2. \A s \in uploads' : Deleting(s)' \/ Sending(s)'
  BY DEF FilesInv, BeginFiles, Deleting, Sending
<1>3. UnderWay \subseteq UnderWay' /\ uploads \subseteq uploads'
  BY DEF BeginFiles, UnderWay
<1>4. RowsHaveFiles'
  BY <1>3 DEF FilesInv, RowsHaveFiles, BeginFiles
<1>5. QED
  BY <1>1, <1>2, <1>4 DEF FilesInv

LEMMA BeginDeleteKeeps ==
    ASSUME FilesInv, FilesAssumption, NEW a \in Uploads, BeginDelete(a)
    PROVE  FilesInv'
<1> DEFINE r == [kind |-> "delete", of |-> a, file |-> fileRow[a], done |-> {}]
<1>1. Deleting(r)
  BY DEF Deleting, BeginDelete, Has, FilesAssumption, Places
<1>2. BeginFiles(r) /\ r.done = {}
  BY DEF BeginDelete
<1>3. QED
  BY ONLY <1>1, <1>2, BeginFilesKeeps, FilesInv

LEMMA BeginSendKeeps == ASSUME FilesInv, FilesAssumption, BeginSend PROVE FilesInv'
<1> DEFINE r == [kind |-> "send", todo |-> Unbound, copied |-> {}, done |-> {}]
<1>1. Sending(r)
  BY DEF Sending, Unbound, FilesAssumption
<1>2. BeginFiles(r) /\ r.done = {}
  BY DEF BeginSend
<1>3. QED
  BY ONLY <1>1, <1>2, BeginFilesKeeps, FilesInv

(* A deletion takes the file it knows of, and so none of those a row that  *)
(* is still in the form will need.                                         *)
LEMMA RemoveFileKeeps ==
    ASSUME FilesInv, FilesAssumption, NEW r \in uploads, RemoveFile(r)
    PROVE  FilesInv'
<1> DEFINE s == [r EXCEPT !.done = {r.of}]
<1>1. Deleting(r)
  BY DEF FilesInv, RemoveFile, Sending
<1>2. /\ uploads' = (uploads \ {r}) \union {s}
      /\ disk' = disk \ {<<r.of, r.file>>}
      /\ UNCHANGED <<fileRow, broken, cleaned>>
      /\ r.done = {}
  BY DEF RemoveFile, Advance
<1>3. /\ s = [kind |-> "delete", of |-> r.of, file |-> r.file, done |-> {r.of}]
      /\ s.kind = "delete" /\ s.of = r.of /\ s.file = r.file /\ s.done = {r.of}
  BY <1>1 DEF Deleting
<1>4. FilesTypeOK'
  BY <1>2 DEF FilesInv, FilesTypeOK
<1>5. ASSUME NEW q \in uploads' PROVE Deleting(q)' \/ Sending(q)'
  <2>1. CASE q = s
    BY <1>1, <1>2, <1>3, <2>1 DEF Deleting
  <2>2. CASE q \in uploads
    <3>1. CASE Deleting(q)
      BY <3>1, <1>2 DEF Deleting
    <3>2. CASE Sending(q)
      <4>1. \A a \in q.copied : fileRow[a] = "temp" => <<a, "post">> # <<r.of, r.file>>
        BY <1>1 DEF Deleting, FilesAssumption
      <4>2. QED
        BY <3>2, <4>1, <1>2 DEF Sending
    <3>3. QED
      BY <2>2, <3>1, <3>2 DEF FilesInv
  <2>3. QED
    BY <1>2, <2>1, <2>2
<1>6. RowsHaveFiles'
  <2>1. UnderWay \subseteq UnderWay' /\ r.of \in UnderWay'
    <3>1. s \in uploads' /\ r.of \in s.done
      BY <1>2, <1>3
    <3>2. \A q \in uploads : q.done # {} => q \in uploads'
      BY <1>2
    <3>3. UnderWay \subseteq UnderWay'
      BY <3>2 DEF UnderWay
    <3>4. QED
      BY <3>1, <3>3 DEF UnderWay
  <2>2. s \in uploads'
    BY <1>2
  <2>3. \A q : q \in uploads /\ q # r => q \in uploads'
    BY <1>2
  <2>4. QED
    BY <2>1, <2>2, <2>3, <1>1, <1>2, <1>3 DEF FilesInv, RowsHaveFiles, Deleting
<1>7. QED
  BY <1>4, <1>5, <1>6 DEF FilesInv

LEMMA CopyFileKeeps ==
    ASSUME FilesInv, NEW r \in uploads, NEW a \in Uploads, CopyFile(r, a)
    PROVE  FilesInv'
<1> DEFINE s == [r EXCEPT !.copied = @ \union {a}, !.todo = @ \ {a}]
<1>1. Sending(r)
  BY DEF FilesInv, CopyFile, Deleting
<1>2. /\ uploads' = (uploads \ {r}) \union {s}
      /\ disk' = disk \union {<<a, "post">>}
      /\ UNCHANGED <<fileRow, broken, cleaned>>
      /\ a \in r.todo
  BY DEF CopyFile, Advance
<1>3. /\ s = [kind |-> "send", todo |-> r.todo \ {a}, copied |-> r.copied \union {a}, done |-> r.done]
      /\ s.kind = "send" /\ s.todo = r.todo \ {a} /\ s.copied = r.copied \union {a} /\ s.done = r.done
  <2>1. r = [kind |-> "send", todo |-> r.todo, copied |-> r.copied, done |-> r.done]
    BY <1>1 DEF Sending
  <2> DEFINE m == [r EXCEPT !.copied = @ \union {a}]
  <2>2. m = [kind |-> "send", todo |-> r.todo, copied |-> r.copied \union {a}, done |-> r.done]
    BY <2>1
  <2>3. s = [m EXCEPT !.todo = r.todo \ {a}]
    OBVIOUS
  <2> HIDE DEF m, s
  <2>4. s = [kind |-> "send", todo |-> r.todo \ {a}, copied |-> r.copied \union {a}, done |-> r.done]
    BY <2>2, <2>3
  <2>5. QED
    BY ONLY <2>4
<1>4. FilesTypeOK'
  BY <1>2 DEF FilesInv, FilesTypeOK, Places
<1>5. ASSUME NEW q \in uploads' PROVE Deleting(q)' \/ Sending(q)'
  <2>1. CASE q = s
    BY <1>1, <1>2, <1>3, <2>1 DEF Sending
  <2>2. CASE q \in uploads
    BY <2>2, <1>2 DEF FilesInv, Deleting, Sending
  <2>3. QED
    BY <1>2, <2>1, <2>2
<1>6. RowsHaveFiles'
  <2>1. UnderWay \subseteq UnderWay'
    BY <1>2, <1>3 DEF UnderWay
  <2>2. \A b, q : q \in uploads /\ q.kind = "delete" => q \in uploads'
    BY <1>1, <1>2 DEF Sending
  <2>3. QED
    BY <2>1, <2>2, <1>2 DEF FilesInv, RowsHaveFiles
<1>7. QED
  BY <1>4, <1>5, <1>6 DEF FilesInv

LEMMA RemoveTempKeeps ==
    ASSUME FilesInv, NEW r \in uploads, NEW a \in Uploads, RemoveTemp(r, a)
    PROVE  FilesInv'
<1> DEFINE s == [r EXCEPT !.done = @ \union {a}]
<1>1. Sending(r)
  BY DEF FilesInv, RemoveTemp, Deleting
<1>2. /\ uploads' = (uploads \ {r}) \union {s}
      /\ disk' = disk \ {<<a, "temp">>}
      /\ UNCHANGED <<fileRow, broken, cleaned>>
      /\ a \in r.copied
  BY DEF RemoveTemp, Advance
<1>3. /\ s = [kind |-> "send", todo |-> r.todo, copied |-> r.copied, done |-> r.done \union {a}]
      /\ s.kind = "send" /\ s.todo = r.todo /\ s.copied = r.copied /\ s.done = r.done \union {a}
  BY <1>1 DEF Sending
<1>4. FilesTypeOK'
  BY <1>2 DEF FilesInv, FilesTypeOK
<1>5. ASSUME NEW q \in uploads' PROVE Deleting(q)' \/ Sending(q)'
  <2>1. CASE q = s
    BY <1>1, <1>2, <1>3, <2>1 DEF Sending
  <2>2. CASE q \in uploads
    BY <2>2, <1>2 DEF FilesInv, Deleting, Sending
  <2>3. QED
    BY <1>2, <2>1, <2>2
<1>6. RowsHaveFiles'
  <2>1. UnderWay \subseteq UnderWay' /\ a \in UnderWay'
    <3>1. s \in uploads' /\ r.done \subseteq s.done /\ a \in s.done
      BY <1>2, <1>3
    <3>2. \A q \in uploads : \E p \in uploads' : q.done \subseteq p.done
      BY <1>2, <3>1
    <3>3. UnderWay \subseteq UnderWay'
      BY <3>2 DEF UnderWay
    <3>4. QED
      BY <3>1, <3>3 DEF UnderWay
  <2>2. \A q : q \in uploads /\ q.kind = "delete" => q \in uploads'
    BY <1>1, <1>2 DEF Sending
  <2>3. QED
    BY <2>1, <2>2, <1>2 DEF FilesInv, RowsHaveFiles
<1>7. QED
  BY <1>4, <1>5, <1>6 DEF FilesInv

(* A row changes only to Gone, or from the temporary place to the final    *)
(* one, where the copy is already.                                         *)
LEMMA CommitFilesKeeps ==
    ASSUME FilesInv, FilesAssumption, NEW r \in uploads, CommitFiles(r)
    PROVE  FilesInv'
<1>1. /\ uploads' = uploads \ {r}
      /\ UNCHANGED <<disk, broken, cleaned>>
      /\ fileRow' = [a \in Uploads |-> IF a \in r.done THEN NewPlace(r, a) ELSE fileRow[a]]
      /\ r.kind = "send" => r.copied = r.done
  BY DEF CommitFiles
<1>2. Deleting(r) \/ Sending(r)
  BY DEF FilesInv
<1>3. \A a \in Uploads : \/ fileRow'[a] = fileRow[a] /\ (a \in r.done => fileRow[a] # "temp")
                         \/ fileRow'[a] = Gone /\ a \in r.done /\ fileRow[a] # None
                         \/ /\ fileRow[a] = "temp" /\ fileRow'[a] = "post"
                            /\ a \in r.done /\ <<a, "post">> \in disk
  <2>1. CASE Deleting(r)
    BY <1>1, <2>1, Zenon DEF Deleting, NewPlace
  <2>2. CASE Sending(r)
    BY <1>1, <2>2, Zenon DEF Sending, NewPlace
  <2>3. QED
    BY <1>2, <2>1, <2>2
<1>4. FilesTypeOK'
  BY <1>1, <1>3 DEF FilesInv, FilesTypeOK, Places
<1>5. ASSUME NEW q \in uploads' PROVE Deleting(q)' \/ Sending(q)'
  <2>1. CASE Deleting(q)
    BY <2>1, <1>1, <1>3 DEF Deleting, FilesAssumption
  <2>2. CASE Sending(q)
    BY <2>2, <1>1, <1>3 DEF Sending, FilesAssumption
  <2>3. QED
    BY <1>1, <2>1, <2>2 DEF FilesInv
<1>6. RowsHaveFiles'
  <2> SUFFICES ASSUME NEW a \in Uploads
               PROVE  RowsHaveFiles!(a)'
    BY DEF RowsHaveFiles
  <2>1. ASSUME fileRow'[a] = "temp"
        PROVE  <<a, "temp">> \in disk' \/ a \in (broken \union UnderWay \union cleaned)'
    <3>1. fileRow[a] = "temp" /\ a \notin r.done
      BY <2>1, <1>3 DEF FilesAssumption
    <3>2. a \in UnderWay => a \in UnderWay'
      BY <3>1, <1>1 DEF UnderWay
    <3>3. QED
      BY <3>1, <3>2, <1>1 DEF FilesInv, RowsHaveFiles
  <2>2. ASSUME fileRow'[a] = "post"
        PROVE  \/ <<a, "post">> \in disk'
               \/ a \in broken'
               \/ \E q \in uploads' : q.kind = "delete" /\ a \in q.done
    <3>1. CASE fileRow[a] = "temp"
      BY <3>1, <2>2, <1>1, <1>3 DEF FilesAssumption
    <3>2. CASE fileRow[a] = "post"
      <4>1. r.kind = "delete" => a \notin r.done
        BY <2>2, <1>1 DEF NewPlace, FilesAssumption
      <4>2. QED
        BY <3>2, <4>1, <1>1 DEF FilesInv, RowsHaveFiles
    <3>3. QED
      BY <3>1, <3>2, <2>2, <1>3 DEF FilesAssumption
  <2>3. QED
    BY <2>1, <2>2
<1>7. QED
  BY <1>4, <1>5, <1>6 DEF FilesInv

LEMMA FailKeeps == ASSUME FilesInv, NEW r \in uploads, Fail(r) PROVE FilesInv'
<1>1. r.done \subseteq Uploads
  BY DEF FilesInv, Deleting, Sending
<1>2. FilesTypeOK'
  BY <1>1 DEF FilesInv, FilesTypeOK, Fail
<1>3. \A q \in uploads' : Deleting(q)' \/ Sending(q)'
  BY DEF FilesInv, Fail, Deleting, Sending
<1>4. RowsHaveFiles'
  <2>1. UnderWay \subseteq UnderWay' \union broken'
    BY DEF UnderWay, Fail
  <2>2. QED
    BY <2>1 DEF FilesInv, RowsHaveFiles, Fail
<1>5. QED
  BY <1>2, <1>3, <1>4 DEF FilesInv

LEMMA CleanKeeps == ASSUME FilesInv, NEW a \in Uploads, Clean(a) PROVE FilesInv'
<1>1. FilesTypeOK'
  BY DEF FilesInv, FilesTypeOK, Clean
<1>2. \A q \in uploads' : Deleting(q)' \/ Sending(q)'
  BY DEF FilesInv, Clean, Deleting, Sending
<1>3. RowsHaveFiles'
  BY DEF FilesInv, RowsHaveFiles, Clean, UnderWay
<1>4. QED
  BY <1>1, <1>2, <1>3 DEF FilesInv

LEMMA DeleteRowsKeeps == ASSUME FilesInv, FilesAssumption, DeleteRows PROVE FilesInv'
<1>1. FilesTypeOK'
  BY DEF FilesInv, FilesTypeOK, DeleteRows
<1>2. ASSUME NEW q \in uploads' PROVE Deleting(q)' \/ Sending(q)'
  <2>1. CASE Deleting(q)
    BY <2>1 DEF Deleting, DeleteRows, FilesAssumption
  <2>2. CASE Sending(q)
    BY <2>2 DEF Sending, DeleteRows, FilesAssumption
  <2>3. QED
    BY <2>1, <2>2 DEF FilesInv, DeleteRows
<1>3. RowsHaveFiles'
  BY DEF FilesInv, RowsHaveFiles, DeleteRows, UnderWay, FilesAssumption
<1>4. QED
  BY <1>1, <1>2, <1>3 DEF FilesInv

LEMMA FilesNextKeeps == FilesInv /\ FilesAssumption /\ [FilesNext]_fileVars => FilesInv'
<1> SUFFICES ASSUME FilesInv, FilesAssumption, [FilesNext]_fileVars PROVE FilesInv'
  OBVIOUS
<1>1. ASSUME NEW a \in Uploads, NEW over \in SUBSET (Uploads \ {a}), Upload(a, over) PROVE FilesInv'
  BY ONLY <1>1, FilesInv, FilesAssumption, UploadKeeps
<1>2. ASSUME NEW a \in Uploads, BeginDelete(a) PROVE FilesInv'
  BY ONLY <1>2, FilesInv, FilesAssumption, BeginDeleteKeeps
<1>3. ASSUME NEW a \in Uploads, Clean(a) PROVE FilesInv'
  BY ONLY <1>3, FilesInv, CleanKeeps
<1>4. CASE BeginSend
  BY ONLY <1>4, FilesInv, FilesAssumption, BeginSendKeeps
<1>5. CASE DeleteRows
  BY ONLY <1>5, FilesInv, FilesAssumption, DeleteRowsKeeps
<1>6. ASSUME NEW r \in uploads, RemoveFile(r) PROVE FilesInv'
  BY ONLY <1>6, FilesInv, FilesAssumption, RemoveFileKeeps
<1>7. ASSUME NEW r \in uploads, CommitFiles(r) PROVE FilesInv'
  BY ONLY <1>7, FilesInv, FilesAssumption, CommitFilesKeeps
<1>8. ASSUME NEW r \in uploads, Fail(r) PROVE FilesInv'
  BY ONLY <1>8, FilesInv, FailKeeps
<1>9. ASSUME NEW r \in uploads, NEW a \in Uploads, CopyFile(r, a) PROVE FilesInv'
  BY ONLY <1>9, FilesInv, CopyFileKeeps
<1>10. ASSUME NEW r \in uploads, NEW a \in Uploads, RemoveTemp(r, a) PROVE FilesInv'
  BY ONLY <1>10, FilesInv, RemoveTempKeeps
<1>11. CASE UNCHANGED fileVars
  BY <1>11 DEF fileVars, FilesInv, FilesTypeOK, RowsHaveFiles, Deleting, Sending, UnderWay
<1>12. QED
  BY <1>1, <1>2, <1>3, <1>4, <1>5, <1>6, <1>7, <1>8, <1>9, <1>10, <1>11, Zenon DEF FilesNext

(* The strengthened invariant of the attachments of a post (edit in        *)
(* forum/views.py, update_post_ids and delete in forum/models.py).         *)
THEOREM FilesInvariant == FilesAssumption /\ FilesSpec => []FilesInv
<1> SUFFICES ASSUME FilesAssumption PROVE FilesSpec => []FilesInv
  OBVIOUS
<1>1. FilesInit => FilesInv
  BY FilesInvInit
<1>2. FilesInv /\ [FilesNext]_fileVars => FilesInv'
  BY FilesNextKeeps
<1>3. QED
  BY <1>1, <1>2, PTL DEF FilesSpec

(* A row of an attachment names a file that exists, whatever uploads,      *)
(* deletions and sent forms overlap, unless a request ended between the    *)
(* file and the row or the clean up came before the post was sent.         *)
THEOREM FilesExistHolds == FilesAssumption /\ FilesSpec => []FilesExist
<1>1. FilesInv => FilesExist
  BY DEF FilesInv, RowsHaveFiles, FilesExist, Has, Places, UnderWay
<1>2. QED
  BY <1>1, FilesInvariant, PTL

-----------------------------------------------------------------------------
(* Subscriptions.                                                          *)

Flags == {NoRow, TRUE, FALSE}
Replies == [post : 1..posts, read : BOOLEAN, todo : SUBSET Readers]

MailsTyped ==
    /\ posts \in 0..MaxWritten
    /\ sub \in [Readers -> Flags]
    /\ news \in [Readers -> SUBSET (1..posts)]
    /\ told \in [Readers -> SUBSET (1..posts)]
    /\ replies \subseteq Replies
    /\ \A w \in views : w.user \in Readers /\ w.found \in BOOLEAN

(* The flag says what has been mailed since the last visit: it is set for  *)
(* none but those who were mailed, and for all of them unless requests     *)
(* overlapped.                                                             *)
FlagTrue == \A u \in Readers : /\ told[u] # {} => sub[u] = TRUE
                               /\ sub[u] = TRUE /\ u \notin raced => told[u] # {}

(* Nobody waits for a mail he has had already, or for the mails of two     *)
(* replies, unless requests overlapped.                                    *)
WaitOnce == \A u \in Readers : \A r \in replies : u \in r.todo /\ u \notin raced =>
                /\ told[u] = {}
                /\ \A s \in replies : u \in s.todo => s = r

MailsInv == MailsTyped /\ FlagTrue /\ WaitOnce /\ RepliesTold /\ OneMailAVisit

LEMMA MailsInvInit == MailsAssumption /\ MailsInit => MailsInv
<1> SUFFICES ASSUME MailsAssumption, MailsInit PROVE MailsInv
  OBVIOUS
<1>1. MailsTyped
  <2>1. sub \in [Readers -> Flags]
    BY Zenon DEF MailsInit, Flags
  <2>2. QED
    BY <2>1 DEF MailsAssumption, MailsInit, MailsTyped
<1>2. FlagTrue
  BY Zenon DEF MailsAssumption, MailsInit, FlagTrue
<1>3. WaitOnce /\ RepliesTold /\ OneMailAVisit
  BY DEF MailsInit, WaitOnce, RepliesTold, OneMailAVisit
<1>4. QED
  BY <1>1, <1>2, <1>3 DEF MailsInv

LEMMA WriteReplyKeeps == ASSUME MailsInv, MailsAssumption, WriteReply PROVE MailsInv'
<1> DEFINE r == [post |-> posts', read |-> FALSE, todo |-> {}]
<1>1. /\ posts < MaxWritten /\ posts' = posts + 1
      /\ replies' = replies \union {r}
      /\ news' = [u \in Readers |-> IF Subscribed(u) THEN news[u] \union {posts'} ELSE news[u]]
      /\ UNCHANGED <<sub, views, told, twice, raced>>
  BY DEF WriteReply
<1>2. /\ posts \in Nat /\ posts' \in 0..MaxWritten /\ posts' \in 1..posts'
      /\ 1..posts \subseteq 1..posts'
  BY <1>1 DEF MailsInv, MailsTyped, MailsAssumption
<1>3. MailsTyped'
  <2>1. Replies \subseteq Replies' /\ r \in Replies'
    BY <1>2 DEF Replies
  <2>2. news' \in [Readers -> SUBSET (1..posts')] /\ told' \in [Readers -> SUBSET (1..posts')]
    BY <1>1, <1>2 DEF MailsInv, MailsTyped
  <2>3. replies' \subseteq Replies' /\ sub' \in [Readers -> Flags]
    BY <1>1, <2>1 DEF MailsInv, MailsTyped
  <2>4. QED
    BY <2>2, <2>3, <1>1, <1>2 DEF MailsInv, MailsTyped
<1>4. FlagTrue' /\ WaitOnce' /\ OneMailAVisit'
  BY <1>1 DEF MailsInv, FlagTrue, WaitOnce, OneMailAVisit
<1>5. RepliesTold'
  BY <1>1 DEF RepliesTold
<1>6. QED
  BY <1>3, <1>4, <1>5 DEF MailsInv

(* Those who are to be told and not waiting have been told.                *)
LEMMA ToldOrToNotify ==
    ASSUME MailsInv, NEW u \in Readers, Subscribed(u), u \notin raced, u \notin ToNotify
    PROVE  told[u] # {}
<1>1. sub[u] = TRUE
  <2>1. sub[u] \in Flags
    BY DEF MailsInv, MailsTyped
  <2>2. QED
    BY <2>1, Zenon DEF Flags, Subscribed, ToNotify
<1>2. QED
  BY <1>1, Zenon DEF MailsInv, FlagTrue

LEMMA ToNotifyNotTold == ASSUME MailsInv, NEW u \in ToNotify PROVE u \in Readers /\ told[u] = {}
<1>1. u \in Readers /\ sub[u] = FALSE
  BY DEF ToNotify
<1>2. sub[u] # TRUE
  BY <1>1, Zenon
<1>3. QED
  BY <1>1, <1>2 DEF MailsInv, FlagTrue

LEMMA ReadSubscribersKeeps ==
    ASSUME MailsInv, NEW r \in replies, ReadSubscribers(r)
    PROVE  MailsInv'
<1> DEFINE s == [r EXCEPT !.read = TRUE, !.todo = ToNotify]
<1>1. /\ ~r.read
      /\ replies' = (replies \ {r}) \union {s}
      /\ raced \subseteq raced' /\ {u \in ToNotify : Holding(u)} \subseteq raced'
      /\ UNCHANGED <<posts, sub, views, news, told, twice>>
  BY DEF ReadSubscribers
<1>2. PICK t : t = TRUE
  OBVIOUS
<1>3. s = [post |-> r.post, read |-> t, todo |-> ToNotify]
  <2>1. r = [post |-> r.post, read |-> r.read, todo |-> r.todo]
    BY DEF MailsInv, MailsTyped, Replies
  <2> DEFINE m == [r EXCEPT !.read = t]
  <2>2. m = [post |-> r.post, read |-> t, todo |-> r.todo]
    BY <2>1
  <2>3. s = [m EXCEPT !.todo = ToNotify]
    BY <1>2, Zenon
  <2> HIDE DEF m, s
  <2>4. QED
    BY <2>2, <2>3
<1> HIDE DEF s
<1>4. s.todo = ToNotify /\ s.post = r.post
  BY <1>3
<1>5. MailsTyped'
  <2>1. s \in Replies
    BY <1>2, <1>3 DEF MailsInv, MailsTyped, ToNotify, Replies
  <2>2. replies' \subseteq Replies'
    BY <2>1, <1>1 DEF MailsInv, MailsTyped, Replies
  <2>3. QED
    BY <2>2, <1>1 DEF MailsInv, MailsTyped
<1>6. FlagTrue' /\ OneMailAVisit'
  BY <1>1 DEF MailsInv, FlagTrue, OneMailAVisit
<1>7. WaitOnce'
  <2> SUFFICES ASSUME NEW u \in Readers, NEW q \in replies', u \in q.todo, u \notin raced'
               PROVE  told[u] = {} /\ \A p \in replies' : u \in p.todo => p = q
    BY <1>1 DEF WaitOnce
  <2>1. CASE u \in ToNotify
    <3>1. \A p \in replies : u \notin p.todo
      BY <2>1, <1>1 DEF Holding
    <3>2. QED
      BY <3>1, <2>1, <1>1, ToNotifyNotTold
  <2>2. CASE u \notin ToNotify
    BY <2>2, <1>1, <1>4 DEF MailsInv, WaitOnce
  <2>3. QED
    BY <2>1, <2>2
<1>8. RepliesTold'
  <2> SUFFICES ASSUME NEW u \in Readers, Subscribed(u), news[u] # {}, u \notin raced', told[u] = {}
               PROVE  \E q \in replies' : u \in q.todo
    BY <1>1 DEF RepliesTold, Subscribed
  <2>1. u \in ToNotify
    BY <1>1, ToldOrToNotify
  <2>2. QED
    BY <2>1, <1>1, <1>4
<1>9. QED
  BY <1>5, <1>6, <1>7, <1>8 DEF MailsInv

LEMMA NotifyKeeps ==
    ASSUME MailsInv, MailsAssumption, NEW r \in replies, NEW u \in Readers, Notify(r, u)
    PROVE  MailsInv'
<1> DEFINE s == [r EXCEPT !.todo = @ \ {u}]
<1>1. /\ r.read /\ u \in r.todo
      /\ told' = [told EXCEPT ![u] = @ \union {r.post}]
      /\ twice' = IF told[u] # {} THEN twice \union {u} ELSE twice
      /\ sub' = [sub EXCEPT ![u] = TRUE]
      /\ replies' = (replies \ {r}) \union {s}
      /\ UNCHANGED <<posts, views, news, raced>>
  BY DEF Notify, Mail
<1>2. r \in [post : 1..posts, read : BOOLEAN, todo : SUBSET Readers]
  BY DEF MailsInv, MailsTyped, Replies
<1>3. s = [post |-> r.post, read |-> r.read, todo |-> r.todo \ {u}]
  BY <1>2
<1> HIDE DEF s
<1>4. s.todo = r.todo \ {u} /\ s.read = r.read
  BY <1>3
<1>5. MailsTyped'
  <2>1. s \in Replies
    BY <1>2, <1>3 DEF Replies
  <2>2. told' \in [Readers -> SUBSET (1..posts)]
    BY <1>1, <1>2 DEF MailsInv, MailsTyped
  <2>3. sub' \in [Readers -> Flags]
    BY <1>1, Zenon DEF MailsInv, MailsTyped, Flags
  <2>4. replies' \subseteq Replies'
    BY <2>1, <1>1 DEF MailsInv, MailsTyped, Replies
  <2>5. QED
    BY <2>2, <2>3, <2>4, <1>1 DEF MailsInv, MailsTyped
<1>6. /\ told'[u] # {} /\ sub'[u] = TRUE
      /\ \A v \in Readers : v # u => told'[v] = told[v] /\ sub'[v] = sub[v]
  BY <1>1 DEF MailsInv, MailsTyped
<1>7. FlagTrue'
  BY <1>1, <1>6, Zenon DEF MailsInv, FlagTrue
<1>8. u \notin raced => told[u] = {} /\ \A q \in replies : u \in q.todo => q = r
  BY <1>1 DEF MailsInv, WaitOnce
<1>9. WaitOnce'
  <2> SUFFICES ASSUME NEW v \in Readers, NEW q \in replies', v \in q.todo, v \notin raced
               PROVE  told'[v] = {} /\ \A p \in replies' : v \in p.todo => p = q
    BY <1>1 DEF WaitOnce
  <2>1. v # u
    BY <1>1, <1>4, <1>8
  <2>2. QED
    BY <2>1, <1>1, <1>4, <1>6 DEF MailsInv, WaitOnce
<1>10. OneMailAVisit'
  BY <1>1, <1>8 DEF MailsInv, OneMailAVisit
<1>11. RepliesTold'
  <2> SUFFICES ASSUME NEW v \in Readers, Subscribed(v)', news[v] # {}, v \notin raced, told'[v] = {}
               PROVE  \E q \in replies' : ~q.read \/ v \in q.todo
    BY <1>1 DEF RepliesTold
  <2>1. v # u /\ told[v] = {} /\ Subscribed(v)
    BY <1>6 DEF Subscribed
  <2>2. PICK q \in replies : ~q.read \/ v \in q.todo
    BY <2>1 DEF MailsInv, RepliesTold
  <2>3. CASE q = r
    BY <2>1, <2>2, <2>3, <1>1, <1>4
  <2>4. CASE q # r
    BY <2>2, <2>4, <1>1
  <2>5. QED
    BY <2>3, <2>4
<1>12. QED
  BY <1>5, <1>7, <1>9, <1>10, <1>11 DEF MailsInv

LEMMA EndReplyKeeps == ASSUME MailsInv, NEW r \in replies, EndReply(r) PROVE MailsInv'
<1>1. /\ replies' = replies \ {r}
      /\ r.read => raced' = raced \union r.todo
      /\ ~r.read => raced' = raced \union ToNotify
      /\ UNCHANGED <<posts, sub, views, news, told, twice>>
  BY DEF EndReply
<1>2. raced \subseteq raced'
  BY <1>1
<1>3. MailsTyped'
  BY <1>1 DEF MailsInv, MailsTyped, Replies
<1>4. FlagTrue' /\ WaitOnce' /\ OneMailAVisit'
  BY <1>1, <1>2 DEF MailsInv, FlagTrue, WaitOnce, OneMailAVisit
<1>5. RepliesTold'
  <2> SUFFICES ASSUME NEW u \in Readers, Subscribed(u), news[u] # {}, u \notin raced', told[u] = {}
               PROVE  \E q \in replies' : ~q.read \/ u \in q.todo
    BY <1>1 DEF RepliesTold, Subscribed
  <2>1. u \notin raced /\ u \in ToNotify
    BY <1>2, ToldOrToNotify
  <2>2. PICK q \in replies : ~q.read \/ u \in q.todo
    BY <2>1 DEF MailsInv, RepliesTold
  <2>3. q # r
    BY <2>1, <2>2, <1>1
  <2>4. QED
    BY <2>2, <2>3, <1>1
<1>6. QED
  BY <1>3, <1>4, <1>5 DEF MailsInv

LEMMA ViewKeeps == ASSUME MailsInv, MailsAssumption, NEW u \in Readers, View(u) PROVE MailsInv'
<1> DEFINE w == [user |-> u, posts |-> posts, found |-> Subscribed(u)]
<1>1. /\ views' = views \union {w}
      /\ UNCHANGED <<posts, sub, replies, news, told, twice>>
  BY DEF View
<1>2. raced \subseteq raced'
  BY DEF View
<1>3. MailsTyped'
  <2>1. w.user \in Readers /\ w.found \in BOOLEAN
    BY DEF Subscribed
  <2>2. QED
    BY <2>1, <1>1 DEF MailsInv, MailsTyped, Replies
<1>4. FlagTrue' /\ WaitOnce' /\ OneMailAVisit' /\ RepliesTold'
  BY <1>1, <1>2 DEF MailsInv, FlagTrue, WaitOnce, OneMailAVisit, RepliesTold, Subscribed
<1>5. QED
  BY <1>3, <1>4 DEF MailsInv

(* The end of a visit clears the flag it found; one that found none leaves *)
(* a flag set meanwhile, and is counted as a race.                         *)
LEMMA EndViewKeeps ==
    ASSUME MailsInv, MailsAssumption, NEW w \in views, EndView(w)
    PROVE  MailsInv'
<1> DEFINE u == w.user
<1>1. u \in Readers /\ w.found \in BOOLEAN
  BY DEF MailsInv, MailsTyped
<1>2. /\ views' = views \ {w}
      /\ news' = [news EXCEPT ![u] = {p \in @ : p > w.posts}]
      /\ told' = [told EXCEPT ![u] = {}]
      /\ twice' = twice \ {u}
      /\ UNCHANGED <<posts, replies>>
  BY DEF EndView
<1>3. /\ w.found => sub' = [sub EXCEPT ![u] = FALSE]
      /\ ~w.found => sub' = sub
  BY DEF EndView, FlagReset
<1>4. /\ u \notin raced' => /\ news'[u] = {} /\ (w.found \/ ~Subscribed(u))
                            /\ ~\E r \in replies : u \in r.todo
      /\ \A v : v # u => (v \in raced <=> v \in raced')
  BY DEF EndView
<1>5. \A v \in Readers : v # u => told'[v] = told[v] /\ sub'[v] = sub[v] /\ news'[v] = news[v]
  BY <1>1, <1>2, <1>3 DEF MailsInv, MailsTyped
<1>6. told'[u] = {}
  BY <1>1, <1>2 DEF MailsInv, MailsTyped
<1>7. MailsTyped'
  <2>1. sub' \in [Readers -> Flags]
    <3>1. w.found => sub' \in [Readers -> Flags]
      BY <1>3, Zenon DEF MailsInv, MailsTyped, Flags
    <3>2. QED
      BY <1>3, <3>1 DEF MailsInv, MailsTyped
  <2>2. news' \in [Readers -> SUBSET (1..posts)] /\ told' \in [Readers -> SUBSET (1..posts)]
    BY <1>1, <1>2 DEF MailsInv, MailsTyped
  <2>3. QED
    BY <2>1, <2>2, <1>2 DEF MailsInv, MailsTyped, Replies
<1>8. FlagTrue'
  <2>1. \A v \in Readers : v # u =>
            (/\ told'[v] # {} => sub'[v] = TRUE
             /\ sub'[v] = TRUE /\ v \notin raced' => told'[v] # {})
    BY <1>4, <1>5, Zenon DEF MailsInv, FlagTrue
  <2>2. u \notin raced' => sub'[u] # TRUE
    <3> SUFFICES ASSUME u \notin raced' PROVE sub'[u] # TRUE
      OBVIOUS
    <3>1. CASE w.found
      <4>1. sub'[u] = FALSE
        BY <3>1, <1>1, <1>3, Zenon DEF MailsInv, MailsTyped
      <4>2. QED
        BY <4>1, Zenon
    <3>2. CASE ~w.found
      <4>1. sub'[u] = NoRow
        BY <3>2, <1>3, <1>4, Zenon DEF Subscribed
      <4>2. QED
        BY <4>1, Zenon DEF MailsAssumption
    <3>3. QED
      BY <1>1, <3>1, <3>2
  <2>3. QED
    BY <2>1, <2>2, <1>6, Zenon DEF FlagTrue
<1>9. WaitOnce'
  <2> SUFFICES ASSUME NEW v \in Readers, NEW q \in replies, v \in q.todo, v \notin raced'
               PROVE  told'[v] = {} /\ \A p \in replies : v \in p.todo => p = q
    BY <1>2 DEF WaitOnce
  <2>1. v # u
    BY <1>4
  <2>2. QED
    BY <2>1, <1>4, <1>5 DEF MailsInv, WaitOnce
<1>10. RepliesTold'
  <2> SUFFICES ASSUME NEW v \in Readers, Subscribed(v)', news'[v] # {}, v \notin raced', told'[v] = {}
               PROVE  \E q \in replies : ~q.read \/ v \in q.todo
    BY <1>2 DEF RepliesTold
  <2>1. v # u
    BY <1>4
  <2>2. Subscribed(v) /\ news[v] # {} /\ v \notin raced /\ told[v] = {}
    BY <2>1, <1>4, <1>5 DEF Subscribed
  <2>3. QED
    BY <2>2 DEF MailsInv, RepliesTold
<1>11. OneMailAVisit'
  BY <1>2, <1>4 DEF MailsInv, OneMailAVisit
<1>12. QED
  BY <1>7, <1>8, <1>9, <1>10, <1>11 DEF MailsInv

(* Subscribing, unsubscribing and marking as read: a new start.            *)
LEMMA ChangeKeeps ==
    ASSUME MailsInv, MailsAssumption, NEW u \in Readers, NEW flag \in {NoRow, FALSE}, Change(u, flag)
    PROVE  MailsInv'
<1>1. /\ sub' = [sub EXCEPT ![u] = flag]
      /\ news' = [news EXCEPT ![u] = {}] /\ told' = [told EXCEPT ![u] = {}]
      /\ twice' = twice \ {u}
      /\ UNCHANGED <<posts, replies, views>>
  BY DEF Change
<1>2. raced \subseteq raced'
  BY DEF Change
<1>3. flag # TRUE /\ flag \in Flags
  BY Zenon DEF MailsAssumption, Flags
<1>4. /\ sub'[u] = flag /\ news'[u] = {} /\ told'[u] = {}
      /\ \A v \in Readers : v # u => told'[v] = told[v] /\ sub'[v] = sub[v] /\ news'[v] = news[v]
  BY <1>1 DEF MailsInv, MailsTyped
<1>5. MailsTyped'
  <2>1. sub' \in [Readers -> Flags]
    BY <1>1, <1>3 DEF MailsInv, MailsTyped
  <2>2. news' \in [Readers -> SUBSET (1..posts)] /\ told' \in [Readers -> SUBSET (1..posts)]
    BY <1>1 DEF MailsInv, MailsTyped
  <2>3. QED
    BY <2>1, <2>2, <1>1 DEF MailsInv, MailsTyped, Replies
<1>6. FlagTrue'
  <2>1. sub'[u] # TRUE
    BY <1>3, <1>4, Zenon
  <2>2. \A v \in Readers : v # u =>
            (/\ told'[v] # {} => sub'[v] = TRUE
             /\ sub'[v] = TRUE /\ v \notin raced' => told'[v] # {})
    BY <1>2, <1>4, Zenon DEF MailsInv, FlagTrue
  <2>3. QED
    BY <2>1, <2>2, <1>4, Zenon DEF FlagTrue
<1>7. WaitOnce'
  <2> SUFFICES ASSUME NEW v \in Readers, NEW q \in replies, v \in q.todo, v \notin raced'
               PROVE  told'[v] = {} /\ \A p \in replies : v \in p.todo => p = q
    BY <1>1 DEF WaitOnce
  <2>1. told[v] = {} /\ \A p \in replies : v \in p.todo => p = q
    BY <1>2 DEF MailsInv, WaitOnce
  <2>2. QED
    BY <2>1, <1>4
<1>8. RepliesTold'
  <2> SUFFICES ASSUME NEW v \in Readers, Subscribed(v)', news'[v] # {}, v \notin raced', told'[v] = {}
               PROVE  \E q \in replies : ~q.read \/ v \in q.todo
    BY <1>1 DEF RepliesTold
  <2>1. v # u
    BY <1>4
  <2>2. Subscribed(v) /\ news[v] # {} /\ v \notin raced /\ told[v] = {}
    BY <2>1, <1>2, <1>4 DEF Subscribed
  <2>3. QED
    BY <2>2 DEF MailsInv, RepliesTold
<1>9. OneMailAVisit'
  BY <1>1, <1>2 DEF MailsInv, OneMailAVisit
<1>10. QED
  BY <1>5, <1>6, <1>7, <1>8, <1>9 DEF MailsInv

LEMMA MailsNextKeeps == MailsInv /\ MailsAssumption /\ [MailsNext]_mailVars => MailsInv'
<1> SUFFICES ASSUME MailsInv, MailsAssumption, [MailsNext]_mailVars PROVE MailsInv'
  OBVIOUS
<1>1. CASE WriteReply
  BY ONLY <1>1, MailsInv, MailsAssumption, WriteReplyKeeps
<1>2. ASSUME NEW r \in replies, ReadSubscribers(r) PROVE MailsInv'
  BY ONLY <1>2, MailsInv, ReadSubscribersKeeps
<1>3. ASSUME NEW r \in replies, EndReply(r) PROVE MailsInv'
  BY ONLY <1>3, MailsInv, EndReplyKeeps
<1>4. ASSUME NEW r \in replies, NEW u \in Readers, Notify(r, u) PROVE MailsInv'
  BY ONLY <1>4, MailsInv, MailsAssumption, NotifyKeeps
<1>5. ASSUME NEW u \in Readers, View(u) PROVE MailsInv'
  BY ONLY <1>5, MailsInv, MailsAssumption, ViewKeeps
<1>6. ASSUME NEW w \in views, EndView(w) PROVE MailsInv'
  BY ONLY <1>6, MailsInv, MailsAssumption, EndViewKeeps
<1>7. ASSUME NEW u \in Readers, NEW flag \in {NoRow, FALSE}, Change(u, flag) PROVE MailsInv'
  BY ONLY <1>7, MailsInv, MailsAssumption, ChangeKeeps
<1>8. ASSUME NEW u \in Readers, Subscribe(u) \/ Unsubscribe(u) \/ MarkRead(u) PROVE MailsInv'
  <2>1. Change(u, FALSE) \/ Change(u, NoRow)
    BY <1>8, Zenon DEF Subscribe, Unsubscribe, MarkRead
  <2>2. FALSE \in {NoRow, FALSE} /\ NoRow \in {NoRow, FALSE}
    BY Zenon
  <2>3. QED
    BY ONLY <2>1, <2>2, <1>7, Zenon
<1>9. CASE UNCHANGED mailVars
  BY <1>9 DEF mailVars, MailsInv, MailsTyped, Replies, FlagTrue, WaitOnce, RepliesTold, OneMailAVisit, Subscribed
<1>10. QED
  BY <1>1, <1>2, <1>3, <1>4, <1>5, <1>6, <1>8, <1>9, Zenon DEF MailsNext

(* The strengthened invariant of subscriptions and their mails (edit and   *)
(* viewtopic in forum/views.py, forum/services.py).                        *)
THEOREM MailsInvariant == MailsAssumption /\ MailsSpec => []MailsInv
<1> SUFFICES ASSUME MailsAssumption PROVE MailsSpec => []MailsInv
  OBVIOUS
<1>1. MailsInit => MailsInv
  BY MailsInvInit
<1>2. MailsInv /\ [MailsNext]_mailVars => MailsInv'
  BY MailsNextKeeps
<1>3. QED
  BY <1>1, <1>2, PTL DEF MailsSpec

(* Subscribers are told of the replies to a topic, and once between two    *)
(* visits, unless their requests overlapped the mails or a mail failed:    *)
(* for any number of readers, replies and views under way.                 *)
THEOREM RepliesToldHolds == MailsAssumption /\ MailsSpec => []RepliesToldOnce
<1>1. MailsInv => RepliesToldOnce
  BY DEF MailsInv, RepliesToldOnce
<1>2. QED
  BY <1>1, MailsInvariant, PTL

-----------------------------------------------------------------------------
(* Edits of a post.  First what becomes of the elements of a sequence that *)
(* grows and shrinks.                                                      *)

LEMMA RangeOfConcat ==
    ASSUME NEW S, NEW s \in Seq(S), NEW t \in Seq(S)
    PROVE  s \o t \in Seq(S) /\ Range(s \o t) = Range(s) \union Range(t)
<1>1. s \o t \in Seq(S) /\ Len(s \o t) = Len(s) + Len(t)
  OBVIOUS
<1>2. Range(s \o t) \subseteq Range(s) \union Range(t)
  BY <1>1 DEF Range
<1>3. \A i \in 1..Len(s) : s[i] = (s \o t)[i] /\ i \in 1..Len(s \o t)
  OBVIOUS
<1>4. \A i \in 1..Len(t) : t[i] = (s \o t)[i + Len(s)] /\ i + Len(s) \in 1..Len(s \o t)
  OBVIOUS
<1>5. Range(s) \union Range(t) \subseteq Range(s \o t)
  <2>1. Range(s) \subseteq Range(s \o t)
    BY <1>1, <1>3 DEF Range
  <2>2. Range(t) \subseteq Range(s \o t)
    <3> SUFFICES ASSUME NEW i \in 1..Len(t) PROVE t[i] \in Range(s \o t)
      BY DEF Range
    <3>1. DOMAIN (s \o t) = 1..Len(s \o t)
      BY <1>1
    <3>2. QED
      BY ONLY <3>1, <1>4, Zenon DEF Range
  <2>3. QED
    BY <2>1, <2>2
<1>6. QED
  BY <1>1, <1>2, <1>5

LEMMA RangeAfterRemoval ==
    ASSUME NEW S, NEW s \in Seq(S), NEW i \in 1..Len(s)
    PROVE  RemoveAt(s, i) \in Seq(S) /\ Range(s) \subseteq Range(RemoveAt(s, i)) \union {s[i]}
<1> DEFINE a == SubSeq(s, 1, i - 1)
           b == SubSeq(s, i + 1, Len(s))
<1>1. /\ a \in Seq(S) /\ Len(a) = i - 1
      /\ \A j \in 1..(i - 1) : a[j] = s[j]
  OBVIOUS
<1>2. /\ b \in Seq(S) /\ Len(b) = Len(s) - i
      /\ \A j \in 1..(Len(s) - i) : b[j] = s[j + i]
  OBVIOUS
<1>3. RemoveAt(s, i) = a \o b
  BY DEF RemoveAt
<1> HIDE DEF a, b
<1>4. \A j \in 1..Len(s) : j < i => s[j] \in Range(a)
  BY <1>1 DEF Range
<1>5. \A j \in 1..Len(s) : j > i => s[j] \in Range(b)
  <2> SUFFICES ASSUME NEW j \in 1..Len(s), j > i PROVE s[j] \in Range(b)
    OBVIOUS
  <2>1. b[j - i] = s[j] /\ j - i \in DOMAIN b
    BY <1>2
  <2>2. QED
    BY <2>1 DEF Range
<1>6. Range(s) \subseteq Range(a) \union Range(b) \union {s[i]}
  BY <1>4, <1>5 DEF Range
<1>7. QED
  BY <1>1, <1>2, <1>3, <1>6, RangeOfConcat

LEMMA WhatAppendGives ==
    ASSUME NEW S, NEW s \in Seq(S), NEW e \in S
    PROVE  /\ Append(s, e) \in Seq(S) /\ Len(Append(s, e)) = Len(s) + 1
           /\ Append(s, e)[Len(s) + 1] = e
           /\ \A i \in 1..Len(s) : Append(s, e)[i] = s[i]
OBVIOUS

PostShape == postRow = [text |-> postRow.text, rendered |-> postRow.rendered,
                        revised |-> postRow.revised, hidden |-> postRow.hidden]

EditsTyped == /\ PostShape
              /\ postRow.text \in Texts
              /\ revs \in Seq(Texts)

(* What a request knows of the post when it commits: the revision it       *)
(* deletes is of the text it writes, its revisions keep that text, and the *)
(* first of all revisions keeps the text before it too.                    *)
KeepTexts(add, text) ==
    /\ add \in Seq(Texts)
    /\ add # <<>> => /\ text \in Range(add)
                     /\ ~postRow.revised => postRow.text \in Range(add)

Knows(r) == /\ r.text \in Texts
            /\ r.remove # Nothing => r.remove = r.text
            /\ r.add # Nothing => KeepTexts(r.add, r.text)

(* A post with revisions has its text among them.                          *)
TextHasRevision == postRow.revised => postRow.text \in Range(revs) \union dropped

(* While nothing overlaps, at most one request is under way, and a         *)
(* rendering to be filled in is that of the text.                          *)
OneEdit == ~blended => /\ \A q, r \in edits : q = r
                       /\ \A r \in edits : r.add = Nothing => r.text = postRow.text

EditsInv == /\ EditsTyped
            /\ \A r \in edits : Knows(r)
            /\ TextHasRevision /\ OneEdit
            /\ TextKept /\ RenderedIsText

LEMMA EditsInvInit == EditsInit => EditsInv
BY DEF EditsInit, EditsInv, EditsTyped, PostShape, TextHasRevision, OneEdit, TextKept, RenderedIsText

(* Revisions are never mistaken for the request of a view.                 *)
LEMMA RevisionsAdded ==
    ASSUME EditsAssumption, NEW t \in Texts, EditsTyped
    PROVE  NewRevisions(t) # Nothing /\ KeepTexts(NewRevisions(t), t)
<1>1. <<>> \in SeqOf(Texts, 2)
  BY DEF SeqOf
<1>2. CASE t = postRow.text
  BY <1>1, <1>2 DEF NewRevisions, KeepTexts, EditsAssumption
<1>3. CASE t # postRow.text
  <2> DEFINE initial == FirstRevision(postRow.text, postRow.revised)
  <2>1. /\ initial = <<>> \/ initial = <<postRow.text>>
        /\ ~postRow.revised => initial = <<postRow.text>>
    BY Zenon DEF FirstRevision
  <2>2. NewRevisions(t) = Append(initial, t)
    BY <1>3, Zenon DEF NewRevisions
  <2> HIDE DEF initial
  <2>3. initial \in Seq(Texts) /\ Len(initial) \in 0..1
    <3>1. <<>> \in Seq(Texts) /\ Len(<<>>) \in 0..1
      OBVIOUS
    <3>2. <<postRow.text>> \in Seq(Texts) /\ Len(<<postRow.text>>) \in 0..1
      BY DEF EditsTyped
    <3>3. QED
      BY ONLY <2>1, <3>1, <3>2, Zenon
  <2> DEFINE all == Append(initial, t)
  <2>4. /\ all \in Seq(Texts) /\ Len(all) = Len(initial) + 1
        /\ all[Len(initial) + 1] = t
        /\ \A i \in 1..Len(initial) : all[i] = initial[i]
    BY <2>3, WhatAppendGives
  <2> HIDE DEF all
  <2>5. all # <<>> /\ all \in SeqOf(Texts, 2)
    <3>1. Len(all) \in 0..2 /\ Len(all) # 0
      BY <2>3, <2>4
    <3>2. all \in [1..Len(all) -> Texts]
      BY <2>4
    <3>3. all \in SeqOf(Texts, 2)
      BY ONLY <3>1, <3>2, Zenon DEF SeqOf
    <3>4. QED
      BY <3>1, <3>3
  <2>6. t \in Range(all)
    <3>1. Len(initial) + 1 \in DOMAIN all
      BY <2>3, <2>4
    <3>2. QED
      BY <3>1, <2>4 DEF Range
  <2>7. ~postRow.revised => postRow.text \in Range(all)
    <3> SUFFICES ASSUME initial = <<postRow.text>> PROVE postRow.text \in Range(all)
      BY <2>1
    <3>1. Len(initial) = 1 /\ initial[1] = postRow.text
      OBVIOUS
    <3>2. all[1] = postRow.text /\ 1 \in DOMAIN all
      BY <3>1, <2>4
    <3>3. QED
      BY <3>2 DEF Range
  <2>8. QED
    BY <2>2, <2>4, <2>5, <2>6, <2>7, Zenon DEF all, KeepTexts, EditsAssumption
<1>4. QED
  BY <1>2, <1>3

LEMMA BeginEditKeeps ==
    ASSUME EditsInv, NEW r, BeginEdit(r), Knows(r), r.add = Nothing => r.text = postRow.text
    PROVE  EditsInv'
<1>1. /\ edits' = edits \union {r}
      /\ blended' = (blended \/ edits # {})
      /\ UNCHANGED <<postRow, revs, topicRow, own, ever, dropped>>
  BY DEF BeginEdit
<1>2. EditsTyped' /\ TextHasRevision' /\ TextKept'
  BY <1>1 DEF EditsInv, EditsTyped, PostShape, TextHasRevision, TextKept
<1>3. \A q \in edits' : Knows(q)'
  BY <1>1 DEF EditsInv, Knows, KeepTexts
<1>4. OneEdit' /\ RenderedIsText'
  BY <1>1 DEF EditsInv, OneEdit, RenderedIsText
<1>5. QED
  BY <1>2, <1>3, <1>4 DEF EditsInv

LEMMA EditKeeps ==
    ASSUME EditsInv, EditsAssumption, NEW u, NEW t \in Texts, Edit(u, t)
    PROVE  EditsInv'
<1> DEFINE n == NewRevisions(t)
           r == [text |-> t, add |-> n, remove |-> Nothing]
<1>1. BeginEdit(r)
  BY DEF Edit
<1>2. Knows(r) /\ r.add # Nothing
  <2>1. EditsTyped /\ t \in Texts
    BY DEF EditsInv
  <2>2. n # Nothing /\ KeepTexts(n, t)
    BY <2>1, RevisionsAdded, Zenon
  <2> HIDE DEF n
  <2>3. QED
    BY <2>1, <2>2 DEF Knows
<1>3. QED
  BY ONLY <1>1, <1>2, EditsInv, BeginEditKeeps

LEMMA RestoreRevisionKeeps ==
    ASSUME EditsInv, EditsAssumption, NEW i, RestoreRevision(i)
    PROVE  EditsInv'
<1> DEFINE t == revs[i]
           n == NewRevisions(t)
           r == [text |-> t, add |-> n, remove |-> t]
<1>1. BeginEdit(r) /\ t \in Texts
  BY DEF RestoreRevision, EditsInv, EditsTyped
<1> HIDE DEF t
<1>2. Knows(r) /\ r.add # Nothing
  <2>1. EditsTyped /\ t \in Texts
    BY <1>1 DEF EditsInv
  <2>2. n # Nothing /\ KeepTexts(n, t)
    BY <2>1, RevisionsAdded, Zenon
  <2> HIDE DEF n
  <2>3. QED
    BY <2>1, <2>2 DEF Knows
<1>3. QED
  BY ONLY <1>1, <1>2, EditsInv, BeginEditKeeps

LEMMA ViewPostKeeps == ASSUME EditsInv, ViewPost PROVE EditsInv'
<1> DEFINE r == [text |-> Rendering(postRow.text), add |-> Nothing, remove |-> Nothing]
<1>1. BeginEdit(r)
  BY DEF ViewPost
<1>2. Knows(r) /\ r.text = postRow.text
  BY DEF Knows, Rendering, EditsInv, EditsTyped
<1>3. QED
  BY ONLY <1>1, <1>2, EditsInv, BeginEditKeeps

(* A view fills in the rendering, and nothing else.                        *)
LEMMA CommitViewKeeps ==
    ASSUME EditsInv, NEW r \in edits, CommitEdit(r), r.add = Nothing
    PROVE  EditsInv'
<1>1. /\ edits' = edits \ {r}
      /\ postRow' = [postRow EXCEPT !.rendered = r.text]
      /\ UNCHANGED <<revs, ever, dropped>>
      /\ blended' = (blended /\ (edits' # {} \/ postRow'.rendered # postRow'.text))
  BY DEF CommitEdit
<1>2. postRow' = [text |-> postRow.text, rendered |-> r.text,
                  revised |-> postRow.revised, hidden |-> postRow.hidden]
  BY <1>1 DEF EditsInv, EditsTyped, PostShape
<1>3. /\ postRow'.text = postRow.text /\ postRow'.revised = postRow.revised
      /\ postRow'.rendered = r.text /\ postRow'.hidden = postRow.hidden
  BY <1>2
<1>4. EditsTyped'
  <2>1. PostShape'
    BY <1>2, <1>3, Zenon DEF PostShape
  <2>2. QED
    BY <2>1, <1>1, <1>3 DEF EditsInv, EditsTyped
<1>5. \A q \in edits' : Knows(q)'
  BY <1>1, <1>3 DEF EditsInv, Knows, KeepTexts
<1>6. TextHasRevision' /\ TextKept'
  BY <1>1, <1>3 DEF EditsInv, TextHasRevision, TextKept
<1>7. OneEdit'
  BY <1>1, <1>3 DEF EditsInv, OneEdit
<1>8. RenderedIsText'
  BY <1>1, <1>3 DEF EditsInv, OneEdit, RenderedIsText
<1>9. QED
  BY <1>4, <1>5, <1>6, <1>7, <1>8 DEF EditsInv

(* The deletion of a revision loses no text but that of the revision.      *)
LEMMA WhatDeletionKeeps ==
    ASSUME EditsInv, NEW r \in edits, CommitEdit(r), r.add # Nothing
    PROVE  \E kept \in Seq(Texts) :
             /\ revs' = kept \o r.add
             /\ Range(revs) \subseteq Range(kept) \union {r.text}
             /\ r.remove = Nothing => kept = revs
<1> DEFINE at == CHOOSE i \in DOMAIN revs : revs[i] = r.remove
           kept == IF r.remove = Nothing THEN revs ELSE RemoveAt(revs, at)
<1>1. revs' = kept \o r.add /\ (r.remove # Nothing => r.remove \in Range(revs))
  BY Zenon DEF CommitEdit
<1>2. revs \in Seq(Texts) /\ Knows(r)
  BY DEF EditsInv, EditsTyped
<1>3. CASE r.remove = Nothing
  <2>1. kept = revs
    BY <1>3
  <2>2. QED
    BY <2>1, <1>1, <1>2
<1>4. CASE r.remove # Nothing
  <2>1. at \in DOMAIN revs /\ revs[at] = r.remove
    <3>1. \E i \in DOMAIN revs : revs[i] = r.remove
      BY <1>1, <1>4 DEF Range
    <3>2. QED
      BY <3>1, Zenon
  <2> HIDE DEF at
  <2>2. at \in 1..Len(revs)
    BY <2>1, <1>2
  <2>3. /\ RemoveAt(revs, at) \in Seq(Texts)
        /\ Range(revs) \subseteq Range(RemoveAt(revs, at)) \union {revs[at]}
    BY <2>2, <1>2, RangeAfterRemoval
  <2>4. r.remove = r.text
    BY <1>2, <1>4 DEF Knows
  <2>5. QED
    BY <2>1, <2>3, <2>4, <1>1, <1>4
<1>5. QED
  BY <1>3, <1>4

(* A restoration of what is shown: the row stays, a revision goes.         *)
LEMMA CommitNoChangeKeeps ==
    ASSUME EditsInv, EditsAssumption, NEW r \in edits, CommitEdit(r), r.add = <<>>
    PROVE  EditsInv'
<1>1. r.add # Nothing
  <2>1. <<>> \in SeqOf(Texts, 2)
    BY DEF SeqOf
  <2>2. QED
    BY <2>1, Zenon DEF EditsAssumption
<1>2. /\ edits' = edits \ {r}
      /\ postRow' = postRow
      /\ ever' = ever \union {postRow.text}
      /\ dropped' = IF r.remove # Nothing THEN dropped \union {r.remove} ELSE dropped
      /\ blended' = (blended /\ (edits' # {} \/ postRow'.rendered # postRow'.text))
  BY <1>1 DEF CommitEdit
<1>3. PICK kept \in Seq(Texts) : /\ revs' = kept \o r.add
                                 /\ Range(revs) \subseteq Range(kept) \union {r.text}
                                 /\ r.remove = Nothing => kept = revs
  BY <1>1, WhatDeletionKeeps
<1>4. revs' = kept
  BY <1>3
<1>5. Range(revs) \union dropped \subseteq Range(revs') \union dropped'
  <2>1. r.remove # Nothing => r.remove = r.text
    BY DEF EditsInv, Knows
  <2>2. QED
    BY <2>1, <1>2, <1>3, <1>4
<1>6. EditsTyped'
  BY <1>2, <1>4 DEF EditsInv, EditsTyped, PostShape
<1>7. \A q \in edits' : Knows(q)'
  BY <1>2 DEF EditsInv, Knows, KeepTexts
<1>8. TextHasRevision' /\ TextKept'
  BY <1>2, <1>5 DEF EditsInv, TextHasRevision, TextKept
<1>9. OneEdit' /\ RenderedIsText'
  BY <1>2 DEF EditsInv, OneEdit, RenderedIsText
<1>10. QED
  BY <1>6, <1>7, <1>8, <1>9 DEF EditsInv

(* An edit or a restoration that changes the text.                         *)
LEMMA CommitTextKeeps ==
    ASSUME EditsInv, NEW r \in edits, CommitEdit(r), r.add # Nothing, r.add # <<>>
    PROVE  EditsInv'
<1>1. PICK t : t = TRUE
  OBVIOUS
<1>2. /\ edits' = edits \ {r}
      /\ postRow' = [postRow EXCEPT !.text = r.text, !.rendered = r.text, !.revised = t]
      /\ ever' = ever \union {postRow'.text}
      /\ dropped' = dropped
      /\ blended' = (blended /\ (edits' # {} \/ postRow'.rendered # postRow'.text))
  BY <1>1, Zenon DEF CommitEdit, Rendering
<1>3. postRow' = [text |-> r.text, rendered |-> r.text, revised |-> t, hidden |-> postRow.hidden]
  <2> DEFINE m == [postRow EXCEPT !.text = r.text]
             n == [m EXCEPT !.rendered = r.text]
  <2>1. m = [text |-> r.text, rendered |-> postRow.rendered,
             revised |-> postRow.revised, hidden |-> postRow.hidden]
    BY DEF EditsInv, EditsTyped, PostShape
  <2>2. postRow' = [n EXCEPT !.revised = t]
    BY <1>2
  <2> HIDE DEF m
  <2>3. n = [text |-> r.text, rendered |-> r.text,
             revised |-> postRow.revised, hidden |-> postRow.hidden]
    BY <2>1
  <2> HIDE DEF n
  <2>4. QED
    BY <2>2, <2>3
<1>4. /\ postRow'.text = r.text /\ postRow'.rendered = r.text
      /\ postRow'.revised = t /\ postRow'.hidden = postRow.hidden
  BY <1>3
<1>5. Knows(r) /\ KeepTexts(r.add, r.text)
  BY DEF EditsInv, Knows
<1>6. PICK kept \in Seq(Texts) : /\ revs' = kept \o r.add
                                 /\ Range(revs) \subseteq Range(kept) \union {r.text}
  BY WhatDeletionKeeps
<1>7. revs' \in Seq(Texts) /\ Range(revs') = Range(kept) \union Range(r.add)
  BY <1>5, <1>6, RangeOfConcat DEF KeepTexts
<1>8. EditsTyped'
  <2>1. PostShape'
    BY <1>3, <1>4, Zenon DEF PostShape
  <2>2. QED
    BY <2>1, <1>4, <1>5, <1>7 DEF EditsTyped, Knows
<1>9. \A q \in edits' : Knows(q)'
  <2> SUFFICES ASSUME NEW q \in edits PROVE Knows(q)'
    BY <1>2
  <2>1. Knows(q) /\ postRow'.revised
    BY <1>1, <1>4 DEF EditsInv
  <2>2. QED
    BY <2>1 DEF Knows, KeepTexts
<1>10. TextHasRevision'
  BY <1>4, <1>5, <1>7 DEF TextHasRevision, KeepTexts
<1>11. TextKept'
  <2>1. postRow.text \in Range(revs') \union dropped \union {r.text}
    <3>1. CASE postRow.revised
      BY <3>1, <1>6, <1>7 DEF EditsInv, TextHasRevision
    <3>2. CASE ~postRow.revised
      BY <3>2, <1>5, <1>7 DEF KeepTexts
    <3>3. QED
      BY <3>1, <3>2
  <2>2. QED
    BY <2>1, <1>2, <1>4, <1>6, <1>7 DEF EditsInv, TextKept
<1>12. OneEdit' /\ RenderedIsText'
  BY <1>2, <1>4 DEF EditsInv, OneEdit, RenderedIsText
<1>13. QED
  BY <1>8, <1>9, <1>10, <1>11, <1>12 DEF EditsInv

LEMMA RollbackKeeps == ASSUME EditsInv, NEW r \in edits, Rollback(r) PROVE EditsInv'
BY DEF Rollback, EditsInv, EditsTyped, PostShape, Knows, KeepTexts, TextHasRevision, OneEdit,
       TextKept, RenderedIsText

LEMMA HidePostKeeps == ASSUME EditsInv, HidePost PROVE EditsInv'
<1>1. postRow' = [postRow EXCEPT !.hidden = ~@] /\ UNCHANGED <<revs, edits, ever, dropped, blended>>
  BY DEF HidePost
<1>2. postRow' = [text |-> postRow.text, rendered |-> postRow.rendered,
                  revised |-> postRow.revised, hidden |-> ~postRow.hidden]
  BY <1>1 DEF EditsInv, EditsTyped, PostShape
<1>3. /\ postRow'.text = postRow.text /\ postRow'.rendered = postRow.rendered
      /\ postRow'.revised = postRow.revised
  BY <1>2
<1>4. PostShape'
  BY <1>2, Zenon DEF PostShape
<1>5. EditsTyped'
  BY <1>1, <1>3, <1>4 DEF EditsInv, EditsTyped
<1>6. \A q \in edits' : Knows(q)'
  BY <1>1, <1>3 DEF EditsInv, Knows, KeepTexts
<1>7. TextHasRevision' /\ OneEdit' /\ TextKept' /\ RenderedIsText'
  BY <1>1, <1>3 DEF EditsInv, TextHasRevision, OneEdit, TextKept, RenderedIsText
<1>8. QED
  BY <1>5, <1>6, <1>7 DEF EditsInv

LEMMA RestUnchangedKeeps ==
    ASSUME EditsInv, UNCHANGED <<postRow, revs, edits, ever, dropped, blended>>
    PROVE  EditsInv'
BY DEF EditsInv, EditsTyped, PostShape, Knows, KeepTexts, TextHasRevision, OneEdit,
       TextKept, RenderedIsText

LEMMA EditsNextKeeps == EditsInv /\ EditsAssumption /\ [EditsNext]_editVars => EditsInv'
<1> SUFFICES ASSUME EditsInv, EditsAssumption, [EditsNext]_editVars PROVE EditsInv'
  OBVIOUS
<1>1. ASSUME NEW u \in People, NEW t \in Texts, Edit(u, t) PROVE EditsInv'
  BY ONLY <1>1, EditsInv, EditsAssumption, EditKeeps
<1>2. ASSUME NEW i \in 1..MaxRevs, RestoreRevision(i) PROVE EditsInv'
  BY ONLY <1>2, EditsInv, EditsAssumption, RestoreRevisionKeeps
<1>3. CASE ViewPost
  BY ONLY <1>3, EditsInv, ViewPostKeeps
<1>4. ASSUME NEW r \in edits, CommitEdit(r) PROVE EditsInv'
  <2>1. CASE r.add = Nothing
    BY ONLY <1>4, <2>1, EditsInv, CommitViewKeeps
  <2>2. CASE r.add = <<>>
    BY ONLY <1>4, <2>2, EditsInv, EditsAssumption, CommitNoChangeKeeps
  <2>3. CASE r.add # Nothing /\ r.add # <<>>
    BY ONLY <1>4, <2>3, EditsInv, CommitTextKeeps
  <2>4. QED
    BY <2>1, <2>2, <2>3
<1>5. ASSUME NEW r \in edits, Rollback(r) PROVE EditsInv'
  BY ONLY <1>5, EditsInv, RollbackKeeps
<1>6. CASE HidePost
  BY ONLY <1>6, EditsInv, HidePostKeeps
<1>7. CASE LimitPasses \/ (\E flag \in {"locked", "hidden"} : ChangeStatus(flag)) \/ UNCHANGED editVars
  <2>1. UNCHANGED <<postRow, revs, edits, ever, dropped, blended>>
    BY <1>7 DEF LimitPasses, ChangeStatus, editVars
  <2>2. QED
    BY ONLY <2>1, EditsInv, RestUnchangedKeeps
<1>8. QED
  BY <1>1, <1>2, <1>3, <1>4, <1>5, <1>6, <1>7, Zenon DEF EditsNext

(* The strengthened invariant of the edits of a post (Post.edit and        *)
(* PostRevision.restore in forum/models.py, viewtopic in forum/views.py).  *)
THEOREM EditsInvariant == EditsAssumption /\ EditsSpec => []EditsInv
<1> SUFFICES ASSUME EditsAssumption PROVE EditsSpec => []EditsInv
  OBVIOUS
<1>1. EditsInit => EditsInv
  BY EditsInvInit
<1>2. EditsInv /\ [EditsNext]_editVars => EditsInv'
  BY EditsNextKeeps
<1>3. QED
  BY <1>1, <1>2, PTL DEF EditsSpec

(* Every text a post has had is shown or in a revision, but for those whose *)
(* revision was deleted by restoring what is shown, and the rendering is   *)
(* that of the text unless a view overlapped an edit: for any texts and    *)
(* any number of requests.                                                 *)
THEOREM PostsKeptHolds == EditsAssumption /\ EditsSpec => []PostsKept
<1>1. EditsInv => PostsKept
  BY DEF EditsInv, PostsKept
<1>2. QED
  BY <1>1, EditsInvariant, PTL

-----------------------------------------------------------------------------
(* How forums are found.  What the rows, the copies under their slugs, the *)
(* edits under way and the cached map know of each other; a row's parent   *)
(* and a copy's forum are there, as forums are never deleted.              *)
ForumOk(r) == r \in TreeRow /\ r.parent \in There \union {Nil}

(* A copy under a slug is of a forum that is there.                        *)
CopyOk(s, c) == c \in TreeCopy /\ c.slug = s /\ c.id \in There /\ c.parent \in There \union {Nil}

(* An edit under way is of a forum that is there, or not there yet if it   *)
(* is new; the slug it takes is free, of rows and of copies.               *)
EditOk(e) ==
    /\ e.id \in Ids /\ e.slug \in Slugs \union {Nil} /\ e.parent \in There \union {Nil}
    /\ e.new \in BOOLEAN
    /\ e.new => e.id \notin There /\ e.slug # Nil
    /\ ~e.new => e.id \in There
    /\ e.slug # Nil => WithSlug(e.slug) = {} /\ copy[e.slug] = Nil

EditsApart == \A e, d \in forumEdits :
                e # d => e.id # d.id /\ (e.slug = d.slug => e.slug = Nil)

SlugsUnique == \A i, j \in There : forumRow[i].slug = forumRow[j].slug => i = j

(* Under the slug of a forum lies a copy of that forum, if any.            *)
CopiesMeant == \A i \in There : copy[forumRow[i].slug] # Nil => copy[forumRow[i].slug].id = i

(* A map that nobody raced was read after the last new forum, and is what  *)
(* the table says if no slug changed since.                                *)
MapMeant == map # Nil => /\ \A i \in DOMAIN map : map[i] \in Slugs
                         /\ ~mapRaced => \A e \in forumEdits : ~e.new
                         /\ ~mapRaced /\ ~renamed => map = Table

RowsMeant == /\ forumRow = [i \in Ids |-> forumRow[i]]
             /\ \A i \in There : ForumOk(forumRow[i])
             /\ SlugsUnique

CacheMeant == /\ copy = [s \in Slugs |-> copy[s]]
              /\ \A s \in Slugs : copy[s] # Nil => CopyOk(s, copy[s])
              /\ CopiesMeant

EditsMeant == (\A e \in forumEdits : EditOk(e)) /\ EditsApart

TreeInv == RowsMeant /\ CacheMeant /\ EditsMeant /\ MapMeant

-----------------------------------------------------------------------------
(* What is read.                                                           *)

(* A forum found under a slug has that slug.                               *)
LEMMA GotOk ==
    ASSUME TreeAssumption, TreeInv, NEW s \in Slugs, Got(s) # Nil
    PROVE  CopyOk(s, Got(s))
<1>1. CASE copy[s] # Nil
    BY <1>1 DEF TreeInv, CacheMeant, Got
<1>2. CASE copy[s] = Nil
    <2>1. PICK i \in There : forumRow[i].slug = s /\ Got(s) = RowCopy(i)
        BY <1>2 DEF Got, WithSlug
    <2>2. ForumOk(forumRow[i]) /\ i \in Ids
        BY <2>1 DEF TreeInv, RowsMeant, There
    <2>3. RowCopy(i) \in TreeCopy
        BY <2>2 DEF RowCopy, ForumOk, TreeRow, TreeCopy
    <2> QED BY <2>1, <2>2, <2>3 DEF CopyOk, RowCopy, ForumOk
<1> QED BY <1>1, <1>2

(* Under the slug of a forum that forum is found.                          *)
LEMMA GotIs ==
    ASSUME TreeAssumption, TreeInv, NEW i \in There
    PROVE  LET s == forumRow[i].slug IN s \in Slugs /\ Got(s) # Nil /\ Got(s).id = i
<1> DEFINE s == forumRow[i].slug
<1>1. s \in Slugs /\ i \in Ids /\ ForumOk(forumRow[i])
    BY DEF TreeInv, RowsMeant, ForumOk, TreeRow, There
<1>2. WithSlug(s) = {i}
    BY DEF TreeInv, RowsMeant, SlugsUnique, WithSlug
<1>3. RowCopy(i) \in TreeCopy /\ RowCopy(i).id = i
    BY <1>1 DEF RowCopy, ForumOk, TreeRow, TreeCopy
<1>4. CASE copy[s] # Nil
    BY <1>1, <1>4 DEF TreeInv, CacheMeant, CopiesMeant, Got
<1>5. CASE copy[s] = Nil
    <2>1. (CHOOSE j \in WithSlug(s) : TRUE) = i
        BY <1>2
    <2>2. Got(s) = RowCopy(i)
        BY <1>2, <1>5, <2>1 DEF Got
    <2> QED BY <1>1, <1>3, <2>2 DEF TreeAssumption
<1> QED BY <1>1, <1>4, <1>5

(* The map names slugs only, cached or read.                               *)
LEMMA MapSlugs ==
    ASSUME TreeInv
    PROVE  (\A i \in DOMAIN MapNow : MapNow[i] \in Slugs) /\ KnownSlugs \subseteq Slugs
<1>1. \A i \in There : forumRow[i].slug \in Slugs
    BY DEF TreeInv, RowsMeant, ForumOk, TreeRow
<1>2. \A i \in DOMAIN MapNow : MapNow[i] \in Slugs
    BY <1>1 DEF TreeInv, MapMeant, MapNow, Table
<1> QED BY <1>2 DEF KnownSlugs

(* What is listed is there, and has a parent that is.                      *)
LEMMA ShownThere ==
    ASSUME TreeAssumption, TreeInv, NEW c \in ShownForums
    PROVE  c.id \in There /\ c.parent \in There \union {Nil}
<1>1. PICK s \in KnownSlugs : c = AllFilled[s] /\ c # Nil
    BY DEF ShownForums
<1>2. s \in Slugs /\ c = Got(s)
    BY <1>1, MapSlugs DEF AllFilled
<1> QED BY <1>1, <1>2, GotOk DEF CopyOk

LEMMA ChosenThere ==
    ASSUME TreeAssumption, TreeInv, NEW q, Chosen(q)
    PROVE  q \in There \union {Nil}
BY ShownThere DEF Chosen

-----------------------------------------------------------------------------
(* Requests that read.                                                     *)

(* Every copy is what is found under its slug, or dropped.                 *)
FromGot(c) == c = [s \in Slugs |-> c[s]] /\ \A s \in Slugs : c[s] = Nil \/ c[s] = Got(s)

LEMMA CopyItself ==
    ASSUME TreeInv PROVE FromGot(copy)
BY DEF TreeInv, CacheMeant, FromGot, Got

LEMMA FilledFrom ==
    ASSUME TreeInv, NEW s PROVE FromGot(Filled(s))
<1>1. \A t \in Slugs : copy[t] = Nil \/ copy[t] = Got(t)
    BY DEF Got
<1>2. Filled(s) = [t \in Slugs |-> IF t = s THEN Got(s) ELSE copy[t]]
    BY DEF TreeInv, CacheMeant, Filled
<1> QED BY <1>1, <1>2 DEF FromGot

LEMMA AllFilledFrom ==
    ASSUME TreeInv PROVE FromGot(AllFilled)
<1>1. \A t \in Slugs : copy[t] = Nil \/ copy[t] = Got(t)
    BY DEF Got
<1> QED BY <1>1 DEF FromGot, AllFilled

LEMMA DroppedFrom ==
    ASSUME NEW c, FromGot(c), NEW t PROVE FromGot([c EXCEPT ![t] = Nil])
<1>1. [c EXCEPT ![t] = Nil] = [s \in Slugs |-> IF s = t THEN Nil ELSE c[s]]
    BY DEF FromGot
<1> QED BY <1>1 DEF FromGot

(* Copies that are dropped or filled from what is found stay right, and    *)
(* none appears under a slug that an edit has taken.                       *)
LEMMA CopiesStep ==
    ASSUME TreeAssumption, TreeInv, forumRow' = forumRow, FromGot(copy')
    PROVE  RowsMeant' /\ CacheMeant'
           /\ \A t \in Slugs : WithSlug(t) = {} /\ copy[t] = Nil => copy'[t] = Nil
<1>1. There' = There
    BY DEF There
<1>2. RowsMeant'
    BY <1>1 DEF TreeInv, RowsMeant, ForumOk, SlugsUnique
<1>3. ASSUME NEW s \in Slugs, copy'[s] # Nil PROVE CopyOk(s, copy'[s])
    BY <1>3, GotOk DEF FromGot
<1>4. ASSUME NEW i \in There, copy'[forumRow[i].slug] # Nil
      PROVE  copy'[forumRow[i].slug].id = i
    BY <1>4, GotIs DEF FromGot
<1>5. CacheMeant'
    BY <1>1, <1>3, <1>4 DEF CacheMeant, CopyOk, CopiesMeant, FromGot
<1>6. \A t \in Slugs : WithSlug(t) = {} /\ copy[t] = Nil => copy'[t] = Nil
    BY DEF FromGot, Got
<1> QED BY <1>2, <1>5, <1>6

(* The edits under way stay as meant while others read.                    *)
LEMMA OthersRead ==
    ASSUME TreeAssumption, TreeInv, forumRow' = forumRow, FromGot(copy'),
           NEW e \in forumEdits
    PROVE  EditOk(e)'
<1>1. There' = There /\ (\A t : WithSlug(t)' = WithSlug(t))
    BY DEF There, WithSlug
<1>2. e.slug # Nil => copy'[e.slug] = Nil
    BY CopiesStep DEF TreeInv, EditsMeant, EditOk
<1>3. EditOk(e)
    BY DEF TreeInv, EditsMeant
<1> QED BY <1>1, <1>2, <1>3 DEF EditOk

(* Who asks reads the map as it is, or the table.                          *)
LEMMA MapStep ==
    ASSUME TreeInv, forumRow' = forumRow, map' = MapNow, mapRaced' = RacedBy(MapNow),
           renamed' = renamed,
           \A e \in forumEdits' : e \in forumEdits \/ ~e.new
    PROVE  MapMeant'
<1>1. Table' = Table
    BY DEF Table, There
<1>2. CASE map = Nil
    <2>1. map' = Table
        BY <1>2 DEF MapNow
    <2>2. map' # Nil /\ ~mapRaced' => \A e \in forumEdits' : ~e.new
        BY <1>2 DEF RacedBy
    <2> QED BY <1>1, <2>1, <2>2, MapSlugs DEF MapMeant
<1>3. CASE map # Nil
    <2>1. map' = map /\ (~mapRaced' => ~mapRaced)
        BY <1>3 DEF MapNow, RacedBy
    <2> QED BY <1>1, <1>3, <2>1 DEF MapMeant, TreeInv
<1> QED BY <1>2, <1>3

LEMMA AskedKeeps ==
    ASSUME TreeAssumption, TreeInv, NEW c, FromGot(c), NEW wrong, Asked(MapNow, c, wrong),
           UNCHANGED <<forumRow, forumEdits, renamed>>
    PROVE  TreeInv'
<1>1. copy' = c /\ map' = MapNow /\ mapRaced' = RacedBy(MapNow)
    BY DEF Asked
<1>2. RowsMeant' /\ CacheMeant'
    BY <1>1, CopiesStep
<1>3. EditsMeant'
    <2>1. \A e \in forumEdits : EditOk(e)'
        BY <1>1, OthersRead
    <2> QED BY <2>1 DEF TreeInv, EditsMeant, EditsApart
<1>4. MapMeant'
    BY <1>1, MapStep
<1> QED BY <1>2, <1>3, <1>4 DEF TreeInv

LEMMA IndexKeeps ==
    ASSUME TreeAssumption, TreeInv, Index PROVE TreeInv'
<1> DEFINE c == IF AllFound THEN AllFilled ELSE copy
<1>1. FromGot(c)
    BY CopyItself, AllFilledFrom
<1>2. Asked(MapNow, c, ~AllFound \/ ~ParentsFound) /\ UNCHANGED <<forumRow, forumEdits, renamed>>
    BY DEF Index
<1> HIDE DEF c
<1> QED BY <1>1, <1>2, AskedKeeps

LEMMA LookUpKeeps ==
    ASSUME TreeAssumption, TreeInv, NEW i \in Ids, LookUp(i) PROVE TreeInv'
<1> DEFINE c == IF i \in DOMAIN MapNow THEN Filled(MapNow[i]) ELSE copy
           f == ById(i)
           wrong == f = Nil \/ (f # Nil /\ (f.id # i \/ Endless(f)))
<1>1. FromGot(c)
    BY CopyItself, FilledFrom
<1>2. Asked(MapNow, c, wrong) /\ UNCHANGED <<forumRow, forumEdits, renamed>>
    BY DEF LookUp
<1> HIDE DEF c, wrong
<1> QED BY <1>1, <1>2, AskedKeeps

(* Copies come and go, and the map stays or goes.                          *)
LEMMA CopiesKeep ==
    ASSUME TreeAssumption, TreeInv, FromGot(copy'), UNCHANGED <<forumRow, forumEdits>>,
           map' = Nil \/ UNCHANGED <<map, renamed, mapRaced>>
    PROVE  TreeInv'
<1>1. RowsMeant' /\ CacheMeant'
    BY CopiesStep
<1>2. EditsMeant'
    <2>1. \A e \in forumEdits : EditOk(e)'
        BY OthersRead
    <2> QED BY <2>1 DEF TreeInv, EditsMeant, EditsApart
<1>3. MapMeant'
    BY DEF TreeInv, MapMeant, Table, There
<1> QED BY <1>1, <1>2, <1>3 DEF TreeInv

LEMMA ShowForumKeeps ==
    ASSUME TreeAssumption, TreeInv, NEW s \in Slugs, ShowForum(s) PROVE TreeInv'
BY FilledFrom, CopiesKeep DEF ShowForum

LEMMA ExpiresKeeps ==
    ASSUME TreeAssumption, TreeInv, TreeExpires PROVE TreeInv'
<1>1. FromGot(copy')
    BY CopyItself, DroppedFrom DEF TreeExpires
<1> QED BY <1>1, CopiesKeep DEF TreeExpires

-----------------------------------------------------------------------------
(* Requests that write.                                                    *)

(* One more edit under way, of a forum nobody else edits, with a slug that *)
(* is free and no longer cached.                                           *)
LEMMA OneMoreEdit ==
    ASSUME TreeAssumption, TreeInv, forumRow' = forumRow, FromGot(copy'),
           NEW e, forumEdits' = forumEdits \union {e},
           EditOk(e)', \A d \in forumEdits : d.id # e.id,
           e.slug # Nil => Free(e.slug)
    PROVE  EditsMeant'
<1>1. \A d \in forumEdits : EditOk(d)'
    BY OthersRead
<1>2. EditsApart'
    BY DEF TreeInv, EditsMeant, EditsApart, Free
<1> QED BY <1>1, <1>2 DEF EditsMeant

LEMMA EditForumKeeps ==
    ASSUME TreeAssumption, TreeInv, NEW s \in Slugs, NEW t \in Slugs, NEW q,
           BeginForumEdit(s, t, q)
    PROVE  TreeInv'
<1> DEFINE f == Got(s)
<1>0. PICK e : e = [id |-> f.id, slug |-> IF t = f.slug THEN Nil ELSE t,
                    parent |-> IF q = f.parent THEN Nil ELSE q, new |-> FALSE]
    OBVIOUS
<1>1. /\ f # Nil /\ (t # s => Free(t)) /\ Chosen(q)
      /\ \A d \in forumEdits : d.id # f.id
      /\ forumEdits' = forumEdits \union {e}
      /\ map' = MapNow /\ mapRaced' = RacedBy(MapNow)
      /\ copy' = [AllFilled EXCEPT ![t] = Nil]
      /\ forumRow' = forumRow /\ renamed' = renamed
    BY <1>0 DEF BeginForumEdit
<1>2. CopyOk(s, f)
    BY <1>1, GotOk
<1>3. FromGot(copy')
    BY <1>1, AllFilledFrom, DroppedFrom
<1>4. copy'[t] = Nil
    BY <1>1 DEF AllFilled
<1>5. There' = There /\ WithSlug(t)' = WithSlug(t)
    BY <1>1 DEF There, WithSlug
<1>6. /\ e.id = f.id /\ e.new = FALSE
      /\ e.slug = IF t = s THEN Nil ELSE t
      /\ e.parent \in {q, Nil}
    BY <1>0, <1>2 DEF CopyOk
<1>7. q \in There \union {Nil}
    BY <1>1, ChosenThere
<1>8. e.slug # Nil => e.slug = t /\ Free(t)
    BY <1>1, <1>6
<1>9. EditOk(e)'
    BY <1>2, <1>4, <1>5, <1>6, <1>7, <1>8 DEF EditOk, CopyOk, There, Free
<1>10. EditsMeant'
    BY <1>1, <1>3, <1>6, <1>8, <1>9, OneMoreEdit
<1>11. RowsMeant' /\ CacheMeant'
    BY <1>1, <1>3, CopiesStep
<1>12. MapMeant'
    BY <1>1, <1>6, MapStep
<1> QED BY <1>10, <1>11, <1>12 DEF TreeInv

LEMMA CreateForumKeeps ==
    ASSUME TreeAssumption, TreeInv, NEW t \in Slugs, NEW q, BeginCreate(t, q)
    PROVE  TreeInv'
<1>1. PICK i \in Ids \ There :
        /\ \A d \in forumEdits : d.id # i
        /\ forumEdits' = forumEdits \union {[id |-> i, slug |-> t, parent |-> q, new |-> TRUE]}
    BY DEF BeginCreate
<1> DEFINE e == [id |-> i, slug |-> t, parent |-> q, new |-> TRUE]
<1>2. /\ Free(t) /\ Chosen(q) /\ map' = Nil /\ forumRow' = forumRow
      /\ copy' = [AllFilled EXCEPT ![t] = Nil]
    BY DEF BeginCreate, MapDropped
<1>3. FromGot(copy')
    BY <1>2, AllFilledFrom, DroppedFrom
<1>4. copy'[t] = Nil
    BY <1>2 DEF AllFilled
<1>5. There' = There /\ WithSlug(t)' = WithSlug(t)
    BY <1>2 DEF There, WithSlug
<1>6. q \in There \union {Nil}
    BY <1>2, ChosenThere
<1>7. e.id = i /\ e.slug = t /\ e.parent = q /\ e.new = TRUE
    OBVIOUS
<1>8. forumEdits' = forumEdits \union {e}
    BY <1>1
<1> HIDE DEF e
<1>9. t # Nil
    BY DEF TreeAssumption
<1>10. EditOk(e)'
    BY <1>2, <1>4, <1>5, <1>6, <1>7, <1>9 DEF EditOk, Free
<1>11. EditsMeant'
    BY <1>1, <1>2, <1>3, <1>7, <1>8, <1>10, OneMoreEdit
<1>12. RowsMeant' /\ CacheMeant'
    BY <1>2, <1>3, CopiesStep
<1>13. MapMeant'
    BY <1>2 DEF MapMeant
<1> QED BY <1>11, <1>12, <1>13 DEF TreeInv

LEMMA CommitForumKeeps ==
    ASSUME TreeAssumption, TreeInv, NEW e \in forumEdits, CommitForum(e)
    PROVE  TreeInv'
<1> DEFINE r == ChangedForum(e)
<1>1. /\ forumEdits' = forumEdits \ {e}
      /\ forumRow' = [forumRow EXCEPT ![e.id] = r]
      /\ renamed' = (renamed \/ (map # Nil /\ ~e.new /\ e.slug # Nil))
      /\ map' = map /\ copy' = copy /\ mapRaced' = mapRaced
    BY DEF CommitForum
<1>2. EditOk(e) /\ e.id \in Ids
    BY DEF TreeInv, EditsMeant, EditOk
<1>3. forumRow' = [i \in Ids |-> IF i = e.id THEN r ELSE forumRow[i]]
    BY <1>1 DEF TreeInv, RowsMeant
<1>4. ~e.new => forumRow[e.id] \in TreeRow /\ forumRow[e.id].parent \in There \union {Nil}
    BY <1>2 DEF EditOk, TreeInv, RowsMeant, ForumOk
<1>5. r \in TreeRow /\ r.parent \in There \union {Nil}
    <2>1. CASE e.new
        BY <1>2, <2>1 DEF ChangedForum, EditOk, TreeRow, There
    <2>2. CASE ~e.new
        BY <1>2, <1>4, <2>2 DEF ChangedForum, EditOk, TreeRow, There
    <2> QED BY <1>2, <2>1, <2>2 DEF EditOk
<1>6. /\ e.slug # Nil => r.slug = e.slug
      /\ e.slug = Nil => e.id \in There /\ r.slug = forumRow[e.id].slug
    BY <1>2 DEF ChangedForum, EditOk
<1> HIDE DEF r
<1>7. There' = There \union {e.id}
    BY <1>2, <1>3, <1>5 DEF There, TreeAssumption
<1>8. forumRow'[e.id] = r /\ \A i \in There \ {e.id} : forumRow'[i] = forumRow[i]
    BY <1>2, <1>3 DEF There
<1>9. \A i \in There \ {e.id} : forumRow[i].slug # r.slug
    BY <1>2, <1>6 DEF EditOk, WithSlug, TreeInv, RowsMeant, SlugsUnique
<1>10. RowsMeant'
    <2>1. \A i \in There' : ForumOk(forumRow[i])'
        BY <1>5, <1>7, <1>8 DEF TreeInv, RowsMeant, ForumOk
    <2>2. SlugsUnique'
        BY <1>7, <1>8, <1>9 DEF TreeInv, RowsMeant, SlugsUnique
    <2>3. (forumRow = [i \in Ids |-> forumRow[i]])'
        BY <1>3
    <2> QED BY <2>1, <2>2, <2>3 DEF RowsMeant
<1>11. CacheMeant'
    <2>1. CopiesMeant'
        <3>1. copy[r.slug] # Nil => copy[r.slug].id = e.id
            BY <1>2, <1>6 DEF EditOk, TreeInv, CacheMeant, CopiesMeant
        <3> QED BY <1>1, <1>7, <1>8, <3>1 DEF CopiesMeant, TreeInv, CacheMeant
    <2>2. \A s \in Slugs : copy[s] # Nil => CopyOk(s, copy[s])'
        BY <1>1, <1>7 DEF TreeInv, CacheMeant, CopyOk
    <2> QED BY <1>1, <2>1, <2>2 DEF TreeInv, CacheMeant
<1>12. EditsMeant'
    <2>1. ASSUME NEW d \in forumEdits, d # e PROVE EditOk(d)'
        <3>1. EditOk(d) /\ d.id # e.id /\ (d.slug # Nil => d.slug # e.slug)
            BY <2>1 DEF TreeInv, EditsMeant, EditsApart
        <3>2. d.slug # Nil => r.slug # d.slug
            BY <1>6, <3>1 DEF EditOk, WithSlug
        <3>3. d.slug # Nil => WithSlug(d.slug)' = {}
            BY <1>7, <1>8, <3>1, <3>2 DEF EditOk, WithSlug
        <3> QED BY <1>1, <1>7, <3>1, <3>3 DEF EditOk
    <2> QED BY <1>1, <2>1 DEF TreeInv, EditsMeant, EditsApart
<1>13. MapMeant'
    <2> SUFFICES ASSUME map # Nil PROVE MapMeant'
        BY <1>1 DEF MapMeant
    <2>1. ~mapRaced => \A d \in forumEdits : ~d.new
        BY DEF TreeInv, MapMeant
    <2>2. ASSUME ~mapRaced, ~renamed' PROVE map = Table'
        <3>1. ~e.new /\ e.slug = Nil /\ map = Table
            BY <1>1, <2>1, <2>2 DEF TreeInv, MapMeant
        <3>2. e.id \in There /\ There' = There
            BY <1>2, <1>7, <3>1 DEF EditOk
        <3>3. \A i \in There : forumRow'[i].slug = forumRow[i].slug
            BY <1>6, <1>8, <3>1
        <3> QED BY <3>1, <3>2, <3>3 DEF Table
    <2> QED BY <1>1, <2>1, <2>2 DEF TreeInv, MapMeant
<1> QED BY <1>10, <1>11, <1>12, <1>13 DEF TreeInv

LEMMA RollbackForumKeeps ==
    ASSUME TreeInv, NEW e \in forumEdits, RollbackForum(e)
    PROVE  TreeInv'
<1>1. There' = There /\ Table' = Table /\ (\A t : WithSlug(t)' = WithSlug(t))
    BY DEF RollbackForum, There, Table, WithSlug
<1>2. RowsMeant' /\ CacheMeant'
    BY <1>1 DEF RollbackForum, TreeInv, RowsMeant, CacheMeant, ForumOk, CopyOk, SlugsUnique,
                CopiesMeant
<1>3. EditsMeant'
    BY <1>1 DEF RollbackForum, TreeInv, EditsMeant, EditOk, EditsApart
<1>4. MapMeant'
    BY <1>1 DEF RollbackForum, TreeInv, MapMeant
<1> QED BY <1>2, <1>3, <1>4 DEF TreeInv

-----------------------------------------------------------------------------

LEMMA TreeStart ==
    ASSUME TreeAssumption, TreeInit PROVE TreeInv
<1>1. PICK s \in Slugs :
        forumRow = [i \in Ids |-> IF i = Root THEN [slug |-> s, parent |-> Nil] ELSE Nil]
    BY DEF TreeInit
<1>2. [slug |-> s, parent |-> Nil] \in TreeRow
    BY DEF TreeRow
<1>3. There = {Root} /\ forumRow[Root] \in TreeRow /\ forumRow[Root].parent = Nil
    BY <1>1, <1>2 DEF There, TreeAssumption
<1>4. RowsMeant
    BY <1>1, <1>3 DEF RowsMeant, ForumOk, SlugsUnique
<1>5. CacheMeant
    BY <1>3 DEF TreeInit, CacheMeant, CopiesMeant, TreeRow
<1> QED BY <1>4, <1>5 DEF TreeInit, TreeInv, EditsMeant, EditsApart, MapMeant

(* Whatever administrators edit while others read and cached entries       *)
(* expire: slugs belong to one forum each, a copy under the slug of a      *)
(* forum is of that forum, the slugs that edits take are free, and a map   *)
(* that nobody raced is the table's.                                       *)
THEOREM TreeInvariant == TreeAssumption /\ TreeSpec => []TreeInv
<1> SUFFICES ASSUME TreeAssumption PROVE TreeSpec => []TreeInv
    OBVIOUS
<1>1. TreeInit => TreeInv
    BY TreeStart
<1>2. TreeInv /\ [TreeNext]_treeVars => TreeInv'
    <2> SUFFICES ASSUME TreeInv, [TreeNext]_treeVars PROVE TreeInv'
        OBVIOUS
    <2>1. CASE Index
        BY <2>1, IndexKeeps
    <2>2. CASE TreeExpires
        BY <2>2, ExpiresKeeps
    <2>3. ASSUME NEW s \in Slugs, ShowForum(s) PROVE TreeInv'
        BY <2>3, ShowForumKeeps
    <2>4. ASSUME NEW i \in Ids, LookUp(i) PROVE TreeInv'
        BY <2>4, LookUpKeeps
    <2>5. ASSUME NEW s \in Slugs, NEW t \in Slugs, NEW q, BeginForumEdit(s, t, q) PROVE TreeInv'
        BY <2>5, EditForumKeeps
    <2>6. ASSUME NEW t \in Slugs, NEW q, BeginCreate(t, q) PROVE TreeInv'
        BY <2>6, CreateForumKeeps
    <2>7. ASSUME NEW e \in forumEdits, CommitForum(e) \/ RollbackForum(e) PROVE TreeInv'
        BY <2>7, CommitForumKeeps, RollbackForumKeeps
    <2>8. CASE UNCHANGED treeVars
        BY <2>8, CopyItself, CopiesKeep DEF treeVars
    <2> QED BY <2>1, <2>2, <2>3, <2>4, <2>5, <2>6, <2>7, <2>8 DEF TreeNext
<1> QED BY <1>1, <1>2, PTL DEF TreeSpec

(* While the map is the table's, every forum is found and every listed one *)
(* has its parent listed.                                                  *)
LEMMA TreeFinds ==
    ASSUME TreeAssumption, TreeInv PROVE ForumsFound
<1> SUFFICES ASSUME ~renamed, ~mapRaced
             PROVE  /\ AllFound /\ ParentsFound
                    /\ \A i \in There : ById(i) # Nil /\ ById(i).id = i
    BY DEF ForumsFound
<1>1. MapNow = Table
    BY DEF TreeInv, MapMeant, MapNow
<1>2. DOMAIN MapNow = There /\ \A i \in There : MapNow[i] = forumRow[i].slug
    BY <1>1 DEF Table
<1>3. AllFound
    BY <1>2 DEF AllFound, MissingForums
<1>4. ASSUME NEW i \in There PROVE ById(i) # Nil /\ ById(i).id = i
    BY <1>2, GotIs DEF ById
<1>5. ASSUME NEW c \in ShownForums, c.parent # Nil
      PROVE  \E d \in ShownForums : d.id = c.parent
    <2> DEFINE p == c.parent
               s == forumRow[p].slug
    <2>1. p \in There
        BY <1>5, ShownThere
    <2>2. s \in Slugs /\ Got(s) # Nil /\ Got(s).id = p
        BY <2>1, GotIs
    <2>3. s \in KnownSlugs
        BY <1>2, <2>1 DEF KnownSlugs
    <2>4. AllFilled[s] = Got(s)
        BY <2>2, <2>3 DEF AllFilled
    <2> QED BY <2>2, <2>3, <2>4 DEF ShownForums
<1> QED BY <1>3, <1>4, <1>5 DEF ParentsFound

(* Whoever asks for a forum that exists gets that one, the index shows all *)
(* of them and every parent, until a slug is changed or a new forum is     *)
(* committed behind the cached map: for any number of forums, slugs and    *)
(* administrators.                                                         *)
THEOREM ForumsFoundHolds == TreeAssumption /\ TreeSpec => []ForumsFound
<1> SUFFICES ASSUME TreeAssumption PROVE TreeSpec => []ForumsFound
    OBVIOUS
<1>1. TreeInv => ForumsFound
    BY TreeFinds
<1> QED BY <1>1, TreeInvariant, PTL

-----------------------------------------------------------------------------
(* Polls: the requests under way, what the rows of the voters add up to,   *)
(* and the forms that change the polls of the topic.                       *)

\* A request as it was sent: a form, or a vote that names something.
PollForm(r) ==
    \/ r.kind = "delete" /\ r.poll \in PollIds /\ r.has \in BOOLEAN
    \/ r.kind = "send" /\ r.polls \subseteq PollIds

VoteCast(r) ==
    /\ r.kind = "vote" /\ r.poll \in PollIds /\ r.voter \in Voters
    /\ r.options \subseteq Options \union {NoOption} /\ r.options # {}
    /\ pollRow[r.poll] # NoPoll
    /\ PollThere(r.poll) /\ ~pollRow[r.poll].multiple => Cardinality(r.options) = 1

\* What a request that votes relies on: nobody else votes for its voter, who has not voted.
Alone(r) ==
    /\ voted[r.poll][r.voter] = 0
    /\ \A p \in ballots : p.kind = "vote" /\ p.poll = r.poll /\ p.voter = r.voter => p = r

BallotsRight ==
    \A r \in ballots :
        /\ PollForm(r) \/ VoteCast(r)
        /\ r.kind = "vote" => <<r.poll, r.voter>> \in votedTwice \/ Alone(r)

\* Rows of voters are of polls that are there; the votes of a poll are those of its voters,
\* except of the voters who named no option of it.
VotersCounted ==
    \A q \in PollIds :
        /\ IsFiniteSet(Counts(voted[q], Voters))
        /\ ~PollThere(q) => blank[q] = 0
        /\ \A v \in Voters : /\ ~PollThere(q) => voted[q][v] = 0
                             /\ <<q, v>> \notin votedTwice => voted[q][v] <= 1
        /\ PollThere(q) => /\ Total(q) + blank[q] >= Voted(q)
                           /\ ~pollRow[q].multiple => Total(q) + blank[q] = Voted(q)

\* What a form has read is still so when it is the only one.
FormRight(r) ==
    /\ r.kind = "delete" => /\ saved /\ r.poll \in Bound
                            /\ r.has <=> OtherPolls(r.poll) # {}
    /\ r.kind = "send" => Bound \subseteq r.polls /\ \A q \in r.polls : PollThere(q)

OneForm ==
    ~crossed => /\ \A r, p \in Forms : r = p
                /\ \A r \in Forms : FormRight(r)

PollsInv ==
    /\ PollsTypeOK /\ saved \in BOOLEAN /\ crossed \in BOOLEAN
    /\ BallotsRight /\ VotersCounted /\ OneForm /\ HasPollIsTrue

\* The sums have a pair for each vote.
LEMMA InCounts ==
    ASSUME NEW S, NEW f, NEW x, NEW n
    PROVE  <<x, n>> \in Counts(f, S) <=> x \in S /\ n \in 1..f[x]
BY DEF Counts

LEMMA CountsArePairs ==
    ASSUME NEW S, NEW f
    PROVE  \A e \in Counts(f, S) : \E x \in S : \E n \in 1..f[x] : e = <<x, n>>
BY DEF Counts

LEMMA CountsFinite ==
    ASSUME NEW S, IsFiniteSet(S), NEW m \in Nat, NEW f \in [S -> 0..m]
    PROVE  IsFiniteSet(Counts(f, S))
<1>1. IsFiniteSet(S \X (1..m))
  <2>1. IsFiniteSet(1..m)
    BY FS_Interval
  <2> QED BY <2>1, FS_Product
<1>2. Counts(f, S) \subseteq S \X (1..m)
  <2> SUFFICES ASSUME NEW e \in Counts(f, S)
               PROVE  e \in S \X (1..m)
    OBVIOUS
  <2>1. PICK x \in S : \E n \in 1..f[x] : e = <<x, n>>
    BY CountsArePairs
  <2>2. PICK n \in 1..f[x] : e = <<x, n>>
    BY <2>1
  <2>3. f[x] \in 0..m
    OBVIOUS
  <2>4. n \in 1..m
    BY <2>3
  <2> QED BY <2>2, <2>4
<1> QED BY <1>1, <1>2, FS_Subset

LEMMA CountsNothing ==
    ASSUME NEW S, NEW f, \A x \in S : f[x] = 0
    PROVE  /\ Counts(f, S) = {} /\ IsFiniteSet(Counts(f, S))
           /\ Cardinality(Counts(f, S)) = 0
<1>1. Counts(f, S) = {}
  <2> SUFFICES ASSUME NEW e \in Counts(f, S)
               PROVE  FALSE
    OBVIOUS
  <2>1. PICK x \in S : \E n \in 1..f[x] : e = <<x, n>>
    BY CountsArePairs
  <2> QED BY <2>1
<1> QED BY <1>1, FS_EmptySet

LEMMA CountsOneMore ==
    ASSUME NEW S, NEW f \in [S -> Nat], NEW x \in S, IsFiniteSet(Counts(f, S)),
           NEW g \in [S -> Nat],
           \A y \in S : g[y] = IF y = x THEN f[y] + 1 ELSE f[y]
    PROVE  /\ IsFiniteSet(Counts(g, S))
           /\ Cardinality(Counts(g, S)) = Cardinality(Counts(f, S)) + 1
<1> DEFINE new == <<x, f[x] + 1>>
<1>1. new \notin Counts(f, S)
  <2>1. f[x] \in Nat
    OBVIOUS
  <2>2. f[x] + 1 \notin 1..f[x]
    BY <2>1
  <2> QED BY <2>2, InCounts
<1>2. Counts(g, S) = Counts(f, S) \union {new}
  <2>0. \A e \in Counts(g, S) : \E y \in S : \E n \in 1..g[y] : e = <<y, n>>
    BY CountsArePairs
  <2>1. ASSUME NEW e \in Counts(g, S)
        PROVE  e \in Counts(f, S) \union {new}
    <3>1. PICK y \in S : \E n \in 1..g[y] : e = <<y, n>>
      BY <2>0, <2>1
    <3>2. PICK n \in 1..g[y] : e = <<y, n>>
      BY <3>1
    <3>3. f[y] \in Nat /\ g[y] = IF y = x THEN f[y] + 1 ELSE f[y]
      OBVIOUS
    <3>4. n \in 1..f[y] \/ (y = x /\ n = f[x] + 1)
      BY <3>3
    <3> QED BY <3>2, <3>4, InCounts
  <2>2. ASSUME NEW e \in Counts(f, S)
        PROVE  e \in Counts(g, S)
    <3>1. PICK y \in S : \E n \in 1..f[y] : e = <<y, n>>
      BY CountsArePairs
    <3>2. PICK n \in 1..f[y] : e = <<y, n>>
      BY <3>1
    <3>3. f[y] \in Nat /\ g[y] = IF y = x THEN f[y] + 1 ELSE f[y]
      OBVIOUS
    <3>4. n \in 1..g[y]
      BY <3>3
    <3> QED BY <3>2, <3>4, InCounts
  <2>3. new \in Counts(g, S)
    <3>1. f[x] \in Nat /\ g[x] = f[x] + 1
      OBVIOUS
    <3>2. f[x] + 1 \in 1..g[x]
      BY <3>1
    <3> QED BY <3>2, InCounts
  <2> QED BY <2>1, <2>2, <2>3
<1> DEFINE old == Counts(f, S)
<1>3. IsFiniteSet(old) /\ new \notin old /\ Counts(g, S) = old \union {new}
  BY <1>1, <1>2
<1> HIDE DEF new, old
<1>4. IsFiniteSet(old \union {new}) /\ Cardinality(old \union {new}) = Cardinality(old) + 1
  BY <1>3, FS_AddElement
<1> QED BY <1>3, <1>4 DEF old

\* A vote is counted once at least, and once if it names one option.
LEMMA VoteCounts ==
    ASSUME PollsAssumption, NEW votes \in [Options -> 0..MaxVotes],
           NEW os \in SUBSET Options, os # {}, \A o \in os : votes[o] < MaxVotes
    PROVE  /\ Counted(votes, os) \in [Options -> 0..MaxVotes]
           /\ Cardinality(Counts(votes, Options)) \in Nat
           /\ Cardinality(Counts(Counted(votes, os), Options)) \in Nat
           /\ Cardinality(Counts(Counted(votes, os), Options))
                >= Cardinality(Counts(votes, Options)) + 1
           /\ Cardinality(os) = 1 =>
                Cardinality(Counts(Counted(votes, os), Options))
                  = Cardinality(Counts(votes, Options)) + 1
<1> DEFINE more == Counted(votes, os)
<1>1. MaxVotes \in Nat /\ IsFiniteSet(Options)
  BY DEF PollsAssumption
<1>2. more \in [Options -> 0..MaxVotes]
  <2> SUFFICES ASSUME NEW o \in Options
               PROVE  (IF o \in os THEN votes[o] + 1 ELSE votes[o]) \in 0..MaxVotes
    BY DEF Counted
  <2>1. votes[o] \in 0..MaxVotes
    OBVIOUS
  <2> QED BY <1>1, <2>1
<1>3. IsFiniteSet(Counts(votes, Options)) /\ IsFiniteSet(Counts(more, Options))
  BY <1>1, <1>2, CountsFinite
<1>4. PICK o \in os : TRUE
  OBVIOUS
<1> DEFINE one == [votes EXCEPT ![o] = @ + 1]
<1>5. votes \in [Options -> Nat] /\ one \in [Options -> Nat]
  BY <1>1
<1>6. /\ IsFiniteSet(Counts(one, Options))
      /\ Cardinality(Counts(one, Options)) = Cardinality(Counts(votes, Options)) + 1
  <2> HIDE DEF one
  <2>1. \A y \in Options : one[y] = IF y = o THEN votes[y] + 1 ELSE votes[y]
    BY DEF one
  <2> QED BY <1>3, <1>5, <2>1, CountsOneMore
<1>7. Counts(one, Options) \subseteq Counts(more, Options)
  <2> SUFFICES ASSUME NEW e \in Counts(one, Options)
               PROVE  e \in Counts(more, Options)
    OBVIOUS
  <2>a. \A d \in Counts(one, Options) : \E y \in Options : \E n \in 1..one[y] : d = <<y, n>>
    BY CountsArePairs
  <2>1. PICK y \in Options : \E n \in 1..one[y] : e = <<y, n>>
    BY <2>a
  <2>2. PICK n \in 1..one[y] : e = <<y, n>>
    BY <2>1
  <2>3. /\ votes[y] \in Nat
        /\ one[y] = IF y = o THEN votes[y] + 1 ELSE votes[y]
        /\ more[y] = IF y \in os THEN votes[y] + 1 ELSE votes[y]
    BY <1>5 DEF Counted
  <2>4. n \in 1..more[y]
    <3> HIDE DEF one, more
    <3> QED BY <2>3
  <2> QED BY <2>2, <2>4, InCounts
<1>8. Cardinality(Counts(one, Options)) <= Cardinality(Counts(more, Options))
  BY <1>3, <1>7, FS_Subset
<1>9. ASSUME Cardinality(os) = 1
      PROVE  more = one
  <2>1. IsFiniteSet(os)
    BY <1>1, FS_Subset
  <2>2. os = {o}
    BY <1>9, <2>1, FS_Singleton
  <2> QED BY <2>2 DEF Counted
<1>10. /\ Cardinality(Counts(votes, Options)) \in Nat
       /\ Cardinality(Counts(more, Options)) \in Nat
       /\ Cardinality(Counts(one, Options)) \in Nat
  BY <1>3, <1>6, FS_CardinalityType
<1> HIDE DEF one, more
<1>11. Cardinality(Counts(more, Options)) >= Cardinality(Counts(votes, Options)) + 1
  BY <1>6, <1>8, <1>10
<1>12. Cardinality(os) = 1 =>
         Cardinality(Counts(more, Options)) = Cardinality(Counts(votes, Options)) + 1
  BY <1>6, <1>9
<1> QED BY <1>2, <1>10, <1>11, <1>12 DEF more

-----------------------------------------------------------------------------
(* The steps of the polls.                                                  *)

LEMMA PollRowsThere ==
    ASSUME PollsAssumption
    PROVE  /\ \A row \in PollRow : row # NoPoll /\ row # DeletedPoll
           /\ PollsTypeOK => \A q \in PollIds : PollThere(q) <=> pollRow[q] \in PollRow
BY DEF PollsAssumption, PollsTypeOK, PollThere

\* What a request is, and how it was sent, when it goes on unchanged.
LEMMA BeginPollKeeps ==
    ASSUME PollsInv, NEW r, BeginPoll(r), PollForm(r) \/ VoteCast(r),
           r.kind = "vote" => voted[r.poll][r.voter] = 0,
           r.kind # "vote" => FormRight(r)
    PROVE  PollsInv'
<1>1. /\ ballots' = ballots \union {r}
      /\ crossed' = (crossed \/ (r.kind # "vote" /\ Forms # {}))
      /\ votedTwice' = IF Rivals(r) = {} THEN votedTwice
                       ELSE votedTwice \union {<<r.poll, r.voter>>}
      /\ UNCHANGED <<saved, hasPoll, pollRow, voted, blank>>
  BY DEF BeginPoll
<1>2. /\ \A q : PollThere(q)' <=> PollThere(q)
      /\ Bound' = Bound /\ \A q : OtherPolls(q)' = OtherPolls(q)
  BY <1>1 DEF PollThere, Bound, OtherPolls
<1>3. PollsTypeOK' /\ saved' \in BOOLEAN /\ crossed' \in BOOLEAN
  BY <1>1 DEF PollsInv, PollsTypeOK
<1>4. BallotsRight'
  <2> SUFFICES ASSUME NEW s \in ballots'
               PROVE  /\ PollForm(s) \/ VoteCast(s)'
                      /\ s.kind = "vote" => <<s.poll, s.voter>> \in votedTwice' \/ Alone(s)'
    BY DEF BallotsRight, PollForm
  <2>1. s \in ballots \/ s = r
    BY <1>1
  <2>2. PollForm(s) \/ VoteCast(s)
    BY <2>1 DEF PollsInv, BallotsRight
  <2>3. VoteCast(s) => VoteCast(s)'
    BY <1>1, <1>2 DEF VoteCast
  <2>4. CASE s.kind = "vote" /\ s = r
    <3>1. CASE Rivals(r) = {}
      <4>1. ASSUME NEW p \in ballots', p.kind = "vote", p.poll = s.poll, p.voter = s.voter
            PROVE  p = s
        <5>1. p \in ballots => p \in Rivals(r)
          BY <2>4, <4>1 DEF Rivals
        <5> QED BY <1>1, <2>4, <3>1, <5>1
      <4>2. voted'[s.poll][s.voter] = 0
        BY <1>1, <2>4
      <4> QED BY <2>2, <2>3, <4>1, <4>2 DEF Alone
    <3>2. CASE Rivals(r) # {}
      BY <1>1, <2>2, <2>3, <2>4, <3>2
    <3> QED BY <3>1, <3>2
  <2>5. CASE s.kind = "vote" /\ s \in ballots
    <3>1. CASE <<s.poll, s.voter>> \in votedTwice
      BY <1>1, <2>2, <2>3, <3>1
    <3>2. CASE <<s.poll, s.voter>> \notin votedTwice
      <4>1. Alone(s)
        BY <2>5, <3>2 DEF PollsInv, BallotsRight
      <4>2. CASE r.kind = "vote" /\ r.poll = s.poll /\ r.voter = s.voter
        <5>1. s \in Rivals(r)
          BY <2>5, <4>2 DEF Rivals
        <5> QED BY <1>1, <2>2, <2>3, <4>2, <5>1
      <4>3. CASE ~(r.kind = "vote" /\ r.poll = s.poll /\ r.voter = s.voter)
        <5>1. Alone(s)'
          BY <1>1, <4>1, <4>3 DEF Alone
        <5> QED BY <2>2, <2>3, <5>1
      <4> QED BY <4>2, <4>3
    <3> QED BY <3>1, <3>2
  <2> QED BY <2>1, <2>2, <2>3, <2>4, <2>5
<1>5. VotersCounted'
  <2>1. votedTwice \subseteq votedTwice'
    BY <1>1
  <2>2. \A q : Total(q)' = Total(q) /\ Voted(q)' = Voted(q)
    BY <1>1 DEF Total, Voted
  <2> QED BY <1>1, <1>2, <2>1, <2>2 DEF PollsInv, VotersCounted
<1>6. OneForm'
  <2> SUFFICES ASSUME ~crossed'
               PROVE  /\ \A s, p \in Forms' : s = p
                      /\ \A s \in Forms' : FormRight(s)'
    BY DEF OneForm
  <2>1. ~crossed /\ (r.kind = "vote" \/ Forms = {})
    BY <1>1
  <2>2. Forms' = IF r.kind = "vote" THEN Forms ELSE {r}
    BY <1>1, <2>1 DEF Forms
  <2>3. \A s \in Forms' : FormRight(s)
    BY <2>1, <2>2 DEF PollsInv, OneForm
  <2>4. \A s : FormRight(s) => FormRight(s)'
    BY <1>1, <1>2 DEF FormRight
  <2> QED BY <2>1, <2>2, <2>3, <2>4 DEF PollsInv, OneForm
<1>7. HasPollIsTrue'
  BY <1>1, <1>2 DEF PollsInv, HasPollIsTrue
<1> QED BY <1>3, <1>4, <1>5, <1>6, <1>7 DEF PollsInv

LEMMA DeletePollKeeps ==
    ASSUME PollsInv, NEW q \in PollIds, DeletePoll(q)
    PROVE  PollsInv'
<1> DEFINE r == [kind |-> "delete", id |-> FreeId, poll |-> q, has |-> OtherPolls(q) # {}]
<1>1. BeginPoll(r) /\ saved /\ q \in Bound
  BY DEF DeletePoll
<1>2. r.kind = "delete" /\ r.poll = q /\ r.has = (OtherPolls(q) # {})
  OBVIOUS
<1> HIDE DEF r
<1>3. PollForm(r) /\ FormRight(r)
  BY <1>1, <1>2 DEF PollForm, FormRight
<1> QED BY <1>1, <1>2, <1>3, BeginPollKeeps

LEMMA SendKeeps ==
    ASSUME PollsInv, NEW added \in SUBSET PollIds, Send(added)
    PROVE  PollsInv'
<1> DEFINE r == [kind |-> "send", id |-> FreeId, polls |-> Bound \union added]
<1>1. BeginPoll(r) /\ added \subseteq {q \in PollIds : PollThere(q)}
  BY DEF Send
<1>2. r.kind = "send" /\ r.polls = Bound \union added
  OBVIOUS
<1> HIDE DEF r
<1>3. PollForm(r) /\ FormRight(r)
  BY <1>1, <1>2 DEF PollForm, FormRight, Bound
<1> QED BY <1>1, <1>2, <1>3, BeginPollKeeps

LEMMA VoteKeeps ==
    ASSUME PollsAssumption, PollsInv, NEW q \in PollIds, NEW v \in Voters, Vote(q, v)
    PROVE  PollsInv'
<1>1. PICK os \in (SUBSET (Options \union {NoOption})) \ {{}} :
        /\ pollRow[q].multiple \/ Cardinality(os) = 1
        /\ BeginPoll([kind |-> "vote", id |-> FreeId, poll |-> q, voter |-> v, options |-> os])
  BY DEF Vote
<1> DEFINE r == [kind |-> "vote", id |-> FreeId, poll |-> q, voter |-> v, options |-> os]
<1>2. BeginPoll(r)
  BY <1>1
<1>3. r.kind = "vote" /\ r.poll = q /\ r.voter = v /\ r.options = os
  OBVIOUS
<1> HIDE DEF r
<1>4. q \in Bound /\ ~(voted[q][v] > 0)
  BY DEF Vote, Participated
<1>5. voted[q][v] = 0
  <2>1. voted[q][v] \in Nat
    BY DEF PollsInv, PollsTypeOK
  <2> QED BY <1>4, <2>1
<1>6. VoteCast(r)
  BY <1>1, <1>3, <1>4 DEF VoteCast, Bound, PollThere
<1> QED BY <1>2, <1>3, <1>5, <1>6, BeginPollKeeps

\* What is under way stays right while its polls only go, and a vote that is alone stays
\* the first of its voter.
LEMMA BallotsKeep ==
    ASSUME PollsInv, ballots' \subseteq ballots, votedTwice' = votedTwice,
           \A q \in PollIds : pollRow[q] # NoPoll =>
               /\ pollRow'[q] # NoPoll
               /\ PollThere(q)' => PollThere(q) /\ pollRow'[q].multiple = pollRow[q].multiple,
           \A s \in ballots' : s.kind = "vote" /\ Alone(s) => voted'[s.poll][s.voter] = 0
    PROVE  BallotsRight'
<1> SUFFICES ASSUME NEW s \in ballots'
             PROVE  /\ PollForm(s) \/ VoteCast(s)'
                    /\ s.kind = "vote" => <<s.poll, s.voter>> \in votedTwice' \/ Alone(s)'
  BY DEF BallotsRight, PollForm
<1>1. PollForm(s) \/ VoteCast(s)
  BY DEF PollsInv, BallotsRight
<1>2. VoteCast(s) => VoteCast(s)'
  BY DEF VoteCast
<1>3. s.kind = "vote" /\ Alone(s) => Alone(s)'
  BY DEF Alone
<1>4. s.kind = "vote" => <<s.poll, s.voter>> \in votedTwice \/ Alone(s)
  BY DEF PollsInv, BallotsRight
<1> QED BY <1>1, <1>2, <1>3, <1>4

\* Polls that are neither voted in, nor bound, nor removed.
LEMMA RollbackPollKeeps ==
    ASSUME PollsInv, NEW r \in ballots, RollbackPoll(r)
    PROVE  PollsInv'
<1>1. ballots' \subseteq ballots /\ UNCHANGED <<saved, hasPoll, pollRow, voted, blank, votedTwice, crossed>>
  BY DEF RollbackPoll
<1>2. /\ \A q : PollThere(q)' <=> PollThere(q)
      /\ Bound' = Bound /\ \A q : OtherPolls(q)' = OtherPolls(q)
  BY <1>1 DEF PollThere, Bound, OtherPolls
<1>3. BallotsRight'
  <2>1. \A s \in ballots' : s.kind = "vote" /\ Alone(s) => voted'[s.poll][s.voter] = 0
    BY <1>1 DEF Alone
  <2> QED BY <1>1, <1>2, <2>1, BallotsKeep
<1>4. VotersCounted'
  <2>1. \A q : Total(q)' = Total(q) /\ Voted(q)' = Voted(q)
    BY <1>1 DEF Total, Voted
  <2> QED BY <1>1, <1>2, <2>1 DEF PollsInv, VotersCounted
<1>5. OneForm'
  <2>1. Forms' \subseteq Forms
    BY <1>1 DEF Forms
  <2>2. \A s : FormRight(s) => FormRight(s)'
    BY <1>1, <1>2 DEF FormRight
  <2> QED BY <1>1, <2>1, <2>2 DEF PollsInv, OneForm
<1> QED BY <1>1, <1>2, <1>3, <1>4, <1>5 DEF PollsInv, PollsTypeOK, HasPollIsTrue

LEMMA ClosePollKeeps ==
    ASSUME PollsAssumption, PollsInv, NEW q \in PollIds, Close(q)
    PROVE  PollsInv'
<1>1. /\ PollThere(q) /\ pollRow' = [pollRow EXCEPT ![q].open = FALSE]
      /\ UNCHANGED <<saved, hasPoll, voted, blank, ballots, votedTwice, crossed>>
  BY DEF Close
<1>2. pollRow \in [PollIds -> PollRow \union {NoPoll, DeletedPoll}] /\ pollRow[q] \in PollRow
  BY <1>1, PollRowsThere DEF PollsInv, PollsTypeOK
<1>3. /\ pollRow'[q] = [pollRow[q] EXCEPT !.open = FALSE]
      /\ pollRow'[q] \in PollRow
      /\ \A p \in PollIds : p # q => pollRow'[p] = pollRow[p]
  BY <1>1, <1>2 DEF PollRow
<1>4. /\ pollRow'[q].bound = pollRow[q].bound
      /\ pollRow'[q].multiple = pollRow[q].multiple
      /\ pollRow'[q].votes = pollRow[q].votes
  BY <1>2, <1>3 DEF PollRow
<1>5. \A p \in PollIds : PollThere(p)' <=> PollThere(p)
  BY <1>1, <1>3, PollRowsThere DEF PollThere
<1>6. Bound' = Bound /\ \A p : OtherPolls(p)' = OtherPolls(p)
  BY <1>3, <1>4, <1>5 DEF Bound, OtherPolls
<1>7. \A p \in PollIds : Total(p)' = Total(p) /\ Voted(p)' = Voted(p)
  BY <1>1, <1>3, <1>4 DEF Total, Voted
<1>8. PollsTypeOK'
  BY <1>1, <1>2, <1>3 DEF PollsInv, PollsTypeOK
<1>9. BallotsRight'
  <2>1. \A s \in ballots' : s.kind = "vote" /\ Alone(s) => voted'[s.poll][s.voter] = 0
    BY <1>1 DEF Alone
  <2>2. \A p \in PollIds : pollRow[p] # NoPoll =>
          /\ pollRow'[p] # NoPoll
          /\ PollThere(p)' => PollThere(p) /\ pollRow'[p].multiple = pollRow[p].multiple
    BY <1>3, <1>4, <1>5, PollRowsThere
  <2> QED BY <1>1, <2>1, <2>2, BallotsKeep
<1>10. VotersCounted'
  BY <1>1, <1>3, <1>4, <1>5, <1>7 DEF PollsInv, VotersCounted
<1>11. OneForm'
  <2>1. \A s \in Forms : FormRight(s) => FormRight(s)'
    <3>1. \A s \in Forms : PollForm(s)
      BY DEF PollsInv, BallotsRight, VoteCast, Forms
    <3> QED BY <1>1, <1>5, <1>6, <3>1 DEF FormRight, PollForm
  <2> QED BY <1>1, <2>1 DEF PollsInv, OneForm, Forms
<1> QED BY <1>1, <1>6, <1>8, <1>9, <1>10, <1>11 DEF PollsInv, HasPollIsTrue

LEMMA AddPollKeeps ==
    ASSUME PollsAssumption, PollsInv, NEW q \in PollIds, AddPoll(q)
    PROVE  PollsInv'
<1>1. PICK multiple \in BOOLEAN :
        pollRow' = [pollRow EXCEPT ![q] = [bound |-> saved, open |-> TRUE,
                                           multiple |-> multiple,
                                           votes |-> [o \in Options |-> 0]]]
  BY DEF AddPoll
<1>2. /\ pollRow[q] = NoPoll
      /\ hasPoll' = (hasPoll \/ saved) /\ crossed' = (crossed \/ Forms # {})
      /\ UNCHANGED <<saved, voted, blank, ballots, votedTwice>>
  BY DEF AddPoll
<1>3. pollRow \in [PollIds -> PollRow \union {NoPoll, DeletedPoll}] /\ ~PollThere(q)
  BY <1>2 DEF PollsInv, PollsTypeOK, PollThere
<1>4. /\ pollRow'[q] = [bound |-> saved, open |-> TRUE, multiple |-> multiple,
                        votes |-> [o \in Options |-> 0]]
      /\ \A p \in PollIds : p # q => pollRow'[p] = pollRow[p]
  BY <1>1, <1>3
<1>5. pollRow'[q] \in PollRow
  <2>1. [o \in Options |-> 0] \in [Options -> 0..MaxVotes]
    BY DEF PollsAssumption
  <2> QED BY <1>4, <2>1 DEF PollRow, PollsInv
<1>6. /\ PollThere(q)' /\ pollRow'[q].bound = saved
      /\ \A p \in PollIds : p # q => (PollThere(p)' <=> PollThere(p))
  <2>1. PollThere(q)'
    BY <1>5, PollRowsThere DEF PollThere
  <2>2. pollRow'[q].bound = saved
    BY <1>4
  <2>3. ASSUME NEW p \in PollIds, p # q
        PROVE  PollThere(p)' <=> PollThere(p)
    BY <1>4, <2>3 DEF PollThere
  <2> QED BY <2>1, <2>2, <2>3
<1>7. PollsTypeOK'
  BY <1>1, <1>2, <1>3, <1>5 DEF PollsInv, PollsTypeOK
<1>8. BallotsRight'
  <2>1. \A s \in ballots' : s.kind = "vote" /\ Alone(s) => voted'[s.poll][s.voter] = 0
    BY <1>2 DEF Alone
  <2> QED BY <1>2, <1>4, <1>6, <2>1, BallotsKeep
<1>9. VotersCounted'
  <2>1. ASSUME NEW p \in PollIds, p # q
        PROVE  Total(p)' = Total(p) /\ Voted(p)' = Voted(p) /\ pollRow'[p] = pollRow[p]
    BY <1>2, <1>4, <2>1 DEF Total, Voted
  <2>2. blank[q] = 0 /\ \A v \in Voters : voted[q][v] = 0
    BY <1>3 DEF PollsInv, VotersCounted
  <2>3. Voted(q)' = 0
    BY <1>2, <2>2, CountsNothing DEF Voted
  <2>4. Total(q)' = 0
    <3> DEFINE none == [o \in Options |-> 0]
    <3>1. pollRow'[q].votes = none
      BY <1>4
    <3>2. \A o \in Options : none[o] = 0
      OBVIOUS
    <3> HIDE DEF none
    <3>3. Cardinality(Counts(none, Options)) = 0
      BY <3>2, CountsNothing
    <3> QED BY <3>1, <3>3 DEF Total
  <2> QED BY <1>2, <1>6, <2>1, <2>2, <2>3, <2>4 DEF PollsInv, VotersCounted
<1>10. OneForm'
  BY <1>2 DEF OneForm, Forms
<1>11. HasPollIsTrue'
  <2> SUFFICES ASSUME ~crossed', saved'
               PROVE  hasPoll' <=> Bound' # {}
    BY DEF HasPollIsTrue
  <2>1. q \in Bound'
    BY <1>2, <1>6 DEF Bound
  <2> QED BY <1>2, <2>1
<1> QED BY <1>2, <1>7, <1>8, <1>9, <1>10, <1>11 DEF PollsInv

LEMMA CommitDeletionKeeps ==
    ASSUME PollsAssumption, PollsInv, NEW r \in ballots, CommitForm(r), r.kind = "delete"
    PROVE  PollsInv'
<1> DEFINE q == r.poll
<1>1. /\ ballots' = ballots \ {r}
      /\ pollRow' = [pollRow EXCEPT ![q] = DeletedPoll]
      /\ voted' = [voted EXCEPT ![q] = [v \in Voters |-> 0]]
      /\ blank' = [blank EXCEPT ![q] = 0]
      /\ hasPoll' = r.has /\ UNCHANGED <<saved, votedTwice, crossed>>
  BY DEF CommitForm, Removed
<1>2. q \in PollIds /\ r.has \in BOOLEAN
  BY DEF PollsInv, BallotsRight, PollForm, VoteCast
<1>3. /\ pollRow \in [PollIds -> PollRow \union {NoPoll, DeletedPoll}]
      /\ voted \in [PollIds -> [Voters -> Nat]] /\ blank \in [PollIds -> Nat]
  BY DEF PollsInv, PollsTypeOK
<1> HIDE DEF q
<1>4. /\ pollRow'[q] = DeletedPoll /\ voted'[q] = [v \in Voters |-> 0] /\ blank'[q] = 0
      /\ \A p \in PollIds : p # q =>
           pollRow'[p] = pollRow[p] /\ voted'[p] = voted[p] /\ blank'[p] = blank[p]
  BY <1>1, <1>2, <1>3
<1>5. ~PollThere(q)'
  BY <1>4 DEF PollThere
<1>6. \A p \in PollIds : p # q => (PollThere(p)' <=> PollThere(p))
  BY <1>4 DEF PollThere
<1>7. Bound' = OtherPolls(q)
  BY <1>4, <1>5, <1>6 DEF Bound, OtherPolls
<1>8. PollsTypeOK'
  BY <1>1, <1>2, <1>3 DEF PollsTypeOK
<1>9. BallotsRight'
  <2>1. ASSUME NEW s \in ballots', s.kind = "vote", Alone(s)
        PROVE  voted'[s.poll][s.voter] = 0
    <3>1. s.poll \in PollIds /\ s.voter \in Voters
      BY <1>1, <2>1 DEF PollsInv, BallotsRight, PollForm, VoteCast
    <3> QED BY <1>4, <2>1, <3>1 DEF Alone
  <2>2. \A p \in PollIds : pollRow[p] # NoPoll =>
          /\ pollRow'[p] # NoPoll
          /\ PollThere(p)' => PollThere(p) /\ pollRow'[p].multiple = pollRow[p].multiple
    BY <1>4, <1>5, <1>6 DEF PollsAssumption
  <2> QED BY <1>1, <2>1, <2>2, BallotsKeep
<1>10. VotersCounted'
  <2>1. ASSUME NEW p \in PollIds, p # q
        PROVE  Total(p)' = Total(p) /\ Voted(p)' = Voted(p)
    BY <1>4, <2>1 DEF Total, Voted
  <2>2. \A v \in Voters : voted'[q][v] = 0
    BY <1>4
  <2>3. IsFiniteSet(Counts(voted'[q], Voters))
    BY <2>2, CountsNothing
  <2> QED BY <1>1, <1>4, <1>5, <1>6, <2>1, <2>2, <2>3 DEF PollsInv, VotersCounted
<1>11. OneForm'
  <2> SUFFICES ASSUME ~crossed'
               PROVE  Forms' = {}
    BY DEF OneForm
  <2>1. \A s \in Forms : s = r
    BY <1>1 DEF PollsInv, OneForm, Forms
  <2> QED BY <1>1, <2>1 DEF Forms
<1>12. HasPollIsTrue'
  <2> SUFFICES ASSUME ~crossed', saved'
               PROVE  hasPoll' <=> Bound' # {}
    BY DEF HasPollIsTrue
  <2>1. FormRight(r)
    BY <1>1 DEF PollsInv, OneForm, Forms
  <2>2. r.has <=> OtherPolls(q) # {}
    BY <2>1 DEF FormRight, q
  <2> QED BY <1>1, <1>7, <2>2
<1> QED BY <1>1, <1>8, <1>9, <1>10, <1>11, <1>12 DEF PollsInv

LEMMA CommitSendKeeps ==
    ASSUME PollsAssumption, PollsInv, NEW r \in ballots, CommitForm(r), r.kind = "send"
    PROVE  PollsInv'
<1>1. /\ ballots' = ballots \ {r} /\ saved' = TRUE
      /\ hasPoll' = (r.polls # {})
      /\ pollRow' = [p \in PollIds |-> IF p \in r.polls /\ PollThere(p)
                                       THEN [pollRow[p] EXCEPT !.bound = TRUE]
                                       ELSE pollRow[p]]
      /\ UNCHANGED <<voted, blank, votedTwice, crossed>>
  BY DEF CommitForm
<1>2. r.polls \subseteq PollIds
  BY DEF PollsInv, BallotsRight, PollForm, VoteCast
<1>3. ASSUME NEW p \in PollIds, p \in r.polls, PollThere(p)
      PROVE  /\ pollRow'[p] \in PollRow /\ PollThere(p)'
             /\ pollRow'[p].bound = TRUE
             /\ pollRow'[p].multiple = pollRow[p].multiple
             /\ pollRow'[p].votes = pollRow[p].votes
  <2>1. pollRow[p] \in PollRow
    BY <1>3, PollRowsThere DEF PollsInv
  <2>2. pollRow'[p] = [pollRow[p] EXCEPT !.bound = TRUE]
    BY <1>1, <1>3
  <2>3. pollRow'[p] \in PollRow
    BY <2>1, <2>2 DEF PollRow
  <2>4. PollThere(p)'
    BY <2>3, PollRowsThere DEF PollThere
  <2> QED BY <2>1, <2>2, <2>3, <2>4 DEF PollRow
<1>4. \A p \in PollIds : ~(p \in r.polls /\ PollThere(p)) => pollRow'[p] = pollRow[p]
  BY <1>1
<1>5. \A p \in PollIds : PollThere(p)' <=> PollThere(p)
  BY <1>3, <1>4 DEF PollThere
<1>6. \A p \in PollIds : PollThere(p) => /\ pollRow'[p].multiple = pollRow[p].multiple
                                         /\ pollRow'[p].votes = pollRow[p].votes
  BY <1>3, <1>4
<1>7. PollsTypeOK'
  <2>1. \A p \in PollIds : pollRow'[p] \in PollRow \union {NoPoll, DeletedPoll}
    BY <1>3, <1>4 DEF PollsInv, PollsTypeOK
  <2> QED BY <1>1, <2>1 DEF PollsInv, PollsTypeOK
<1>8. BallotsRight'
  <2>1. \A s \in ballots' : s.kind = "vote" /\ Alone(s) => voted'[s.poll][s.voter] = 0
    BY <1>1 DEF Alone
  <2>2. \A p \in PollIds : pollRow[p] # NoPoll =>
          /\ pollRow'[p] # NoPoll
          /\ PollThere(p)' => PollThere(p) /\ pollRow'[p].multiple = pollRow[p].multiple
    BY <1>3, <1>4, <1>5, <1>6, PollRowsThere
  <2> QED BY <1>1, <2>1, <2>2, BallotsKeep
<1>9. VotersCounted'
  <2> SUFFICES ASSUME NEW p \in PollIds
               PROVE  /\ IsFiniteSet(Counts(voted'[p], Voters))
                      /\ ~PollThere(p)' => blank'[p] = 0
                      /\ \A u \in Voters : /\ ~PollThere(p)' => voted'[p][u] = 0
                                           /\ <<p, u>> \notin votedTwice' => voted'[p][u] <= 1
                      /\ PollThere(p)' =>
                           /\ Total(p)' + blank'[p] >= Voted(p)'
                           /\ ~pollRow'[p].multiple => Total(p)' + blank'[p] = Voted(p)'
    BY DEF VotersCounted
  <2>2. /\ IsFiniteSet(Counts(voted'[p], Voters))
        /\ ~PollThere(p)' => blank'[p] = 0
        /\ \A u \in Voters : /\ ~PollThere(p)' => voted'[p][u] = 0
                             /\ <<p, u>> \notin votedTwice' => voted'[p][u] <= 1
    BY <1>1, <1>5 DEF PollsInv, VotersCounted
  <2>3. PollThere(p) => /\ Total(p) + blank[p] >= Voted(p)
                        /\ ~pollRow[p].multiple => Total(p) + blank[p] = Voted(p)
    BY DEF PollsInv, VotersCounted
  <2>4. ASSUME PollThere(p)'
        PROVE  /\ Total(p)' + blank'[p] >= Voted(p)'
               /\ ~pollRow'[p].multiple => Total(p)' + blank'[p] = Voted(p)'
    <3>1. PollThere(p)
      BY <1>5, <2>4
    <3>2. pollRow'[p].multiple = pollRow[p].multiple
      BY <1>6, <3>1
    <3>3. Total(p)' = Total(p) /\ Voted(p)' = Voted(p) /\ blank'[p] = blank[p]
      BY <1>1, <1>6, <3>1 DEF Total, Voted
    <3> QED BY <2>3, <3>1, <3>2, <3>3
  <2> QED BY <2>2, <2>4
<1>10. OneForm'
  <2> SUFFICES ASSUME ~crossed'
               PROVE  Forms' = {}
    BY DEF OneForm
  <2>1. \A s \in Forms : s = r
    BY <1>1 DEF PollsInv, OneForm, Forms
  <2> QED BY <1>1, <2>1 DEF Forms
<1>11. HasPollIsTrue'
  <2> SUFFICES ASSUME ~crossed'
               PROVE  Bound' = r.polls
    BY <1>1 DEF HasPollIsTrue
  <2>1. FormRight(r)
    BY <1>1 DEF PollsInv, OneForm, Forms
  <2>2. Bound \subseteq r.polls /\ \A p \in r.polls : PollThere(p)
    BY <2>1 DEF FormRight
  <2>3. ASSUME NEW p \in PollIds
        PROVE  p \in Bound' <=> p \in r.polls
    <3>1. CASE p \in r.polls
      BY <1>3, <2>2, <3>1 DEF Bound
    <3>2. CASE p \notin r.polls
      BY <1>4, <1>5, <2>2, <3>2 DEF Bound
    <3> QED BY <3>1, <3>2
  <2>4. Bound' \subseteq PollIds
    BY DEF Bound
  <2> QED BY <1>2, <2>3, <2>4
<1> QED BY <1>1, <1>7, <1>8, <1>9, <1>10, <1>11 DEF PollsInv

LEMMA CommitVoteKeeps ==
    ASSUME PollsAssumption, PollsInv, NEW r \in ballots, CommitVote(r)
    PROVE  PollsInv'
<1> DEFINE q == r.poll
           v == r.voter
           more == Counted(pollRow[q].votes, Known(r))
           none == IF Known(r) = {} THEN 1 ELSE 0
<1>1. /\ r.kind = "vote" /\ PollThere(q)
      /\ \A o \in Known(r) : pollRow[q].votes[o] < MaxVotes
      /\ ballots' = ballots \ {r}
      /\ voted' = [voted EXCEPT ![q][v] = @ + 1]
      /\ pollRow' = [pollRow EXCEPT ![q].votes = more]
      /\ blank' = [blank EXCEPT ![q] = IF Known(r) = {} THEN @ + 1 ELSE @]
      /\ UNCHANGED <<saved, hasPoll, votedTwice, crossed>>
  BY DEF CommitVote
<1>2. VoteCast(r) /\ (<<q, v>> \in votedTwice \/ Alone(r))
  BY <1>1 DEF PollsInv, BallotsRight, PollForm
<1>3. /\ q \in PollIds /\ v \in Voters
      /\ r.options \subseteq Options \union {NoOption}
      /\ ~pollRow[q].multiple => Cardinality(r.options) = 1
  BY <1>1, <1>2 DEF VoteCast
<1>4. /\ pollRow \in [PollIds -> PollRow \union {NoPoll, DeletedPoll}]
      /\ voted \in [PollIds -> [Voters -> Nat]]
      /\ pollRow[q] \in PollRow /\ blank \in [PollIds -> Nat]
  BY <1>1, <1>3, PollRowsThere DEF PollsInv, PollsTypeOK
<1>5. pollRow[q].votes \in [Options -> 0..MaxVotes]
  BY <1>4 DEF PollRow
<1>6. /\ more \in [Options -> 0..MaxVotes] /\ none \in Nat
      /\ Total(q) \in Nat /\ Cardinality(Counts(more, Options)) \in Nat
      /\ Cardinality(Counts(more, Options)) + none >= Total(q) + 1
      /\ ~pollRow[q].multiple => Cardinality(Counts(more, Options)) + none = Total(q) + 1
  <2>1. Known(r) \in SUBSET Options
    BY DEF Known
  <2>2. CASE Known(r) = {}
    <3>1. more = pollRow[q].votes
      BY <1>5, <2>2 DEF Counted
    <3>2. IsFiniteSet(Counts(pollRow[q].votes, Options))
      BY <1>5, CountsFinite DEF PollsAssumption
    <3>3. Cardinality(Counts(pollRow[q].votes, Options)) \in Nat
      BY <3>2, FS_CardinalityType
    <3>4. none = 1
      BY <2>2
    <3> HIDE DEF more, none
    <3> QED BY <1>5, <3>1, <3>3, <3>4 DEF Total
  <2>3. CASE Known(r) # {}
    <3>1. ~pollRow[q].multiple => Cardinality(Known(r)) = 1
      <4> SUFFICES ASSUME ~pollRow[q].multiple
                   PROVE  Cardinality(Known(r)) = 1
        OBVIOUS
      <4>1. IsFiniteSet(r.options)
        <5>1. IsFiniteSet(Options \union {NoOption})
          BY FS_AddElement DEF PollsAssumption
        <5> QED BY <1>3, <5>1, FS_Subset
      <4>2. \A o, u \in r.options : o = u
        BY <1>3, <4>1, FS_Singleton
      <4>3. PICK o \in Known(r) : TRUE
        BY <2>3
      <4>4. Known(r) = {o}
        BY <4>2, <4>3 DEF Known
      <4> QED BY <4>4, FS_Singleton
    <3>2. none = 0
      BY <2>3
    <3>3. /\ more \in [Options -> 0..MaxVotes]
          /\ Total(q) \in Nat /\ Cardinality(Counts(more, Options)) \in Nat
          /\ Cardinality(Counts(more, Options)) >= Total(q) + 1
          /\ Cardinality(Known(r)) = 1 => Cardinality(Counts(more, Options)) = Total(q) + 1
      BY <1>1, <1>5, <2>1, <2>3, VoteCounts DEF Total
    <3> HIDE DEF more, none
    <3> QED BY <3>1, <3>2, <3>3
  <2> QED BY <2>2, <2>3
<1>0. blank' \in [PollIds -> Nat] /\ blank'[q] = blank[q] + none
      /\ \A p \in PollIds : p # q => blank'[p] = blank[p]
  BY <1>1, <1>3, <1>4
<1> HIDE DEF q, v, more, none
<1>7. /\ pollRow'[q] = [pollRow[q] EXCEPT !.votes = more]
      /\ \A p \in PollIds : p # q => pollRow'[p] = pollRow[p]
  BY <1>1, <1>3, <1>4
<1>8. /\ pollRow'[q] \in PollRow
      /\ pollRow'[q].votes = more /\ pollRow'[q].bound = pollRow[q].bound
      /\ pollRow'[q].multiple = pollRow[q].multiple
  BY <1>4, <1>6, <1>7 DEF PollRow
<1>9. /\ voted' \in [PollIds -> [Voters -> Nat]]
      /\ \A p \in PollIds : p # q => voted'[p] = voted[p]
      /\ \A u \in Voters : voted'[q][u] = IF u = v THEN voted[q][u] + 1 ELSE voted[q][u]
  BY <1>1, <1>3, <1>4
<1>10. \A p \in PollIds : PollThere(p)' <=> PollThere(p)
  <2>1. PollThere(q)'
    BY <1>8, PollRowsThere DEF PollThere
  <2>2. \A p \in PollIds : p # q => (PollThere(p)' <=> PollThere(p))
    BY <1>7 DEF PollThere
  <2> QED BY <1>1, <2>1, <2>2 DEF q
<1>11. Bound' = Bound /\ \A p : OtherPolls(p)' = OtherPolls(p)
  BY <1>7, <1>8, <1>10 DEF Bound, OtherPolls
<1>12. PollsTypeOK'
  <2>1. \A p \in PollIds : pollRow'[p] \in PollRow \union {NoPoll, DeletedPoll}
    BY <1>4, <1>7, <1>8
  <2>2. pollRow' \in [PollIds -> PollRow \union {NoPoll, DeletedPoll}]
    BY <1>1, <1>4, <2>1
  <2> QED BY <1>0, <1>1, <1>9, <2>2 DEF PollsInv, PollsTypeOK
<1>13. BallotsRight'
  <2>1. ASSUME NEW s \in ballots', s.kind = "vote", Alone(s)
        PROVE  voted'[s.poll][s.voter] = 0
    <3>1. s \in ballots /\ s # r
      BY <1>1
    <3>2. s.poll \in PollIds /\ s.voter \in Voters
      BY <2>1, <3>1 DEF PollsInv, BallotsRight, PollForm, VoteCast
    <3>3. ~(s.poll = q /\ s.voter = v)
      BY <1>1, <2>1, <3>1 DEF Alone, q, v
    <3>4. voted[s.poll][s.voter] = 0
      BY <2>1 DEF Alone
    <3> QED BY <1>9, <3>2, <3>3, <3>4
  <2>2. \A p \in PollIds : pollRow[p] # NoPoll =>
          /\ pollRow'[p] # NoPoll
          /\ PollThere(p)' => PollThere(p) /\ pollRow'[p].multiple = pollRow[p].multiple
    BY <1>7, <1>8, <1>10, PollRowsThere
  <2> QED BY <1>1, <2>1, <2>2, BallotsKeep
<1>14. VotersCounted'
  <2>1. ASSUME NEW p \in PollIds, p # q
        PROVE  Total(p)' = Total(p) /\ Voted(p)' = Voted(p)
    BY <1>7, <1>9, <2>1 DEF Total, Voted
  <2>2. /\ IsFiniteSet(Counts(voted[q], Voters)) /\ voted[q] \in [Voters -> Nat]
        /\ voted'[q] \in [Voters -> Nat]
    BY <1>3, <1>4, <1>9 DEF PollsInv, VotersCounted
  <2>3. IsFiniteSet(Counts(voted'[q], Voters)) /\ Voted(q)' = Voted(q) + 1 /\ Voted(q) \in Nat
    <3>1. Voted(q) \in Nat
      BY <2>2, FS_CardinalityType DEF Voted
    <3>2. /\ IsFiniteSet(Counts(voted'[q], Voters))
          /\ Cardinality(Counts(voted'[q], Voters)) = Cardinality(Counts(voted[q], Voters)) + 1
      BY <1>3, <1>9, <2>2, CountsOneMore
    <3> QED BY <3>1, <3>2 DEF Voted
  <2>4. Total(q)' = Cardinality(Counts(more, Options))
    BY <1>8 DEF Total
  <2>5. /\ Total(q) + blank[q] >= Voted(q)
        /\ ~pollRow[q].multiple => Total(q) + blank[q] = Voted(q)
    BY <1>1, <1>3 DEF PollsInv, VotersCounted, q
  <2>a. blank[q] \in Nat
    BY <1>3, <1>4
  <2>6. /\ Total(q)' + blank'[q] >= Voted(q)'
        /\ ~pollRow'[q].multiple => Total(q)' + blank'[q] = Voted(q)'
    BY <1>0, <1>6, <1>8, <2>a, <2>3, <2>4, <2>5
  <2>7. ASSUME NEW u \in Voters, <<q, u>> \notin votedTwice
        PROVE  voted'[q][u] <= 1
    <3>1. CASE u = v
      <4>1. voted[q][v] = 0
        BY <1>2, <2>7, <3>1 DEF Alone, q, v
      <4> QED BY <1>9, <3>1, <4>1
    <3>2. CASE u # v
      BY <1>3, <1>9, <2>7, <3>2 DEF PollsInv, VotersCounted
    <3> QED BY <3>1, <3>2
  <2>8. PollThere(q)'
    BY <1>1, <1>3, <1>10 DEF q
  <2> SUFFICES ASSUME NEW p \in PollIds
               PROVE  /\ IsFiniteSet(Counts(voted'[p], Voters))
                      /\ ~PollThere(p)' => blank'[p] = 0
                      /\ \A u \in Voters : /\ ~PollThere(p)' => voted'[p][u] = 0
                                           /\ <<p, u>> \notin votedTwice' => voted'[p][u] <= 1
                      /\ PollThere(p)' =>
                           /\ Total(p)' + blank'[p] >= Voted(p)'
                           /\ ~pollRow'[p].multiple => Total(p)' + blank'[p] = Voted(p)'
    BY DEF VotersCounted
  <2>9. CASE p = q
    BY <1>1, <2>3, <2>6, <2>7, <2>8, <2>9
  <2>10. CASE p # q
    BY <1>0, <1>1, <1>7, <1>9, <1>10, <2>1, <2>10 DEF PollsInv, VotersCounted
  <2> QED BY <2>9, <2>10
<1>15. OneForm'
  <2>1. Forms' \subseteq Forms
    BY <1>1 DEF Forms
  <2>2. \A s \in Forms : FormRight(s) => FormRight(s)'
    <3>1. \A s \in Forms : PollForm(s)
      BY DEF PollsInv, BallotsRight, VoteCast, Forms
    <3> QED BY <1>1, <1>10, <1>11, <3>1 DEF FormRight, PollForm
  <2> QED BY <1>1, <2>1, <2>2 DEF PollsInv, OneForm
<1> QED BY <1>1, <1>11, <1>12, <1>13, <1>14, <1>15 DEF PollsInv, HasPollIsTrue

LEMMA PollsNextKeeps == PollsAssumption /\ PollsInv /\ [PollsNext]_pollVars => PollsInv'
<1> SUFFICES ASSUME PollsAssumption, PollsInv, [PollsNext]_pollVars
             PROVE  PollsInv'
  OBVIOUS
<1>1. ASSUME NEW q \in PollIds, AddPoll(q) \/ DeletePoll(q) \/ Close(q)
      PROVE  PollsInv'
  BY <1>1, AddPollKeeps, DeletePollKeeps, ClosePollKeeps
<1>2. ASSUME NEW added \in SUBSET PollIds, Send(added)
      PROVE  PollsInv'
  BY <1>2, SendKeeps
<1>3. ASSUME NEW q \in PollIds, NEW v \in Voters, Vote(q, v)
      PROVE  PollsInv'
  BY <1>3, VoteKeeps
<1>4. ASSUME NEW r \in ballots, CommitForm(r)
      PROVE  PollsInv'
  <2>1. r.kind = "delete" \/ r.kind = "send"
    BY <1>4 DEF CommitForm
  <2> QED BY <1>4, <2>1, CommitDeletionKeeps, CommitSendKeeps
<1>5. ASSUME NEW r \in ballots, CommitVote(r) \/ RollbackPoll(r)
      PROVE  PollsInv'
  BY <1>5, CommitVoteKeeps, RollbackPollKeeps
<1>6. CASE UNCHANGED pollVars
  BY <1>6 DEF pollVars, PollsInv, PollsTypeOK, BallotsRight, PollForm, VoteCast, Alone,
              VotersCounted, OneForm, FormRight, Forms, HasPollIsTrue, Bound, OtherPolls,
              PollThere, Total, Voted
<1> QED BY <1>1, <1>2, <1>3, <1>4, <1>5, <1>6 DEF PollsNext

LEMMA PollsStart == PollsAssumption /\ PollsInit => PollsInv
<1> SUFFICES ASSUME PollsAssumption, PollsInit
             PROVE  PollsInv
  OBVIOUS
<1>1. PollsTypeOK /\ saved \in BOOLEAN /\ crossed \in BOOLEAN
  BY DEF PollsInit, PollsTypeOK
<1>2. \A q \in PollIds : ~PollThere(q)
  BY DEF PollsInit, PollThere
<1>3. BallotsRight /\ OneForm
  BY DEF PollsInit, BallotsRight, OneForm, Forms
<1>4. VotersCounted
  <2>1. \A q \in PollIds : blank[q] = 0 /\ \A v \in Voters : voted[q][v] = 0
    BY DEF PollsInit
  <2>2. \A q \in PollIds : IsFiniteSet(Counts(voted[q], Voters))
    BY <2>1, CountsNothing
  <2> QED BY <1>2, <2>1, <2>2 DEF VotersCounted
<1>5. HasPollIsTrue
  BY <1>2 DEF HasPollIsTrue, Bound, PollsInit
<1> QED BY <1>1, <1>3, <1>4, <1>5 DEF PollsInv

(* The strengthened invariant of the polls (edit and viewtopic in          *)
(* forum/views.py).                                                        *)
THEOREM PollsInvariant == PollsAssumption /\ PollsSpec => []PollsInv
<1> SUFFICES ASSUME PollsAssumption PROVE PollsSpec => []PollsInv
  OBVIOUS
<1>1. PollsInit => PollsInv
  BY PollsStart
<1>2. PollsInv /\ [PollsNext]_pollVars => PollsInv'
  BY PollsNextKeeps
<1>3. QED
  BY <1>1, <1>2, PTL DEF PollsSpec

(* A voter counts once, what a poll shows are the votes of its voters,     *)
(* except of those who named no option of it, and has_poll says whether    *)
(* the topic has polls: for any polls, options and voters and any number   *)
(* of requests.                                                            *)
THEOREM PollsAreTrueHolds == PollsAssumption /\ PollsSpec => []PollsAreTrue
<1>1. PollsInv => PollsAreTrue
  BY DEF PollsInv, VotersCounted, PollsAreTrue, OneVoteEach
<1>2. QED
  BY <1>1, PollsInvariant, PTL

-----------------------------------------------------------------------------
(* The pages of the topic lists: what was read or stored of them is of the  *)
(* rows as they are, unless the history says that a change went past.       *)

\* What is under way: the topic that a post is written to is there, and is the one of
\* the change.
WriterRight ==
    /\ writer # Idle /\ writer.at \in {"post", "commit"} => TopicThere(writer.topic)
    /\ writer # Idle /\ writer.at = "delete" /\ writer.next # Idle => TopicThere(writer.next.topic)

\* A page of a forum is shown as it is, of what was read.
PageTrue(f, page) ==
    /\ page.ids \intersect Of(f) = OnPage(ListPage, Of(f))
    /\ page.total = Cardinality(Of(f))
ReadTrue == \A f \in fresh : Reading(f) => PageTrue(f, reader)
StoredTrue == \A f \in fresh : stored[f] # NoEntry /\ ~DeletingPage(f) => PageTrue(f, stored[f])

\* Only rows that were there are stored for the feed, and nothing is later than now.
FeedRight ==
    \A f \in ListForums : latest[f] # NoEntry =>
      /\ latest[f].at <= now
      /\ \A t \in latest[f].ids : topics[t] # NoEntry

PagesInv == PagesTypeOK /\ WriterRight /\ ReadTrue /\ StoredTrue /\ FeedRight /\ FeedWasVisible

LEMMA PageRows ==
    ASSUME PagesAssumption, PagesTypeOK
    PROVE  /\ \A t \in ListTopics : TopicThere(t) <=> topics[t] \in TopicRow
           /\ \A row \in TopicRow : row # NoEntry /\ row # GoneTopic
           /\ \A f \in ListForums : stored[f] # NoEntry => stored[f] \in PageEntry
           /\ \A f \in ListForums : latest[f] # NoEntry => latest[f] \in LatestIds
           /\ \A page \in PageEntry : page # NoEntry
           /\ \A ids \in LatestIds : ids # NoEntry
BY DEF PagesAssumption, PagesTypeOK, TopicThere

\* The rows of a forum, and with them its pages, are what they were.
Untouched(f) == Of(f)' = Of(f) /\ \A t \in Of(f) : topics'[t] = topics[t]

LEMMA UntouchedPage ==
    ASSUME NEW f, Untouched(f)
    PROVE  Of(f)' = Of(f) /\ OnPage(ListPage, Of(f))' = OnPage(ListPage, Of(f))
<1> DEFINE here == Of(f)
<1>1. here' = here /\ \A t \in here : topics'[t] = topics[t]
  BY DEF Untouched
<1> HIDE DEF here
<1>2. \A t, u \in here : Before(t, u)' <=> Before(t, u)
  BY <1>1 DEF Before
<1>3. \A t \in here : {u \in here' : Before(u, t)'} = {u \in here : Before(u, t)}
  BY <1>1, <1>2
<1>4. \A t \in here : Rank(t, here)' = Rank(t, here)
  BY <1>3 DEF Rank
<1>5. OnPage(ListPage, here)' = OnPage(ListPage, here)
  BY <1>1, <1>4 DEF OnPage
<1> QED BY <1>1, <1>5 DEF here

\* A step that reads nothing and stores nothing: what stays fresh was fresh, and what is
\* known of it is of rows that stay.
LEMMA PagesKept ==
    ASSUME ReadTrue, StoredTrue, reader' = reader,
           \A f \in fresh' : Reading(f) => f \in fresh /\ Untouched(f),
           \A f \in fresh' : stored'[f] # NoEntry /\ ~DeletingPage(f)' =>
               /\ f \in fresh /\ Untouched(f)
               /\ stored'[f] = stored[f] /\ ~DeletingPage(f)
    PROVE  ReadTrue' /\ StoredTrue'
<1>1. ReadTrue'
  <2> SUFFICES ASSUME NEW f \in fresh', Reading(f)'
               PROVE  PageTrue(f, reader)'
    BY DEF ReadTrue
  <2>1. Reading(f) /\ f \in fresh /\ Untouched(f)
    BY DEF Reading
  <2>2. PageTrue(f, reader)
    BY <2>1 DEF ReadTrue
  <2>3. Of(f)' = Of(f) /\ OnPage(ListPage, Of(f))' = OnPage(ListPage, Of(f))
    BY <2>1, UntouchedPage
  <2> QED BY <2>2, <2>3 DEF PageTrue
<1>2. StoredTrue'
  <2> SUFFICES ASSUME NEW f \in fresh', stored'[f] # NoEntry, ~DeletingPage(f)'
               PROVE  PageTrue(f, stored[f])'
    BY DEF StoredTrue
  <2>1. /\ f \in fresh /\ Untouched(f)
        /\ stored'[f] = stored[f] /\ ~DeletingPage(f)
    OBVIOUS
  <2>2. PageTrue(f, stored[f])
    BY <2>1 DEF StoredTrue
  <2>3. Of(f)' = Of(f) /\ OnPage(ListPage, Of(f))' = OnPage(ListPage, Of(f))
    BY <2>1, UntouchedPage
  <2> QED BY <2>1, <2>2, <2>3 DEF PageTrue
<1> QED BY <1>1, <1>2

\* Rows that are not written to.
LEMMA RowsKeptUntouched ==
    ASSUME topics' = topics
    PROVE  \A f : Untouched(f)
BY DEF Untouched, Of, TopicThere

\* One row is written to, and the forums it is in before or after are deleted next, or are
\* no longer fresh, or have nothing that could be stale.
LEMMA ChangeKeepsPages ==
    ASSUME PagesInv, writer = Idle, NEW t \in ListTopics,
           \A u \in ListTopics : u # t => topics'[u] = topics[u],
           stored' = stored, reader' = reader,
           NEW forums \in SUBSET ListForums, NEW next, NEW spoilt, ThenDelete(forums, next, spoilt),
           \A f \in ListForums : t \in Of(f) \/ t \in Of(f)' =>
               f \in forums \/ f \in spoilt \/ ~Unnoticed(f)
    PROVE  ReadTrue' /\ StoredTrue'
<1>1. /\ fresh' = fresh \ ({f \in forums : Reading(f)} \union spoilt)
      /\ \A f : DeletingPage(f)' => f \in forums
      /\ \A f \in forums : writer' # Idle => DeletingPage(f)'
  BY DEF ThenDelete, DeletingPage
<1>2. writer' # Idle
  <2>1. writer'.at = "delete"
    BY DEF ThenDelete
  <2> QED BY <2>1 DEF Idle
<1>3. \A f : ~DeletingPage(f)
  BY DEF DeletingPage
<1>4. fresh \subseteq ListForums
  BY DEF PagesInv, PagesTypeOK
<1>5. ASSUME NEW f \in fresh', Unnoticed(f), f \notin forums
      PROVE  Untouched(f)
  <2>1. t \notin Of(f) /\ t \notin Of(f)'
    BY <1>1, <1>4, <1>5
  <2>2. \A u \in ListTopics : u \in Of(f) \/ u \in Of(f)' => topics'[u] = topics[u]
    BY <2>1
  <2>3. \A u \in ListTopics : u \in Of(f) <=> u \in Of(f)'
    BY <2>2 DEF Of, TopicThere
  <2> QED BY <2>2, <2>3 DEF Untouched, Of
<1>6. \A f \in fresh' : Reading(f) => f \in fresh /\ Untouched(f)
  BY <1>1, <1>5 DEF Unnoticed
<1>7. \A f \in fresh' : stored'[f] # NoEntry /\ ~DeletingPage(f)' =>
        /\ f \in fresh /\ Untouched(f)
        /\ stored'[f] = stored[f] /\ ~DeletingPage(f)
  BY <1>1, <1>2, <1>3, <1>5 DEF Unnoticed
<1> QED BY <1>6, <1>7, PagesKept DEF PagesInv

\* What is cached for the feed stays or goes, and a row is as it was, or was hidden or
\* moved just now.
LEMMA FeedKept ==
    ASSUME PagesTypeOK, FeedRight, FeedWasVisible, now' \in Nat, now' >= now,
           \A f \in ListForums : latest'[f] # NoEntry => latest'[f] = latest[f],
           \A t \in ListTopics : topics[t] # NoEntry => topics'[t] # NoEntry,
           \A t \in ListTopics : topics[t] # NoEntry /\ TopicThere(t)' =>
               /\ TopicThere(t)
               /\ \/ topics'[t].changed = now
                  \/ /\ topics'[t].hidden = topics[t].hidden /\ topics'[t].forum = topics[t].forum
                     /\ topics'[t].changed = topics[t].changed
    PROVE  FeedRight' /\ FeedWasVisible'
<1>1. ASSUME NEW f \in ListForums, latest'[f] # NoEntry
      PROVE  /\ latest'[f] = latest[f] /\ latest[f] \in LatestIds
             /\ latest[f].at \in Nat /\ latest[f].at <= now
             /\ \A t \in latest[f].ids : t \in ListTopics /\ topics[t] # NoEntry
  BY <1>1 DEF FeedRight, PagesTypeOK, LatestIds
<1>2. now \in Nat
  BY DEF PagesTypeOK
<1>3. FeedRight'
  <2> SUFFICES ASSUME NEW f \in ListForums, latest'[f] # NoEntry
               PROVE  latest'[f].at <= now' /\ \A t \in latest'[f].ids : topics'[t] # NoEntry
    BY DEF FeedRight
  <2> QED BY <1>1, <1>2
<1>4. FeedWasVisible'
  <2> SUFFICES ASSUME NEW f \in ListForums, latest'[f] # NoEntry, NEW t \in ShownLatest(f)',
                      topics'[t].hidden \/ topics'[t].forum # f
               PROVE  topics'[t].changed >= latest'[f].at
    BY DEF FeedWasVisible
  <2>1. t \in latest[f].ids /\ TopicThere(t)' /\ t \in ListTopics /\ topics[t] # NoEntry
    BY <1>1 DEF ShownLatest
  <2>2. CASE topics'[t].changed = now
    BY <1>1, <1>2, <2>2
  <2>3. CASE /\ topics'[t].hidden = topics[t].hidden /\ topics'[t].forum = topics[t].forum
             /\ topics'[t].changed = topics[t].changed
    <3>1. t \in ShownLatest(f)
      BY <2>1 DEF ShownLatest
    <3>2. topics[t].changed >= latest[f].at
      BY <1>1, <2>3, <3>1 DEF FeedWasVisible
    <3> QED BY <1>1, <2>3, <3>2
  <2> QED BY <2>1, <2>2, <2>3
<1> QED BY <1>3, <1>4

-----------------------------------------------------------------------------
(* The steps of the lists.                                                  *)

LEMMA TickKeepsPages == ASSUME PagesAssumption, PagesInv, Tick PROVE PagesInv'
<1>1. /\ now' = now + 1 /\ now \in Nat
      /\ UNCHANGED <<writes, topics, writer, reader>>
      /\ fresh' = fresh \union {f \in ListForums : stored'[f] = NoEntry /\ ~Reading(f)}
  BY DEF Tick, PagesInv, PagesTypeOK
<1>2. /\ stored' \in [ListForums -> PageEntry \union {NoEntry}]
      /\ latest' \in [ListForums -> LatestIds \union {NoEntry}]
      /\ \A f \in ListForums : stored'[f] # NoEntry => stored'[f] = stored[f]
      /\ \A f \in ListForums : latest'[f] # NoEntry => latest'[f] = latest[f]
  BY DEF Tick, Left, PagesInv, PagesTypeOK
<1>3. PagesTypeOK'
  BY <1>1, <1>2 DEF PagesInv, PagesTypeOK
<1>4. WriterRight'
  BY <1>1 DEF PagesInv, WriterRight, TopicThere
<1>5. ReadTrue' /\ StoredTrue'
  <2>1. \A f : DeletingPage(f)' <=> DeletingPage(f)
    BY <1>1 DEF DeletingPage
  <2>2. \A f \in fresh' : f \in ListForums
    BY <1>3 DEF PagesTypeOK
  <2> QED BY <1>1, <1>2, <2>1, <2>2, RowsKeptUntouched, PagesKept DEF PagesInv
<1>6. FeedRight' /\ FeedWasVisible'
  BY <1>1, <1>2, FeedKept DEF PagesInv, TopicThere
<1> QED BY <1>3, <1>4, <1>5, <1>6 DEF PagesInv

LEMMA DeletePagesKeeps == ASSUME PagesAssumption, PagesInv, DeletePages PROVE PagesInv'
<1>1. /\ writer.at = "delete" /\ writer # Idle /\ writer' = writer.next
      /\ stored' = [f \in ListForums |-> IF f \in writer.forums THEN NoEntry ELSE stored[f]]
      /\ fresh' = fresh \union {f \in writer.forums : ~Reading(f)}
      /\ UNCHANGED <<now, writes, topics, latest, reader>>
  BY DEF DeletePages, Idle
<1>2. writer.forums \subseteq ListForums
  BY <1>1 DEF PagesInv, PagesTypeOK, Idle
<1>3. writer' = Idle \/ writer' \in [at : {"post"}, topic : ListTopics]
  BY <1>1 DEF PagesInv, PagesTypeOK, Idle
<1>4. stored' \in [ListForums -> PageEntry \union {NoEntry}]
  BY <1>1 DEF PagesInv, PagesTypeOK
<1>5. PagesTypeOK'
  <2>1. fresh' \subseteq ListForums
    BY <1>1, <1>2 DEF PagesInv, PagesTypeOK
  <2>2. writer' = Idle \/ writer' \in [at : {"post", "commit"}, topic : ListTopics]
    BY <1>3
  <2> QED BY <1>1, <1>4, <2>1, <2>2 DEF PagesInv, PagesTypeOK
<1>6. WriterRight'
  <2>1. writer' # Idle => TopicThere(writer'.topic)
    BY <1>1 DEF PagesInv, WriterRight
  <2>2. writer' # Idle => writer'.at = "post"
    BY <1>3
  <2>3. \A t : TopicThere(t)' <=> TopicThere(t)
    BY <1>1 DEF TopicThere
  <2> QED BY <2>1, <2>2, <2>3 DEF WriterRight
<1>7. ReadTrue' /\ StoredTrue'
  <2>1. \A f \in fresh' : Reading(f) => f \in fresh
    BY <1>1
  <2>2. \A f \in fresh' : stored'[f] # NoEntry =>
          f \in fresh /\ stored'[f] = stored[f] /\ ~DeletingPage(f)
    <3> SUFFICES ASSUME NEW f \in fresh', stored'[f] # NoEntry
                 PROVE  f \in fresh /\ stored'[f] = stored[f] /\ ~DeletingPage(f)
      OBVIOUS
    <3>1. f \in ListForums
      BY <1>5 DEF PagesTypeOK
    <3>2. f \notin writer.forums
      BY <1>1, <3>1
    <3> QED BY <1>1, <3>1, <3>2 DEF DeletingPage
  <2>3. ReadTrue /\ StoredTrue /\ reader' = reader /\ topics' = topics
    BY <1>1 DEF PagesInv
  <2> QED BY <2>1, <2>2, <2>3, RowsKeptUntouched, PagesKept
<1>8. FeedRight' /\ FeedWasVisible'
  <2>1. now \in Nat /\ PagesTypeOK /\ FeedRight /\ FeedWasVisible
    BY DEF PagesInv, PagesTypeOK
  <2> QED BY <1>1, <2>1, FeedKept DEF TopicThere
<1> QED BY <1>5, <1>6, <1>7, <1>8 DEF PagesInv

\* A change of one row, whose page is deleted next: of a topic that begins, or of one that
\* stays as it is for the feed, or that is hidden, moved or gone from now on.
Changes(t, row, forums, spoilt, next) ==
    /\ writer = Idle /\ topics[t] # GoneTopic
    /\ row \in TopicRow \/ row = GoneTopic
    /\ Commit([topics EXCEPT ![t] = row]) /\ ThenDelete(forums, next, spoilt)
    /\ forums \subseteq ListForums
    /\ next = Idle \/ (next = [at |-> "post", topic |-> t] /\ row \in TopicRow)
    /\ row \in TopicRow => row.forum \in forums
    /\ topics[t] \in TopicRow => \/ topics[t].forum \in forums \/ topics[t].forum \in spoilt
                                 \/ ~Unnoticed(topics[t].forum)
    /\ topics[t] \in TopicRow /\ row \in TopicRow =>
         \/ row.changed = now
         \/ /\ row.hidden = topics[t].hidden /\ row.forum = topics[t].forum
            /\ row.changed = topics[t].changed

LEMMA ListChangeKeeps ==
    ASSUME PagesAssumption, PagesInv, NEW t \in ListTopics,
           NEW row, NEW forums, NEW spoilt, NEW next, Changes(t, row, forums, spoilt, next)
    PROVE  PagesInv'
<1>1. /\ writes' = writes + 1 /\ topics' = [topics EXCEPT ![t] = row]
      /\ UNCHANGED <<now, stored, latest, reader>>
  BY DEF Changes, Commit
<1>2. /\ writer' = [at |-> "delete", forums |-> forums, next |-> next]
      /\ fresh' \subseteq fresh
  BY DEF Changes, ThenDelete
<1>3. /\ topics \in [ListTopics -> TopicRow \union {NoEntry, GoneTopic}]
      /\ topics'[t] = row /\ \A u \in ListTopics : u # t => topics'[u] = topics[u]
  BY <1>1 DEF PagesInv, PagesTypeOK
<1>4. \A w \in TopicRow : w # NoEntry /\ w # GoneTopic
  BY PageRows DEF PagesInv
<1>5. TopicThere(t) <=> topics[t] \in TopicRow
  BY <1>3, <1>4 DEF TopicThere, Changes
<1>6. TopicThere(t)' <=> row \in TopicRow
  BY <1>3, <1>4 DEF TopicThere, Changes
<1>7. writer'.at = "delete" /\ writer'.forums = forums /\ writer'.next = next
  BY <1>2
<1>8. PagesTypeOK'
  <2>1. topics' \in [ListTopics -> TopicRow \union {NoEntry, GoneTopic}]
    BY <1>1, <1>3 DEF Changes
  <2>2. next = Idle \/ next \in [at : {"post"}, topic : ListTopics]
    BY DEF Changes
  <2>3. forums \subseteq ListForums
    BY DEF Changes
  <2> QED BY <1>1, <1>2, <1>7, <2>1, <2>2, <2>3 DEF PagesInv, PagesTypeOK
<1>9. WriterRight'
  <2>1. next # Idle => TopicThere(next.topic)'
    BY <1>6 DEF Changes
  <2> QED BY <1>7, <2>1 DEF WriterRight
<1>10. ReadTrue' /\ StoredTrue'
  <2>1. ASSUME NEW f \in ListForums, t \in Of(f)
        PROVE  f \in forums \/ f \in spoilt \/ ~Unnoticed(f)
    BY <1>5, <2>1 DEF Of, Changes
  <2>2. ASSUME NEW f \in ListForums, t \in Of(f)'
        PROVE  f \in forums
    BY <1>3, <1>6, <2>2 DEF Of, Changes
  <2>3. /\ writer = Idle /\ forums \in SUBSET ListForums
        /\ ThenDelete(forums, next, spoilt)
    BY DEF Changes
  <2> QED BY <1>1, <1>3, <2>1, <2>2, <2>3, ChangeKeepsPages
<1>11. FeedRight' /\ FeedWasVisible'
  <2>1. ASSUME NEW u \in ListTopics, topics[u] # NoEntry
        PROVE  topics'[u] # NoEntry
    BY <1>3, <1>4, <2>1 DEF PagesAssumption, Changes
  <2>2. ASSUME NEW u \in ListTopics, topics[u] # NoEntry, TopicThere(u)'
        PROVE  /\ TopicThere(u)
               /\ \/ topics'[u].changed = now
                  \/ /\ topics'[u].hidden = topics[u].hidden
                     /\ topics'[u].forum = topics[u].forum
                     /\ topics'[u].changed = topics[u].changed
    <3>1. CASE u = t
      BY <1>3, <1>5, <1>6, <2>2, <3>1 DEF TopicThere, Changes
    <3>2. CASE u # t
      BY <1>3, <2>2, <3>2 DEF TopicThere
    <3> QED BY <3>1, <3>2
  <2>3. now \in Nat /\ PagesTypeOK /\ FeedRight /\ FeedWasVisible
    BY DEF PagesInv, PagesTypeOK
  <2> QED BY <1>1, <2>1, <2>2, <2>3, FeedKept
<1> QED BY <1>8, <1>9, <1>10, <1>11 DEF PagesInv

LEMMA NewTopicKeeps ==
    ASSUME PagesAssumption, PagesInv, NEW t \in ListTopics, NEW f \in ListForums, NewTopic(t, f)
    PROVE  PagesInv'
<1>1. Row(f, 0) \in TopicRow /\ Row(f, 0).forum = f
  BY DEF Row, TopicRow
<1>2. Changes(t, Row(f, 0), {f}, {}, [at |-> "post", topic |-> t])
  BY <1>1 DEF NewTopic, Changes, PagesAssumption
<1> QED BY <1>2, ListChangeKeeps

LEMMA StickKeeps ==
    ASSUME PagesAssumption, PagesInv, NEW t \in ListTopics, Stick(t)
    PROVE  PagesInv'
<1> DEFINE row == [topics[t] EXCEPT !.sticky = ~@]
<1>1. topics[t] \in TopicRow /\ topics[t] # GoneTopic
  BY PageRows DEF Stick, PagesInv
<1>2. /\ row \in TopicRow /\ row.forum = topics[t].forum /\ row.hidden = topics[t].hidden
      /\ row.changed = topics[t].changed /\ topics[t].forum \in ListForums
  BY <1>1 DEF TopicRow
<1>3. Commit([topics EXCEPT ![t] = row])
  BY DEF Stick
<1> HIDE DEF row
<1>4. Changes(t, row, {topics[t].forum}, {}, Idle)
  BY <1>1, <1>2, <1>3 DEF Stick, Changes
<1> QED BY <1>4, ListChangeKeeps

LEMMA HideKeeps ==
    ASSUME PagesAssumption, PagesInv, NEW t \in ListTopics, Hide(t)
    PROVE  PagesInv'
<1> DEFINE row == [topics[t] EXCEPT !.hidden = ~@, !.changed = now]
<1>1. topics[t] \in TopicRow /\ topics[t] # GoneTopic /\ now \in Nat
  BY PageRows DEF Hide, PagesInv, PagesTypeOK
<1>2. /\ row \in TopicRow /\ row.forum = topics[t].forum /\ row.changed = now
      /\ topics[t].forum \in ListForums
  BY <1>1 DEF TopicRow
<1>3. Commit([topics EXCEPT ![t] = row])
  <2>1. [topics EXCEPT ![t].hidden = ~@, ![t].changed = now] = [topics EXCEPT ![t] = row]
    BY <1>1 DEF PagesInv, PagesTypeOK
  <2> QED BY <2>1 DEF Hide
<1> HIDE DEF row
<1>4. Changes(t, row, {topics[t].forum}, {}, Idle)
  BY <1>1, <1>2, <1>3 DEF Hide, Changes
<1> QED BY <1>4, ListChangeKeeps

LEMMA DeleteTopicKeeps ==
    ASSUME PagesAssumption, PagesInv, NEW t \in ListTopics, Delete(t)
    PROVE  PagesInv'
<1>1. topics[t] \in TopicRow /\ topics[t] # GoneTopic
  BY PageRows DEF Delete, PagesInv
<1>2. topics[t].forum \in ListForums
  BY <1>1 DEF TopicRow
<1>3. Changes(t, GoneTopic, {topics[t].forum}, {}, Idle)
  BY <1>1, <1>2 DEF Delete, Changes, PagesAssumption
<1> QED BY <1>3, ListChangeKeeps

LEMMA MoveTopicKeeps ==
    ASSUME PagesAssumption, PagesInv, NEW t \in ListTopics, NEW g \in ListForums, MoveTopic(t, g)
    PROVE  PagesInv'
<1> DEFINE row == [topics[t] EXCEPT !.forum = g, !.changed = now]
           spoilt == {f \in {topics[t].forum} : Unnoticed(f)}
<1>1. topics[t] \in TopicRow /\ topics[t] # GoneTopic /\ now \in Nat
  BY PageRows DEF MoveTopic, PagesInv, PagesTypeOK
<1>2. row \in TopicRow /\ row.forum = g /\ row.changed = now
  BY <1>1 DEF TopicRow
<1>3. Commit([topics EXCEPT ![t] = row])
  <2>1. [topics EXCEPT ![t].forum = g, ![t].changed = now] = [topics EXCEPT ![t] = row]
    BY <1>1 DEF PagesInv, PagesTypeOK
  <2> QED BY <2>1 DEF MoveTopic
<1>4. /\ topics[t].forum \in spoilt \/ ~Unnoticed(topics[t].forum)
      /\ writer = Idle /\ ThenDelete({g}, Idle, spoilt)
  BY DEF MoveTopic
<1> HIDE DEF row, spoilt
<1>5. Changes(t, row, {g}, spoilt, Idle)
  BY <1>1, <1>2, <1>3, <1>4 DEF Changes
<1> QED BY <1>5, ListChangeKeeps

LEMMA ReplyKeeps ==
    ASSUME PagesAssumption, PagesInv, NEW t \in ListTopics, Reply(t)
    PROVE  PagesInv'
<1>1. /\ writer = Idle /\ TopicThere(t) /\ writer' = [at |-> "post", topic |-> t]
      /\ UNCHANGED <<now, writes, topics, stored, latest, reader, fresh>>
  BY DEF Reply
<1>2. PagesTypeOK'
  <2>1. writer' \in [at : {"post", "commit"}, topic : ListTopics]
    BY <1>1
  <2> QED BY <1>1, <2>1 DEF PagesInv, PagesTypeOK
<1>3. WriterRight'
  BY <1>1 DEF WriterRight, TopicThere
<1>4. ReadTrue' /\ StoredTrue'
  <2>1. \A f : ~DeletingPage(f)
    BY <1>1 DEF DeletingPage
  <2> QED BY <1>1, <2>1, RowsKeptUntouched, PagesKept DEF PagesInv
<1>5. FeedRight' /\ FeedWasVisible'
  <2>1. now \in Nat /\ PagesTypeOK /\ FeedRight /\ FeedWasVisible
    BY DEF PagesInv, PagesTypeOK
  <2> QED BY <1>1, <2>1, FeedKept DEF TopicThere
<1> QED BY <1>2, <1>3, <1>4, <1>5 DEF PagesInv

\* A post is written to a topic that is there.
LEMMA PostedTo ==
    ASSUME PagesAssumption, PagesInv, writer.at \in {"post", "commit"}
    PROVE  /\ writer \in [at : {"post", "commit"}, topic : ListTopics]
           /\ writer.topic \in ListTopics /\ topics[writer.topic] \in TopicRow
           /\ topics[writer.topic].forum \in ListForums
           /\ \A f : ~DeletingPage(f)
<1>1. writer # Idle /\ writer.at # "delete"
  BY DEF Idle
<1>2. writer \in [at : {"post", "commit"}, topic : ListTopics]
  BY <1>1 DEF PagesInv, PagesTypeOK
<1>3. writer.topic \in ListTopics
  BY <1>2
<1>4. topics[writer.topic] \in TopicRow
  BY <1>1, <1>3, PageRows DEF PagesInv, WriterRight
<1> QED BY <1>1, <1>2, <1>3, <1>4 DEF TopicRow, DeletingPage

LEMMA InsertPostKeeps == ASSUME PagesAssumption, PagesInv, InsertPost PROVE PagesInv'
<1> DEFINE g == topics[writer.topic].forum
<1>1. /\ writer.at = "post"
      /\ stored' = [stored EXCEPT ![g] = NoEntry]
      /\ writer' = [writer EXCEPT !.at = "commit"]
      /\ fresh' = fresh \union {f \in {g} : ~Reading(f)}
      /\ UNCHANGED <<now, writes, topics, latest, reader>>
  BY DEF InsertPost
<1>2. /\ writer \in [at : {"post", "commit"}, topic : ListTopics]
      /\ g \in ListForums /\ \A f : ~DeletingPage(f)
      /\ TopicThere(writer.topic)
  BY <1>1, PostedTo, PageRows DEF PagesInv
<1>3. stored \in [ListForums -> PageEntry \union {NoEntry}]
  BY DEF PagesInv, PagesTypeOK
<1> HIDE DEF g
<1>4. /\ writer' \in [at : {"post", "commit"}, topic : ListTopics]
      /\ writer'.topic = writer.topic /\ writer'.at = "commit"
  BY <1>1, <1>2
<1>5. PagesTypeOK'
  BY <1>1, <1>2, <1>3, <1>4 DEF PagesInv, PagesTypeOK
<1>6. WriterRight'
  BY <1>1, <1>2, <1>4 DEF WriterRight, TopicThere
<1>7. ReadTrue' /\ StoredTrue'
  <2>1. \A f \in fresh' : Reading(f) => f \in fresh
    BY <1>1
  <2>2. \A f \in fresh' : stored'[f] # NoEntry => f \in fresh /\ stored'[f] = stored[f]
    <3>1. \A f \in fresh' : f \in ListForums
      BY <1>5 DEF PagesTypeOK
    <3> QED BY <1>1, <1>2, <1>3, <3>1
  <2>3. ReadTrue /\ StoredTrue /\ reader' = reader /\ topics' = topics
    BY <1>1 DEF PagesInv
  <2> QED BY <1>2, <2>1, <2>2, <2>3, RowsKeptUntouched, PagesKept
<1>8. FeedRight' /\ FeedWasVisible'
  <2>1. now \in Nat /\ PagesTypeOK /\ FeedRight /\ FeedWasVisible
    BY DEF PagesInv, PagesTypeOK
  <2> QED BY <1>1, <2>1, FeedKept DEF TopicThere
<1> QED BY <1>5, <1>6, <1>7, <1>8 DEF PagesInv

\* The page was deleted before the commit: whoever has read it since has not seen the post.
LEMMA CommitPostKeeps == ASSUME PagesAssumption, PagesInv, CommitPost PROVE PagesInv'
<1> DEFINE t == writer.topic
           row == [topics[t] EXCEPT !.last = writes + 1]
<1>1. /\ writer.at = "commit" /\ writer' = Idle
      /\ writes' = writes + 1 /\ topics' = [topics EXCEPT ![t].last = writes + 1]
      /\ fresh' = fresh \ {f \in {topics[t].forum} : Unnoticed(f)}
      /\ UNCHANGED <<now, stored, latest, reader>>
  BY DEF CommitPost, Commit
<1>2. /\ t \in ListTopics /\ topics[t] \in TopicRow /\ \A f : ~DeletingPage(f)
  BY <1>1, PostedTo
<1>3. /\ topics \in [ListTopics -> TopicRow \union {NoEntry, GoneTopic}] /\ writes \in Nat
      /\ \A w \in TopicRow : w # NoEntry /\ w # GoneTopic
  BY PageRows DEF PagesInv, PagesTypeOK
<1>4. topics' = [topics EXCEPT ![t] = row]
  BY <1>1
<1>5. /\ row \in TopicRow /\ row.forum = topics[t].forum /\ row.hidden = topics[t].hidden
      /\ row.changed = topics[t].changed
  BY <1>2, <1>3 DEF TopicRow
<1> HIDE DEF t, row
<1>6. topics'[t] = row /\ \A u \in ListTopics : u # t => topics'[u] = topics[u]
  BY <1>2, <1>3, <1>4
<1>7. PagesTypeOK'
  <2>1. topics' \in [ListTopics -> TopicRow \union {NoEntry, GoneTopic}]
    BY <1>3, <1>4, <1>5
  <2> QED BY <1>1, <1>3, <2>1 DEF PagesInv, PagesTypeOK
<1>8. WriterRight'
  BY <1>1 DEF WriterRight
<1>9. \A u \in ListTopics : TopicThere(u)' <=> TopicThere(u)
  BY <1>2, <1>3, <1>5, <1>6 DEF TopicThere
<1>10. ReadTrue' /\ StoredTrue'
  <2>1. ASSUME NEW f, f # topics[t].forum
        PROVE  Untouched(f)
    <3>1. Of(f)' = Of(f) /\ t \notin Of(f)
      BY <1>5, <1>6, <1>9, <2>1 DEF Of
    <3> QED BY <1>6, <3>1 DEF Untouched, Of
  <2>2. \A f \in fresh' : f \in fresh /\ (f = topics[t].forum => ~Unnoticed(f))
    BY <1>1
  <2>3. ReadTrue /\ StoredTrue
    BY DEF PagesInv
  <2> QED BY <1>1, <1>2, <2>1, <2>2, <2>3, PagesKept DEF Unnoticed
<1>11. FeedRight' /\ FeedWasVisible'
  <2>1. now \in Nat /\ PagesTypeOK /\ FeedRight /\ FeedWasVisible
    BY DEF PagesInv, PagesTypeOK
  <2>2. \A u \in ListTopics : topics[u] # NoEntry => topics'[u] # NoEntry
    BY <1>3, <1>5, <1>6
  <2>3. \A u \in ListTopics :
          /\ topics'[u].hidden = topics[u].hidden /\ topics'[u].forum = topics[u].forum
          /\ topics'[u].changed = topics[u].changed
    BY <1>5, <1>6
  <2> QED BY <1>1, <1>9, <2>1, <2>2, <2>3, FeedKept
<1> QED BY <1>7, <1>8, <1>10, <1>11 DEF PagesInv

\* What a reader asks for, he finds as it is.
LEMMA OfFinite ==
    ASSUME PagesAssumption, NEW f
    PROVE  /\ Of(f) \subseteq ListTopics /\ OnPage(ListPage, Of(f)) \subseteq Of(f)
           /\ Cardinality(Of(f)) \in Nat
<1>1. Of(f) \subseteq ListTopics
  BY DEF Of
<1>2. Cardinality(Of(f)) \in Nat
  BY <1>1, FS_Subset, FS_CardinalityType DEF PagesAssumption
<1> QED BY <1>1, <1>2 DEF OnPage

LEMMA AskPageKeeps ==
    ASSUME PagesAssumption, PagesInv, NEW f \in ListForums, AskPage(f)
    PROVE  PagesInv'
<1>1. /\ reader' = [forum |-> f, ids |-> OnPage(ListPage, Of(f)), total |-> Cardinality(Of(f))]
      /\ UNCHANGED <<now, writes, topics, stored, latest, writer, fresh>>
  BY DEF AskPage
<1>2. reader' \in [forum : ListForums, ids : SUBSET ListTopics, total : Nat]
  BY <1>1, OfFinite
<1>3. PagesTypeOK'
  BY <1>1, <1>2 DEF PagesInv, PagesTypeOK
<1>4. \A g : Untouched(g)
  BY <1>1, RowsKeptUntouched
<1>5. ReadTrue'
  <2> SUFFICES ASSUME NEW g \in fresh', Reading(g)'
               PROVE  PageTrue(g, reader)'
    BY DEF ReadTrue
  <2>1. /\ g = f /\ reader'.ids = OnPage(ListPage, Of(f)) /\ reader'.total = Cardinality(Of(f))
    BY <1>1 DEF Reading
  <2>2. Of(f)' = Of(f) /\ OnPage(ListPage, Of(f))' = OnPage(ListPage, Of(f)) /\ OnPage(ListPage, Of(f)) \subseteq Of(f)
    BY <1>4, UntouchedPage, OfFinite
  <2> QED BY <2>1, <2>2 DEF PageTrue
<1>6. StoredTrue'
  <2> SUFFICES ASSUME NEW g \in fresh', stored'[g] # NoEntry, ~DeletingPage(g)'
               PROVE  PageTrue(g, stored[g])'
    BY DEF StoredTrue
  <2>1. PageTrue(g, stored[g])
    BY <1>1 DEF PagesInv, StoredTrue, DeletingPage
  <2>2. Of(g)' = Of(g) /\ OnPage(ListPage, Of(g))' = OnPage(ListPage, Of(g))
    BY <1>4, UntouchedPage
  <2> QED BY <1>1, <2>1, <2>2 DEF PageTrue
<1>7. WriterRight'
  BY <1>1 DEF PagesInv, WriterRight, TopicThere
<1>8. FeedRight' /\ FeedWasVisible'
  <2>1. now \in Nat /\ PagesTypeOK /\ FeedRight /\ FeedWasVisible
    BY DEF PagesInv, PagesTypeOK
  <2> QED BY <1>1, <2>1, FeedKept DEF TopicThere
<1> QED BY <1>3, <1>5, <1>6, <1>7, <1>8 DEF PagesInv

LEMMA StorePageKeeps == ASSUME PagesAssumption, PagesInv, StorePage PROVE PagesInv'
<1> DEFINE g == reader.forum
           page == [ids |-> reader.ids, total |-> reader.total, at |-> now]
<1>1. /\ reader # Idle /\ stored' = [stored EXCEPT ![g] = page] /\ reader' = Idle
      /\ UNCHANGED <<now, writes, topics, latest, writer, fresh>>
  BY DEF StorePage
<1>2. reader \in [forum : ListForums, ids : SUBSET ListTopics, total : Nat]
  BY <1>1 DEF PagesInv, PagesTypeOK
<1>3. /\ g \in ListForums /\ page.ids = reader.ids /\ page.total = reader.total
      /\ page \in PageEntry
  BY <1>2 DEF PageEntry, PagesInv, PagesTypeOK
<1>4. stored \in [ListForums -> PageEntry \union {NoEntry}]
  BY DEF PagesInv, PagesTypeOK
<1> HIDE DEF page
<1>5. PagesTypeOK'
  <2>1. stored' \in [ListForums -> PageEntry \union {NoEntry}]
    BY <1>1, <1>3, <1>4
  <2> QED BY <1>1, <2>1 DEF PagesInv, PagesTypeOK
<1>6. \A f : Untouched(f)
  BY <1>1, RowsKeptUntouched
<1>7. ReadTrue'
  BY <1>1 DEF ReadTrue, Reading
<1>8. StoredTrue'
  <2> SUFFICES ASSUME NEW f \in fresh', stored'[f] # NoEntry, ~DeletingPage(f)'
               PROVE  PageTrue(f, stored[f])'
    BY DEF StoredTrue
  <2>1. f \in fresh /\ ~DeletingPage(f) /\ f \in ListForums
    BY <1>1 DEF DeletingPage, PagesInv, PagesTypeOK
  <2>2. Of(f)' = Of(f) /\ OnPage(ListPage, Of(f))' = OnPage(ListPage, Of(f))
    BY <1>6, UntouchedPage
  <2>3. CASE f = g
    <3>1. stored'[f].ids = reader.ids /\ stored'[f].total = reader.total
      BY <1>1, <1>3, <1>4, <2>3
    <3>2. PageTrue(f, reader)
      BY <1>1, <2>1, <2>3 DEF PagesInv, ReadTrue, Reading
    <3> QED BY <2>2, <3>1, <3>2 DEF PageTrue
  <2>4. CASE f # g
    <3>1. stored'[f] = stored[f]
      BY <1>1, <1>4, <2>1, <2>4
    <3>2. PageTrue(f, stored[f])
      BY <2>1, <3>1 DEF PagesInv, StoredTrue
    <3> QED BY <2>2, <3>1, <3>2 DEF PageTrue
  <2> QED BY <2>3, <2>4
<1>9. WriterRight'
  BY <1>1 DEF PagesInv, WriterRight, TopicThere
<1>10. FeedRight' /\ FeedWasVisible'
  <2>1. now \in Nat /\ PagesTypeOK /\ FeedRight /\ FeedWasVisible
    BY DEF PagesInv, PagesTypeOK
  <2> QED BY <1>1, <2>1, FeedKept DEF TopicThere
<1> QED BY <1>5, <1>7, <1>8, <1>9, <1>10 DEF PagesInv

LEMMA StoreLatestKeeps ==
    ASSUME PagesAssumption, PagesInv, NEW f \in ListForums, StoreLatest(f)
    PROVE  PagesInv'
<1> DEFINE visible == {t \in Of(f) : ~topics[t].hidden}
           ids == {t \in visible : Rank(t, visible) < Newest}
<1>1. /\ latest' = [latest EXCEPT ![f] = [ids |-> ids, at |-> now]]
      /\ UNCHANGED <<now, writes, topics, stored, writer, reader, fresh>>
  BY DEF StoreLatest
<1>2. /\ now \in Nat /\ latest \in [ListForums -> LatestIds \union {NoEntry}]
  BY DEF PagesInv, PagesTypeOK
<1>3. ids \subseteq visible /\ visible \subseteq Of(f) /\ \A t \in visible : ~topics[t].hidden
  OBVIOUS
<1> HIDE DEF ids, visible
<1>4. \A t \in ids : /\ t \in ListTopics /\ TopicThere(t)
                     /\ ~topics[t].hidden /\ topics[t].forum = f
  BY <1>3 DEF Of
<1>5. [ids |-> ids, at |-> now] \in LatestIds
  BY <1>2, <1>4 DEF LatestIds
<1>6. /\ latest'[f].ids = ids /\ latest'[f].at = now
      /\ \A g \in ListForums : g # f => latest'[g] = latest[g]
  BY <1>1, <1>2
<1>7. PagesTypeOK'
  <2>1. latest' \in [ListForums -> LatestIds \union {NoEntry}]
    BY <1>1, <1>2, <1>5
  <2> QED BY <1>1, <2>1 DEF PagesInv, PagesTypeOK
<1>8. WriterRight'
  BY <1>1 DEF PagesInv, WriterRight, TopicThere
<1>9. ReadTrue' /\ StoredTrue'
  <2>1. \A g : DeletingPage(g)' <=> DeletingPage(g)
    BY <1>1 DEF DeletingPage
  <2> QED BY <1>1, <2>1, RowsKeptUntouched, PagesKept DEF PagesInv
<1>10. FeedRight'
  <2> SUFFICES ASSUME NEW g \in ListForums, latest'[g] # NoEntry
               PROVE  latest'[g].at <= now' /\ \A t \in latest'[g].ids : topics'[t] # NoEntry
    BY DEF FeedRight
  <2>1. CASE g = f
    BY <1>1, <1>2, <1>4, <1>6, <2>1 DEF TopicThere
  <2>2. CASE g # f
    BY <1>1, <1>6, <2>2 DEF PagesInv, FeedRight
  <2> QED BY <2>1, <2>2
<1>11. FeedWasVisible'
  <2> SUFFICES ASSUME NEW g \in ListForums, latest'[g] # NoEntry, NEW t \in ShownLatest(g)',
                      topics'[t].hidden \/ topics'[t].forum # g
               PROVE  topics'[t].changed >= latest'[g].at
    BY DEF FeedWasVisible
  <2>1. CASE g = f
    BY <1>1, <1>4, <1>6, <2>1 DEF ShownLatest
  <2>2. CASE g # f
    <3>1. t \in ShownLatest(g) /\ latest'[g] = latest[g] /\ topics' = topics
      BY <1>1, <1>6, <2>2 DEF ShownLatest, TopicThere
    <3> QED BY <3>1 DEF PagesInv, FeedWasVisible
  <2> QED BY <2>1, <2>2
<1> QED BY <1>7, <1>8, <1>9, <1>10, <1>11 DEF PagesInv

LEMMA ListsInitInv == ASSUME PagesAssumption, ListsInit PROVE PagesInv
<1>1. PICK t \in ListTopics, f \in ListForums :
        topics = [u \in ListTopics |-> IF u = t THEN Row(f, 1) ELSE NoEntry]
  BY DEF ListsInit
<1>2. /\ now = 0 /\ writes = 1 /\ fresh = ListForums
      /\ stored = [g \in ListForums |-> NoEntry] /\ latest = [g \in ListForums |-> NoEntry]
      /\ writer = Idle /\ reader = Idle
  BY DEF ListsInit
<1>3. Row(f, 1) \in TopicRow
  BY DEF Row, TopicRow
<1>4. PagesTypeOK
  BY <1>1, <1>2, <1>3 DEF PagesTypeOK
<1>5. WriterRight /\ ReadTrue
  BY <1>2 DEF WriterRight, ReadTrue, Reading
<1>6. StoredTrue /\ FeedRight /\ FeedWasVisible
  BY <1>2 DEF StoredTrue, FeedRight, FeedWasVisible
<1> QED BY <1>4, <1>5, <1>6 DEF PagesInv

LEMMA ListsStutter == ASSUME PagesInv, UNCHANGED listsVars PROVE PagesInv'
<1>1. UNCHANGED <<now, writes, topics, stored, latest, writer, reader, fresh>>
  BY DEF listsVars
<1>2. PagesTypeOK' /\ WriterRight'
  BY <1>1 DEF PagesInv, PagesTypeOK, WriterRight, TopicThere
<1>3. ReadTrue' /\ StoredTrue'
  <2>1. \A f : DeletingPage(f)' <=> DeletingPage(f)
    BY <1>1 DEF DeletingPage
  <2> QED BY <1>1, <2>1, RowsKeptUntouched, PagesKept DEF PagesInv
<1>4. FeedRight' /\ FeedWasVisible'
  <2>1. now \in Nat /\ PagesTypeOK /\ FeedRight /\ FeedWasVisible
    BY DEF PagesInv, PagesTypeOK
  <2> QED BY <1>1, <2>1, FeedKept DEF TopicThere
<1> QED BY <1>2, <1>3, <1>4 DEF PagesInv

(* The lists of topics: what is cached of a page, or on its way            *)
(* there, is of the rows as they are, unless a change went past it         *)
(* unnoticed; and nothing that the feed shows was stored while it was      *)
(* hidden or elsewhere.                                                    *)
THEOREM ListsInvariant == PagesAssumption /\ ListsSpec => []PagesInv
<1> SUFFICES ASSUME PagesAssumption PROVE ListsSpec => []PagesInv
  OBVIOUS
<1>1. ListsInit => PagesInv
  BY ListsInitInv
<1>2. PagesInv /\ [ListsNext]_listsVars => PagesInv'
  <2> SUFFICES ASSUME PagesInv, [ListsNext]_listsVars PROVE PagesInv'
    OBVIOUS
  <2>1. CASE Tick
    BY <2>1, TickKeepsPages
  <2>2. CASE ChangeTopics
    BY <2>2, DeletePagesKeeps, InsertPostKeeps, CommitPostKeeps, ReplyKeeps, StickKeeps,
       HideKeeps, DeleteTopicKeeps, NewTopicKeeps, MoveTopicKeeps DEF ChangeTopics
  <2>3. CASE StorePage
    BY <2>3, StorePageKeeps
  <2>4. CASE \E f \in ListForums : AskPage(f) \/ StoreLatest(f)
    BY <2>4, AskPageKeeps, StoreLatestKeeps
  <2>5. CASE UNCHANGED listsVars
    BY <2>5, ListsStutter
  <2> QED BY <2>1, <2>2, <2>3, <2>4, <2>5 DEF ListsNext
<1> QED BY <1>1, <1>2, PTL DEF ListsSpec

(* The topic lists show what they should: a cached page of a forum has the *)
(* topics that the pages around it leave out, and counts them all,         *)
(* and the feed shows a topic that was hidden or moved only from before    *)
(* that: Forum.invalidate_topic_cache, forum(), Forum.get_latest_topics.   *)
THEOREM TopicPagesHolds == PagesAssumption /\ ListsSpec => []TopicPagesTrue
<1>1. PagesInv => TopicPagesTrue
  BY DEF PagesInv, TopicPagesTrue, CachedPageTrue, StoredTrue, PageTrue, ShownPage
<1> QED BY <1>1, ListsInvariant, PTL
=============================================================================
