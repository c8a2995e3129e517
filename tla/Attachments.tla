---------------------------- MODULE Attachments ----------------------------
(***************************************************************************)
(* The attachments of one post: rows of forum_attachment and the files     *)
(* they name (class Attachment in forum/models.py, edit in forum/views.py, *)
(* scripts/clean_temp_dirs.py).                                            *)
(*                                                                         *)
(* Uploads lie under attachments/temp until the post is sent.  Rows change *)
(* when a request commits, files at once, and a request may end anywhere.  *)
(***************************************************************************)
EXTENDS Naturals, FiniteSets

CONSTANTS Uploads, None, Gone,
          MaxUploads   \* bound: requests that are sent or deleting at a time

\* What the constants have to be.
FilesAssumption == {None, Gone} \intersect {"temp", "post"} = {} /\ None # Gone

VARIABLES fileRow,  \* upload -> where its row says the file is; None before, Gone after
          disk,     \* <<upload, place>>: the files
          uploads,  \* requests under way
          broken,   \* history: uploads whose request ended between file and row
          cleaned   \* history: uploads that waited too long to be sent

fileVars == <<fileRow, disk, uploads, broken, cleaned>>

FilesInit == /\ fileRow = [a \in Uploads |-> None]
             /\ disk = {} /\ uploads = {} /\ broken = {} /\ cleaned = {}

Places == {"temp", "post"}
Has(a) == fileRow[a] \in Places
Unbound == {a \in Uploads : fileRow[a] = "temp"}

-----------------------------------------------------------------------------
(* The form                                                                 *)

\* create: the file is stored and its row committed.  With "override" the row
\* of the same name leaves the form; its file stays.
Upload(a, overridden) ==
  /\ fileRow[a] = None
  /\ overridden \subseteq {b \in Uploads : Has(b)} /\ Cardinality(overridden) <= 1
  /\ disk' = disk \union {<<a, "temp">>}
  /\ fileRow' = [b \in Uploads |-> IF b = a THEN "temp"
                               ELSE IF b \in overridden THEN Gone ELSE fileRow[b]]
  /\ UNCHANGED <<uploads, broken, cleaned>>

BeginFiles(r) == /\ Cardinality(uploads) < MaxUploads
                 /\ uploads' = uploads \union {r}
                 /\ UNCHANGED <<fileRow, disk, broken, cleaned>>

\* One request deletes one attachment; another binds what is unbound.
BeginDelete(a) == Has(a) /\ BeginFiles([kind |-> "delete", of |-> a, file |-> fileRow[a], done |-> {}])
BeginSend == Unbound # {} /\ BeginFiles([kind |-> "send", todo |-> Unbound, copied |-> {}, done |-> {}])

\* What a request has done to the files, its rows not being written yet.
Advance(r, s, files) == /\ uploads' = (uploads \ {r}) \union {s}
                        /\ disk' = files
                        /\ UNCHANGED <<fileRow, broken, cleaned>>

\* delete: the file the row named is removed, if it is still there.
RemoveFile(r) ==
  /\ r.kind = "delete" /\ r.done = {}
  /\ Advance(r, [r EXCEPT !.done = {r.of}], disk \ {<<r.of, r.file>>})

\* update_post_ids, row by row: the temporary file is copied and then removed.
CopyFile(r, a) ==
  /\ r.kind = "send" /\ a \in r.todo /\ r.copied \subseteq r.done
  /\ <<a, "temp">> \in disk
  /\ Advance(r, [r EXCEPT !.copied = @ \union {a}, !.todo = @ \ {a}],
             disk \union {<<a, "post">>})

RemoveTemp(r, a) ==
  /\ r.kind = "send" /\ a \in r.copied \ r.done
  /\ <<a, "temp">> \in disk
  /\ Advance(r, [r EXCEPT !.done = @ \union {a}], disk \ {<<a, "temp">>})

\* The UPDATE names rows that are unbound still.
NewPlaceForgotten(r, a) == IF r.kind = "delete" THEN Gone ELSE fileRow[a]
NewPlace(r, a) == IF r.kind = "delete" THEN Gone
                  ELSE IF fileRow[a] = "temp" THEN "post" ELSE fileRow[a]

CommitFiles(r) ==
  /\ r.done # {}
  /\ r.kind = "send" => r.todo = {} /\ r.copied = r.done
  /\ fileRow' = [a \in Uploads |-> IF a \in r.done THEN NewPlace(r, a) ELSE fileRow[a]]
  /\ uploads' = uploads \ {r}
  /\ UNCHANGED <<disk, broken, cleaned>>

\* A file is missing, or the process ends: the rows stay as they were.
Fail(r) == /\ uploads' = uploads \ {r}
           /\ broken' = broken \union r.done
           /\ UNCHANGED <<fileRow, disk, cleaned>>

-----------------------------------------------------------------------------
(* The rest of the system                                                   *)

\* clean_temp_dirs: temporary files more than a day old go, whoever needs them.
Clean(a) == /\ <<a, "temp">> \in disk
            /\ disk' = disk \ {<<a, "temp">>}
            /\ cleaned' = cleaned \union {a}
            /\ UNCHANGED <<fileRow, uploads, broken>>

\* Deleting the post deletes its attachments' rows, and no files.
DeleteRows == /\ \E a \in Uploads : fileRow[a] = "post"
              /\ fileRow' = [a \in Uploads |-> IF fileRow[a] = "post" THEN Gone ELSE fileRow[a]]
              /\ UNCHANGED <<disk, uploads, broken, cleaned>>

FilesNext == \/ \E a \in Uploads : \/ \E over \in SUBSET (Uploads \ {a}) : Upload(a, over)
                                   \/ BeginDelete(a) \/ Clean(a)
             \/ BeginSend \/ DeleteRows
             \/ \E r \in uploads : RemoveFile(r) \/ CommitFiles(r) \/ Fail(r)
             \/ \E r \in uploads, a \in Uploads : CopyFile(r, a) \/ RemoveTemp(r, a)

FilesSpec == FilesInit /\ [][FilesNext]_fileVars

-----------------------------------------------------------------------------

FilesTypeOK == /\ fileRow \in [Uploads -> Places \union {None, Gone}]
               /\ disk \subseteq Uploads \X Places
               /\ broken \subseteq Uploads /\ cleaned \subseteq Uploads

UnderWay == UNION {r.done : r \in uploads}

\* A row names a file that exists, whichever requests overlap, unless a request
\* ended between the file and the row or, before the post was sent, the clean up
\* came first.
FilesExist == \A a \in Uploads : Has(a) =>
                \/ <<a, fileRow[a]>> \in disk
                \/ a \in broken \union UnderWay
                \/ fileRow[a] = "temp" /\ a \in cleaned
=============================================================================
