----------------------------- MODULE PostEdits -----------------------------
(***************************************************************************)
(* A post after it has been written: edits and the revisions they leave,   *)
(* the rendering stored with it, and the flags of the post and its topic   *)
(* (forum/models.py, forum/views.py, forum/services.py).                   *)
(*                                                                         *)
(* A request reads its rows in one step and commits in another.  The       *)
(* session writes the columns it has changed and no others.                *)
(***************************************************************************)
EXTENDS Naturals, Sequences, FiniteSets, SequencesExt

CONSTANTS Texts, Nothing,
          MaxRevs, MaxEdits   \* bounds: revisions kept, requests at a time

\* What the constants have to be.
EditsAssumption == Nothing \notin Texts \union SeqOf(Texts, 2)

VARIABLES postRow,  \* [text, rendered, revised, hidden]
          revs,     \* the post's revisions, oldest first
          topicRow, \* [locked, hidden]; solved is asked for nowhere
          own,      \* the author may still edit: FORUM_OWNPOST_EDIT_LIMIT
          edits,    \* requests that have read and not committed
          ever,     \* history: the texts the post has had
          dropped,  \* history: revisions deleted by restoring what is shown already
          blended   \* history: two requests changed text or rendering at a time

editVars == <<postRow, revs, topicRow, own, edits, ever, dropped, blended>>

EditsInit == /\ \E t \in Texts, rendered \in BOOLEAN :
                  /\ postRow = [text |-> t, rendered |-> IF rendered THEN t ELSE Nothing,
                             revised |-> FALSE, hidden |-> FALSE]
                  /\ ever = {t}
             /\ revs = <<>>
             /\ topicRow = [locked |-> FALSE, hidden |-> FALSE]
             /\ own = TRUE
             /\ edits = {} /\ dropped = {} /\ blended = FALSE

Moderators == {"moderator"}
People == {"author"} \union Moderators

\* edit() refuses authors of locked, hidden or old posts.
MayEdit(u) == \/ u \in Moderators
              \/ own /\ ~topicRow.locked /\ ~topicRow.hidden /\ ~postRow.hidden

BeginEdit(r) ==
  /\ Cardinality(edits) < MaxEdits
  /\ edits' = edits \union {r}
  /\ blended' = (blended \/ edits # {})
  /\ UNCHANGED <<postRow, revs, topicRow, own, ever, dropped>>

-----------------------------------------------------------------------------
(* Text, revisions and rendering                                            *)

\* Post.edit: nothing for the text it has already; otherwise a first revision
\* with the text so far, if there is none yet, and one with the new text.
FirstRevision(text, revised) == IF revised THEN <<>> ELSE <<text>>

NewRevisions(text) ==
  IF text = postRow.text THEN <<>> ELSE Append(FirstRevision(postRow.text, postRow.revised), text)

Edit(u, text) ==
  /\ MayEdit(u)
  /\ BeginEdit([text |-> text, add |-> NewRevisions(text), remove |-> Nothing])

\* PostRevision.restore edits the post, then deletes the revision it restored.
RestoreRevision(i) ==
  /\ i \in DOMAIN revs
  /\ BeginEdit([text |-> revs[i], add |-> NewRevisions(revs[i]), remove |-> revs[i]])

\* viewtopic renders a post that has no rendering, and so does render_posts.
RenderingKept(text) == IF postRow.rendered = Nothing THEN text ELSE postRow.rendered
Rendering(text) == text

ViewPost == /\ postRow.rendered = Nothing
            /\ BeginEdit([text |-> Rendering(postRow.text), add |-> Nothing, remove |-> Nothing])

\* What a request has changed is written; the commit of one that deletes a
\* revision another has deleted already fails.
CommitEdit(r) ==
  /\ edits' = edits \ {r}
  /\ r.remove # Nothing => r.remove \in Range(revs)
  /\ IF r.add = Nothing
     THEN /\ postRow' = [postRow EXCEPT !.rendered = r.text]
          /\ UNCHANGED <<revs, ever, dropped>>
     ELSE LET kept == IF r.remove = Nothing THEN revs
                      ELSE RemoveAt(revs, CHOOSE i \in DOMAIN revs : revs[i] = r.remove) IN
          /\ Len(kept) + Len(r.add) <= MaxRevs
          /\ revs' = kept \o r.add
          /\ postRow' = IF r.add = <<>> THEN postRow
                     ELSE [postRow EXCEPT !.text = r.text, !.rendered = Rendering(r.text),
                                       !.revised = TRUE]
          /\ ever' = ever \union {postRow'.text}
          /\ dropped' = IF r.remove # Nothing /\ r.add = <<>>
                        THEN dropped \union {r.remove} ELSE dropped
  /\ blended' = (blended /\ (edits' # {} \/ postRow'.rendered # postRow'.text))
  /\ UNCHANGED <<topicRow, own>>

Rollback(r) == /\ edits' = edits \ {r}
               /\ UNCHANGED <<postRow, revs, topicRow, own, ever, dropped, blended>>

-----------------------------------------------------------------------------
(* Flags                                                                    *)

\* delete_post with "hide" (never the first post) and restore_post
HidePost == /\ postRow' = [postRow EXCEPT !.hidden = ~@]
            /\ UNCHANGED <<revs, topicRow, own, edits, ever, dropped, blended>>

\* delete_topic with "hide", restore_topic and change_status
ChangeStatus(flag) == /\ topicRow' = [topicRow EXCEPT ![flag] = ~@]
                      /\ UNCHANGED <<postRow, revs, own, edits, ever, dropped, blended>>

\* check_ownpost_limit: the time is over.
LimitPasses == /\ own /\ own' = FALSE
               /\ UNCHANGED <<postRow, revs, topicRow, edits, ever, dropped, blended>>

EditsNext == \/ \E u \in People, text \in Texts : Edit(u, text)
             \/ \E i \in 1..MaxRevs : RestoreRevision(i)
             \/ ViewPost
             \/ \E r \in edits : CommitEdit(r) \/ Rollback(r)
             \/ HidePost \/ LimitPasses
             \/ \E flag \in {"locked", "hidden"} : ChangeStatus(flag)

EditsSpec == EditsInit /\ [][EditsNext]_editVars

-----------------------------------------------------------------------------

EditsTypeOK == /\ postRow.text \in Texts /\ postRow.rendered \in Texts \union {Nothing}
               /\ revs \in SeqOf(Texts, MaxRevs)
               /\ \A r \in edits : r.text \in Texts

\* Every text a post has ever had is the current one or kept in a revision,
\* whichever edits and restorations overlap, save those whose revision was
\* deleted by restoring it while the post already had its text.
TextKept == ever \subseteq {postRow.text} \union Range(revs) \union dropped

\* The rendering stored with a post is that of its text, unless a view that was
\* filling it in overlapped an edit.
RenderedIsText == ~blended => postRow.rendered \in {Nothing, postRow.text}

\* Every text a post has had can be restored, and it is shown as it was last written,
\* with those exceptions.
PostsKept == TextKept /\ RenderedIsText

=============================================================================
