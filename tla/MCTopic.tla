------------------------------- MODULE MCTopic -------------------------------
(***************************************************************************)
(* The forum and what belongs to one of its topics: the text of a post,    *)
(* the attachments, the subscriptions; and how forums are found.  These    *)
(* share nothing that is modelled, so an initial state picks the one that  *)
(* moves; the others stay put.                                             *)
(***************************************************************************)
EXTENDS Forum, PostEdits, Attachments, Subscriptions, ForumTree, TLC

CONSTANTS category, talk, child, chat, alice, t1, t2, t3

\* A category with a forum, a subforum of it, and a forum whose posts do not count for
\* their authors; and rows as the cache may still hold them.
MCForums == {category, talk, child, chat}
MCParent == [f \in MCForums |-> CASE f = category -> Null
                                  [] f = child    -> talk
                                  [] OTHER        -> category]
MCOldRows == {[posts |-> 2, last |-> 1]}
MCUserCountPosts == {category, talk, child}

ASSUME EditsAssumption /\ FilesAssumption /\ MailsAssumption /\ TreeAssumption

VARIABLE part

forumVars == vars

TopicInit ==
  /\ part \in {"edit", "upload", "mail", "posts", "tree"}
  /\ EditsInit /\ (part # "edit" => postRow.text = t1 /\ postRow.rendered = Nothing)
  /\ FilesInit
  /\ MailsInit /\ (part # "mail" => \A u \in Readers : sub[u] = NoRow)
  /\ Init
  /\ TreeInit /\ (part # "tree" => forumRow[1].slug = "a")

EditStep == part = "edit" /\ EditsNext
            /\ UNCHANGED <<part, fileVars, mailVars, forumVars, treeVars>>
UploadStep == part = "upload" /\ FilesNext
              /\ UNCHANGED <<part, editVars, mailVars, forumVars, treeVars>>
MailStep == part = "mail" /\ MailsNext
            /\ UNCHANGED <<part, editVars, fileVars, forumVars, treeVars>>
PostsStep == part = "posts" /\ Next
             /\ UNCHANGED <<part, editVars, fileVars, mailVars, treeVars>>
TreeStep == part = "tree" /\ TreeNext
            /\ UNCHANGED <<part, editVars, fileVars, mailVars, forumVars>>

TopicNext == \/ EditStep \/ UploadStep \/ MailStep
             \/ PostsStep \/ TreeStep

TopicSpec == TopicInit /\ [][TopicNext]_<<part, editVars, fileVars, mailVars, forumVars, treeVars>>

Symmetry == Permutations(Texts)
=============================================================================
