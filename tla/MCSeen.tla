------------------------------- MODULE MCSeen -------------------------------
(***************************************************************************)
(* What a reader has seen of what others write meanwhile: topics of the    *)
(* forum and the pages of their list; and the polls of a topic.  They      *)
(* share nothing that is modelled, so an initial state picks the one that  *)
(* moves; the others stay put.                                             *)
(***************************************************************************)
EXTENDS ReadStatus, Polls, TopicPages, TLC

CONSTANTS category, talk, sub, chat, t1, t2, t3,
          one, two

\* A category with a forum, a subforum in it and a second forum.
MCParent == [f \in Forums |-> CASE f = category -> Null
                                [] f = sub      -> talk
                                [] OTHER        -> category]

ASSUME Trees /\ PollsAssumption /\ PagesAssumption

VARIABLE part

\* The lists begin as theirs do where they move, and empty elsewhere.
NoLists == /\ now = 0 /\ writes = 1 /\ topics = [t \in ListTopics |-> NoEntry]
           /\ stored = [f \in ListForums |-> NoEntry] /\ latest = [f \in ListForums |-> NoEntry]
           /\ writer = Idle /\ reader = Idle /\ fresh = ListForums

SeenInit == /\ part \in {"forum", "lists", "polls"}
            /\ Init
            /\ IF part = "lists" THEN ListsInit ELSE NoLists
            /\ PollsInit /\ (part # "polls" => saved)
            /\ asked = NoEntry /\ paged = <<>>

\* Bound: either a third topic is there, or topics are in the second forum.
ThirdTopicOrChat == (\A t \in Topics : at[t] # Null) => \A t \in Topics : at[t] # chat

ForumStep == part = "forum" /\ Next /\ ThirdTopicOrChat' /\ UNCHANGED <<part, listsVars, pollVars>>
ListStep == part = "lists" /\ ListsNext /\ UNCHANGED <<part, vars, pollVars>>
PollStep == part = "polls" /\ PollsNext /\ UNCHANGED <<part, vars, listsVars>>

SeenNext == (ForumStep \/ ListStep \/ PollStep) /\ UNCHANGED pagingVars

SeenSpec == SeenInit /\ [][SeenNext]_<<part, vars, listsVars, pagingVars, pollVars>>

\* The topics, and the forums of the lists.
SeenSymmetry == Permutations(Topics) \union Permutations({one, two})
=============================================================================
