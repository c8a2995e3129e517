----------------------------- MODULE MCServices -----------------------------
(***************************************************************************)
(* What serves the components of the portal: the job that updates the      *)
(* search index and the searches in it, the jabber bot, and the rules that *)
(* say who may do what.  They share nothing that is modelled, so an        *)
(* initial state picks the one that moves; the others stay put.            *)
(***************************************************************************)
EXTENDS SearchQueue

CONSTANT None

ASSUME SearchQueueAssumption /\ BlockIsFlushed

VARIABLES part,
          bot, messages, sends, delivered, dropped, failures,
          table, open, date, found, dated, flushes, request, results, changes,
          grants, kept, form, edits, raced,
          owners, texts

ToOf(m) == IF m = "m1" THEN <<"j1", "j2">> ELSE <<"j1">>

J == INSTANCE JabberBot WITH
       Messages <- {"m1", "m2", "m3"}, To <- ToOf, Broken <- {"m3"}, AutoReload <- TRUE,
       MaxFailures <- 2, queue <- messages, call <- sends, lost <- dropped

\* Posts of three topics, one of them in a forum the user may not read, an article, a wiki
\* page and two entries of the planet, searched while documents go and get the oldest or
\* the newest date; and a search while the index is written again and again.
Doc(c, n, t) == [component |-> c, id |-> n, topic |-> t]
Hidden == Doc("f", 8, 3)
Documents == {Doc("f", 1, 1), Doc("f", 2, 1), Doc("f", 3, 2), Hidden, Doc("i", 5, 0),
              Doc("w", 4, 0), Doc("p", 6, 0), Doc("p", 7, 0)}
DateOf(d) == 2 + ((3 * d.id) % 8)
WeightOf(d) == (5 * d.id) % 8
F == INSTANCE Search WITH
       Docs <- Documents, Date <- DateOf, Weight <- WeightOf, Dates <- {1, 10}, Excluded <- {Hidden},
       PerPage <- 4, MaxChanges <- 2, MaxFlushes <- 1, index <- found
G == INSTANCE Search WITH
       Docs <- {Doc("f", 1, 1)}, Date <- DateOf, Weight <- WeightOf, Dates <- {}, Excluded <- {},
       PerPage <- 4, MaxChanges <- 0, MaxFlushes <- 9, index <- found

P == INSTANCE Privileges WITH
       Bits <- {2, 4, 8}, FormBits <- {2, 4}, Groups <- {"g", "h"}, Anonymous <- TRUE,
       MaxEdits <- 3, rows <- grants, cached <- kept

A == INSTANCE PageAccess WITH
       User <- "u", UserGroups <- {"@g"}, Pages <- {"p", "q"},
       Owned <- {[p |-> o, q |-> {}] : o \in {{}, {"@g"}}}, MaxLines <- 3,
       Words <- {{"all"}, {"read"}, {"-read", "edit"}, {"none", "read"}}

jabberVars == <<bot, messages, sends, delivered, dropped, failures>>
searchVars == <<table, open, date, found, dated, flushes, request, results, changes>>
rightVars == <<grants, kept, form, edits, raced, owners, texts>>
servicesVars == <<part, vars, jabberVars, searchVars, rightVars>>

ServicesInit ==
  /\ part \in {"queue", "jabber", "search", "retries", "privileges", "access"}
  /\ Init /\ J!Init
  /\ IF part = "retries" THEN G!Init ELSE F!Init
  /\ P!Init
  /\ A!Init /\ (part # "access" => owners.p = {})

Queueing(action) == part = "queue" /\ action
                    /\ UNCHANGED <<part, jabberVars, searchVars, rightVars>>
Sending(action) == part = "jabber" /\ action
                   /\ UNCHANGED <<part, vars, searchVars, rightVars>>
QueueStep == Queueing(Next)
JabberStep == Sending(J!Next)
SearchStep == /\ \/ part = "search" /\ F!Next
                 \/ part = "retries" /\ G!Next
              /\ UNCHANGED <<part, vars, jabberVars, rightVars>>
PrivilegeStep == part = "privileges" /\ P!Next
                 /\ UNCHANGED <<part, vars, jabberVars, searchVars, owners, texts>>
AccessStep == part = "access" /\ A!Next
              /\ UNCHANGED <<part, vars, jabberVars, searchVars,
                             grants, kept, form, edits, raced>>

ServicesNext == \/ QueueStep \/ JabberStep \/ SearchStep
                \/ PrivilegeStep \/ AccessStep

\* Requests and the search job go on, the bot goes on.
ServicesSpec == /\ ServicesInit /\ [][ServicesNext]_servicesVars
                /\ WF_servicesVars(Queueing(Commit)) /\ WF_servicesVars(Queueing(Job))
                /\ WF_servicesVars(Sending(J!Bot))

\* What send() returned True for reaches the jabber server, in every copy, unless
\* the connection broke; and every call of send() returns.
AcceptedArrives == J!AcceptedArrives

\* A search shows what it was asked for, once, in its order, and nothing the user may not
\* read; what it leaves out is explained.
SearchAnswers == F!SearchAnswers /\ G!SearchAnswers

\* Who may do what in a forum or with a page of the wiki is what the rows and the rules say.
RightsFollowRules == CASE part = "privileges" -> P!PrivilegesFollowRows /\ P!CopyHasOwnRow
                       [] part = "access" -> A!AccessDecided
                       [] OTHER -> TRUE
=============================================================================
