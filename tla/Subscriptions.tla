--------------------------- MODULE Subscriptions ---------------------------
(***************************************************************************)
(* Mails about the replies to one topic: the subscriptions of its readers  *)
(* and the flag "notified" that keeps them from being mailed twice between *)
(* two visits (edit, viewtopic, subscribe_topic, unsubscribe_topic in      *)
(* forum/views.py, forum/services.py, usercp_subscriptions in              *)
(* portal/views.py).  The mails to those who subscribed to the author of a  *)
(* reply belong to other subscriptions and are not in it.                  *)
(*                                                                         *)
(* These views run in autocommit: every save of a subscription is at once  *)
(* visible, and one of a row deleted meanwhile inserts it again.           *)
(***************************************************************************)
EXTENDS Naturals, FiniteSets

CONSTANTS Readers, NoRow,
          MaxWritten, MaxReplies, MaxViews   \* bounds: posts, replies and views under way

\* What the constants have to be.
MailsAssumption == NoRow \notin BOOLEAN /\ MaxWritten \in Nat

VARIABLES posts,    \* replies written so far
          sub,      \* reader -> its column notified, or NoRow
          replies,  \* [post, read, todo]: replies still mailing
          views,    \* [user, posts, found]: visits under way
          news,     \* history: reader -> posts he is owed a mail or a visit for
          told,     \* history: reader -> news he was mailed about since his last visit
          twice,    \* history: readers mailed twice between two visits
          raced     \* history: readers whose flag changed while another request used it

mailVars == <<posts, sub, replies, views, news, told, twice, raced>>

MailsInit == /\ posts = 0
             /\ sub \in [Readers -> {NoRow, FALSE}]
             /\ replies = {} /\ views = {}
             /\ news = [u \in Readers |-> {}] /\ told = [u \in Readers |-> {}]
             /\ twice = {} /\ raced = {}

Subscribed(u) == sub[u] # NoRow

\* Requests that have read the row of u and will write it.
Holding(u) == \/ \E r \in replies : u \in r.todo
              \/ \E w \in views : w.user = u /\ w.found

-----------------------------------------------------------------------------
(* A reply: committed first, then the mails.                                *)

WriteReply == /\ posts < MaxWritten /\ Cardinality(replies) < MaxReplies
              /\ posts' = posts + 1
              /\ news' = [u \in Readers |-> IF Subscribed(u) THEN news[u] \union {posts'} ELSE news[u]]
              /\ replies' = replies \union {[post |-> posts', read |-> FALSE, todo |-> {}]}
              /\ UNCHANGED <<sub, views, told, twice, raced>>

\* The subscribers to be mailed are those with notified = False.
ToNotify == {u \in Readers : sub[u] = FALSE}

ReadSubscribers(r) ==
  /\ ~r.read
  /\ replies' = (replies \ {r}) \union {[r EXCEPT !.read = TRUE, !.todo = ToNotify]}
  /\ raced' = raced \union {u \in ToNotify : Holding(u)}
                    \union {w.user : w \in {w \in views : w.posts < r.post}}
  /\ UNCHANGED <<posts, sub, views, news, told, twice>>

Mail(u, post) == /\ told' = [told EXCEPT ![u] = @ \union {post}]
                 /\ twice' = IF told[u] # {} THEN twice \union {u} ELSE twice

\* One subscriber is mailed and his row saved as it was read, but notified.
Notify(r, u) ==
  /\ r.read /\ u \in r.todo
  /\ Mail(u, r.post)
  /\ sub' = [sub EXCEPT ![u] = TRUE]
  /\ replies' = (replies \ {r}) \union {[r EXCEPT !.todo = @ \ {u}]}
  /\ UNCHANGED <<posts, views, news, raced>>

\* The last mail is out, or sending one failed: the others get none.
EndReply(r) == /\ replies' = replies \ {r}
               /\ raced' = IF r.read THEN raced \union r.todo ELSE raced \union ToNotify
               /\ UNCHANGED <<posts, sub, views, news, told, twice>>

-----------------------------------------------------------------------------
(* A visit sees the posts there were when it began, and lets the reader be  *)
(* mailed again.                                                            *)

View(u) == /\ Cardinality(views) < MaxViews
           /\ \A w \in views : w.user # u
           /\ views' = views \union {[user |-> u, posts |-> posts, found |-> Subscribed(u)]}
           /\ raced' = IF Holding(u) THEN raced \union {u} ELSE raced
           /\ UNCHANGED <<posts, sub, replies, news, told, twice>>

FlagKept(u) == sub[u]
FlagReset(u) == FALSE

EndView(w) ==
  /\ views' = views \ {w}
  /\ sub' = IF w.found THEN [sub EXCEPT ![w.user] = FlagReset(w.user)] ELSE sub
  /\ news' = [news EXCEPT ![w.user] = {p \in @ : p > w.posts}]
  /\ told' = [told EXCEPT ![w.user] = {}]
  /\ twice' = twice \ {w.user}
  /\ raced' = IF /\ news'[w.user] = {} /\ (w.found \/ ~Subscribed(w.user))
                 /\ ~\E r \in replies : w.user \in r.todo
              THEN raced \ {w.user} ELSE raced \union {w.user}
  /\ UNCHANGED <<posts, replies>>

-----------------------------------------------------------------------------
(* Subscribing                                                              *)

Change(u, flag) ==
  /\ sub' = [sub EXCEPT ![u] = flag]
  /\ news' = [news EXCEPT ![u] = {}] /\ told' = [told EXCEPT ![u] = {}]
  /\ twice' = twice \ {u}
  /\ raced' = IF Holding(u) THEN raced \union {u} ELSE raced
  /\ UNCHANGED <<posts, replies, views>>

\* subscribe_topic, subscription_action, and edit for those who reply
Subscribe(u) == ~Subscribed(u) /\ Change(u, FALSE)

\* unsubscribe_topic, subscription_action, delete_list
Unsubscribe(u) == Subscribed(u) /\ Change(u, NoRow)

\* mark_read_list
MarkRead(u) == Subscribed(u) /\ Change(u, FALSE)

MailsNext == \/ WriteReply
             \/ \E r \in replies : ReadSubscribers(r) \/ EndReply(r)
             \/ \E r \in replies, u \in Readers : Notify(r, u)
             \/ \E u \in Readers : View(u) \/ Subscribe(u) \/ Unsubscribe(u) \/ MarkRead(u)
             \/ \E w \in views : EndView(w)

MailsSpec == MailsInit /\ [][MailsNext]_mailVars

-----------------------------------------------------------------------------

MailsTypeOK == /\ posts \in 0..MaxWritten
               /\ sub \in [Readers -> {NoRow, TRUE, FALSE}]
               /\ \A u \in Readers : news[u] \subseteq 1..posts /\ told[u] \subseteq 1..posts

\* A subscriber with new posts has been mailed since his last visit, or is about
\* to be, unless his requests overlapped a reply's mails or one of those failed.
RepliesTold ==
  \A u \in Readers : Subscribed(u) /\ news[u] # {} /\ u \notin raced =>
    \/ told[u] # {}
    \/ \E r \in replies : ~r.read \/ u \in r.todo

\* And not twice, with the same exceptions: one mail per topic and visit.
OneMailAVisit == twice \subseteq raced

\* Subscribers are told of replies, and once between two visits.
RepliesToldOnce == RepliesTold /\ OneMailAVisit

=============================================================================
