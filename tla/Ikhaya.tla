------------------------------- MODULE Ikhaya -------------------------------
(***************************************************************************)
(* The news blog: articles, the cache their readers are served from,       *)
(* comments and subscriptions to articles (ikhaya/models.py, ikhaya/views.py  *)
(* and the article forms of admin/views.py).                               *)
(*                                                                         *)
(* A request is one database transaction.  One that saves an article row   *)
(* takes two steps: it runs on the row it has read and empties the cache,  *)
(* and it commits later; readers are served in between.  All other         *)
(* requests are single steps.                                              *)
(***************************************************************************)
EXTENDS Naturals, FiniteSets, Sequences

CONSTANTS Articles,      \* article ids; (pub_date, slug) of an article is its id
          Users,         \* users who read and comment
          Subscribers,   \* bound: those of them who ever subscribe
          Editors,       \* users with article_edit, comment_edit and article_read
          None, Gone,    \* no row yet, or no longer
          MaxText,       \* bound: versions of an article's text
          MaxComments,   \* bound: comments of an article
          MaxTx          \* bound: requests that run at a time

VARIABLES art,       \* article id -> row, or None
          comments,  \* article id -> its comments: the deleted column of each
          cached,    \* article id -> the copy under 'ikhaya/article/<date>/<slug>'
          forms,     \* <<article, checksum>> of every form an editor has opened
          tx,        \* requests that have run and not committed
          subs,      \* <<user, article>> -> the notified column, or None
          mailed,    \* <<user, article>> mailed since the user last looked
          unseen,    \* <<user, article>> with comments since the user looked
          raced,     \* history: articles used by a request while another ran
          uncleared, \* history: articles changed without emptying their cache key
          lost       \* history: articles with a text saved over unseen

news == <<art, cached, comments, tx, raced, uncleared, lost>>
told == <<subs, mailed, unseen>>
vars == <<news, forms, told>>

\* The columns that some property tells apart; "due" says that pub_date has
\* passed, "text" stands for subject, intro and text, which the checksum covers.
Row == [public : BOOLEAN, due : BOOLEAN, text : 1..MaxText,
        count : 0..MaxComments, commentable : BOOLEAN]

\* What the constants have to be.
IkhayaAssumption == /\ None # Gone
                    /\ \A value \in {None, Gone} : value \notin Row \union BOOLEAN
                    /\ MaxText \in Nat \ {0} /\ MaxComments \in Nat
                    /\ MaxTx \in Nat

Existing == {a \in Articles : art[a] \notin {None, Gone}}
Hidden(row) == ~row.public \/ ~row.due
Published == {a \in Existing : ~Hidden(art[a])}
Busy(a) == \E t \in tx : t.a = a
Race(as) == raced' = raced \union {a \in as : Busy(a)}

Init == /\ art = [a \in Articles |-> None]
        /\ comments = [a \in Articles |-> <<>>]
        /\ cached = [a \in Articles |-> None]
        /\ forms = {}
        /\ tx = {}
        /\ subs = [p \in Subscribers \X Articles |-> None]
        /\ mailed = {} /\ unseen = {}
        /\ raced = {} /\ uncleared = {} /\ lost = {}

-----------------------------------------------------------------------------
(* Readers.  get_cached() fills the cache with what it finds.               *)

Copy(a) == IF cached[a] = None /\ a \in Existing THEN art[a] ELSE cached[a]

GetCached(as) ==
  cached' = [a \in Articles |-> IF a \in as THEN Copy(a) ELSE cached[a]]

\* The list and the pages of the articles behind it come from one query and
\* get_cached().
Index(u) == /\ LET listed == IF u \in Editors THEN Existing ELSE Published
               IN GetCached(listed) /\ Race(listed)
            /\ UNCHANGED <<art, comments, tx, uncleared, lost, forms, told>>

MayRead(u, a) == Copy(a) # None /\ (u \in Editors \/ ~Hidden(Copy(a)))

\* A subscriber's row stays locked by a request that has marked it as notified.
Locked(u, a) == \E t \in tx : t.a = a /\ u \in t.tell \union {t.by}

\* Looking at an article resets the notified column of the subscription.
Detail(u, a) ==
  /\ MayRead(u, a) /\ ~Locked(u, a)
  /\ GetCached({a})
  /\ subs' = [p \in DOMAIN subs |-> IF p = <<u, a>> /\ subs[p] # None THEN FALSE ELSE subs[p]]
  /\ mailed' = mailed \ {<<u, a>>} /\ unseen' = unseen \ {<<u, a>>}
  /\ Race({a})
  /\ UNCHANGED <<art, comments, tx, uncleared, lost, forms>>

Subscribe(u, a) ==
  /\ MayRead(u, a) /\ u \in Subscribers /\ subs[<<u, a>>] = None
  /\ GetCached({a})
  /\ subs' = [subs EXCEPT ![<<u, a>>] = FALSE]
  /\ unseen' = unseen \ {<<u, a>>} /\ mailed' = mailed \ {<<u, a>>}
  /\ Race({a})
  /\ UNCHANGED <<art, comments, tx, uncleared, lost, forms>>

\* Unsubscribing works on hidden articles, too.
Unsubscribe(u, a) ==
  /\ u \in Subscribers /\ Copy(a) # None /\ subs[<<u, a>>] # None /\ ~Locked(u, a)
  /\ GetCached({a})
  /\ subs' = [subs EXCEPT ![<<u, a>>] = None]
  /\ mailed' = mailed \ {<<u, a>>} /\ unseen' = unseen \ {<<u, a>>}
  /\ Race({a})
  /\ UNCHANGED <<art, comments, tx, uncleared, lost, forms>>

-----------------------------------------------------------------------------
(* Saving an article row.                                                   *)

ToTellAll(u, a) == {v \in Subscribers : v # u /\ subs[<<v, a>>] = TRUE}
\* The subscribers a comment of u tells: those not told since they looked.
ToTell(u, a) == {v \in Subscribers : v # u /\ subs[<<v, a>>] = FALSE}

Run(t) == /\ Cardinality(tx) < MaxTx
          /\ tx' = tx \union {t}
          /\ Race({t.a})

NewCount(row) == row.count + 1

\* Posting a comment: the article shown is the cached one, the row whose
\* counter is increased and which is saved as a whole is read again.  The key
\* Article.save deletes, 'ikhaya/article/<slug>', is none that get_cached()
\* uses: only the article form empties the cache.
Comment(u, a) ==
  /\ MayRead(u, a) /\ Copy(a).commentable /\ a \in Existing
  /\ Len(comments[a]) + Cardinality({t \in tx : t.a = a /\ t.comment}) < MaxComments
  /\ ~\E v \in ToTell(u, a) \union {u} : Locked(v, a)
  /\ GetCached({a})
  /\ Run([a |-> a, row |-> [art[a] EXCEPT !.count = NewCount(art[a])], comment |-> TRUE,
          by |-> u, tell |-> ToTell(u, a), base |-> art[a].text])
  /\ mailed' = mailed \union {<<v, a>> : v \in ToTell(u, a)}
  /\ UNCHANGED <<art, comments, uncleared, lost, forms, subs, unseen>>

\* A comment that is edited, hidden or restored is saved without its article.
ChangeComment(a, i) ==
  /\ i \in DOMAIN comments[a]
  /\ comments' = [comments EXCEPT ![a][i] = ~@]
  /\ UNCHANGED <<art, cached, tx, raced, uncleared, lost, forms, told>>

\* The article form: the checksum of subject, intro and text goes with it.
OpenForm(a) ==
  /\ a \in Existing
  /\ forms' = forms \union {<<a, art[a].text>>}
  /\ UNCHANGED <<news, told>>

SameChecksumAlways(checksum, row) == TRUE
\* A changed row is saved only if it still has the checksum of the form.
SameChecksum(checksum, row) == checksum = row.text

EmptiedNot(a) == cached
Emptied(a) == [cached EXCEPT ![a] = None]

\* The columns a submitted form changes; the others keep the row's value.  (The
\* form also has the date and whether comments are enabled; here an article
\* keeps those it was created with, which bounds the model.)
Edited(row) == {[row EXCEPT !.text = change[1], !.public = change[2]] :
                  change \in ({row.text, row.text + 1} \cap 1..MaxText) \X BOOLEAN} \ {row}

SubmitForm(e, a, checksum) ==
  /\ <<a, checksum>> \in forms /\ a \in Existing
  /\ SameChecksum(checksum, art[a])
  /\ cached' = Emptied(a)
  /\ \E row \in Edited(art[a]) :
       Run([a |-> a, row |-> row, comment |-> FALSE, by |-> e, tell |-> {}, base |-> checksum])
  /\ uncleared' = uncleared \ {a}
  /\ UNCHANGED <<art, comments, lost, forms, told>>

\* "unpublish" on the page that asks whether to delete: the cached copy stays.
Unpublish(e, a) ==
  /\ a \in Existing
  /\ Run([a |-> a, row |-> [art[a] EXCEPT !.public = FALSE], comment |-> FALSE, by |-> e,
          tell |-> {}, base |-> art[a].text])
  /\ uncleared' = uncleared \union {a}
  /\ UNCHANGED <<art, comments, cached, lost, forms, told>>

\* The commit of a request that has saved an article row (the row has been
\* locked since).  Whoever comments has looked at the article.
Commit(t) ==
  /\ tx' = tx \ {t}
  /\ art' = [art EXCEPT ![t.a] = t.row]
  /\ lost' = IF art[t.a].text # t.base THEN lost \union {t.a} ELSE lost
  /\ IF t.comment
     THEN LET own == <<t.by, t.a>>  others == {<<v, t.a>> : v \in Subscribers \ {t.by}} IN
          /\ comments' = [comments EXCEPT ![t.a] = Append(@, FALSE)]
          /\ subs' = [p \in DOMAIN subs |->
                       CASE p[2] = t.a /\ p[1] \in t.tell -> TRUE
                         [] p = own /\ subs[p] # None -> FALSE
                         [] OTHER -> subs[p]]
          /\ mailed' = mailed \ {own} /\ unseen' = (unseen \union others) \ {own}
     ELSE UNCHANGED <<comments, told>>
  /\ UNCHANGED <<cached, raced, uncleared, forms>>

Abort(t) == /\ tx' = tx \ {t}
            /\ UNCHANGED <<art, cached, comments, raced, uncleared, lost, forms, told>>

-----------------------------------------------------------------------------
(* Articles come and go.                                                    *)

Create(a) ==
  /\ art[a] = None
  /\ \E p, d, c \in BOOLEAN :
       art' = [art EXCEPT ![a] = [public |-> p, due |-> d, text |-> 1, count |-> 0, commentable |-> c]]
  /\ UNCHANGED <<cached, comments, tx, raced, uncleared, lost, forms, told>>

\* Its comments go with it, the cached copy and the subscriptions stay.
Delete(a) ==
  /\ a \in Existing /\ ~Busy(a)
  /\ art' = [art EXCEPT ![a] = Gone]
  /\ comments' = [comments EXCEPT ![a] = <<>>]
  /\ uncleared' = uncleared \union {a}
  /\ UNCHANGED <<cached, tx, raced, lost, forms, told>>

\* The publication date of an article passes (while no request works on it).
BecomesDue(a) == /\ a \in Existing /\ ~Busy(a)
                 /\ ~art[a].due
                 /\ art' = [art EXCEPT ![a].due = TRUE]
                 /\ cached' = [cached EXCEPT ![a] = IF @ = None THEN None ELSE [@ EXCEPT !.due = TRUE]]
                 /\ UNCHANGED <<comments, tx, raced, uncleared, lost, forms, told>>

CacheExpires == /\ \E a \in Articles : /\ cached[a] # None
                                         /\ cached' = [cached EXCEPT ![a] = None]
                                         /\ uncleared' = uncleared \ {a}
                /\ UNCHANGED <<art, comments, tx, raced, lost, forms, told>>

Next == \/ \E u \in Users : Index(u)
        \/ \E u \in Users, a \in Articles :
             Detail(u, a) \/ Subscribe(u, a) \/ Unsubscribe(u, a) \/ Comment(u, a)
        \/ \E e \in Editors, a \in Articles :
             Unpublish(e, a) \/ \E checksum \in 1..MaxText : SubmitForm(e, a, checksum)
        \/ \E t \in tx : Commit(t) \/ Abort(t)
        \/ \E a \in Articles : \/ Create(a) \/ OpenForm(a) \/ BecomesDue(a) \/ Delete(a)
                               \/ \E i \in 1..MaxComments : ChangeComment(a, i)
        \/ CacheExpires

Spec == Init /\ [][Next]_vars

-----------------------------------------------------------------------------

TypeOK ==
  /\ art \in [Articles -> Row \union {None, Gone}]
  /\ \A a \in Articles : Len(comments[a]) <= MaxComments
  /\ cached \in [Articles -> Row \union {None}]
  /\ forms \subseteq Articles \X (1..MaxText)
  /\ \A t \in tx : t.row \in Row /\ t.a \in Existing
  /\ subs \in [Subscribers \X Articles -> {None, TRUE, FALSE}]

\* comment_count is the number of the article's comments; requests that overlap
\* (Comment.save and the article form save the whole row) can only make it too
\* small.
CommentCount ==
  \A a \in Existing : /\ art[a].count <= Len(comments[a])
                      /\ a \notin raced => art[a].count = Len(comments[a])

\* A subscriber with a new comment he has not seen has been mailed since he last
\* looked at the article, unless requests overlapped; and whoever is marked as
\* notified, so that no comment will tell him again, has been mailed in any case.
SubscribersTold ==
  \A p \in Subscribers \X Articles :
    /\ subs[p] = TRUE => p \in mailed
    /\ subs[p] # None /\ p \in unseen /\ p[2] \notin raced => p \in mailed

\* An article form left open while the text changed overwrites nothing: a text is
\* only lost to requests that overlap.
NoSilentOverwrite == lost \subseteq raced

\* What readers are served is the article as it is, unless it was deleted or
\* unpublished since, or a reader filled the cache while a request ran.
CachedIsCurrent ==
  \A a \in Articles \ (raced \union uncleared) :
    cached[a] # None => /\ a \in Existing
                        /\ [cached[a] EXCEPT !.count = 0] = [art[a] EXCEPT !.count = 0]

\* comment_count is exact unless requests on the article overlapped, and a text is only
\* lost to requests that overlap, never to an old form.
ArticlesKept == CommentCount /\ NoSilentOverwrite

=============================================================================
