---------------------------- MODULE IkhayaProofs ----------------------------
(***************************************************************************)
(* What the news blog keeps, for any number of articles, readers, editors  *)
(* and requests that overlap; what a session of the planet keeps while     *)
(* people edit, for any blogs and feeds; and what the team is shown of     *)
(* topics, suggestions and events, for any number of them.                 *)
(***************************************************************************)
EXTENDS Ikhaya, PlanetSync, OpenTasks, NaturalLemmas, FiniteSetTheorems, SequenceTheorems,
        TLAPS

-----------------------------------------------------------------------------
(* The invariant.                                                          *)

Tx == [a : Articles, row : Row, comment : BOOLEAN, by : Users \union Editors,
       tell : SUBSET Subscribers, base : 1..MaxText]

Types ==
  /\ art \in [Articles -> Row \union {None, Gone}]
  /\ comments \in [Articles -> Seq(BOOLEAN)]
  /\ cached \in [Articles -> Row \union {None}]
  /\ forms \subseteq Articles \X (1..MaxText)
  /\ tx \subseteq Tx /\ IsFiniteSet(tx)
  /\ subs \in [Subscribers \X Articles -> {None, TRUE, FALSE}]

\* An article that never was has nothing; a request works on one that is there, and
\* two of them only on an article on which requests overlapped.
InUse ==
  /\ \A a \in Articles : art[a] = None => comments[a] = <<>> /\ cached[a] = None
  /\ \A t \in tx : t.a \in Existing
  /\ \A s, t \in tx : s.a = t.a /\ s # t => s.a \in raced

\* The row a request will save counts the comment it adds, and is not ahead.
CountsKept ==
  /\ CommentCount
  /\ \A t \in tx :
       LET due == Len(comments[t.a]) + (IF t.comment THEN 1 ELSE 0) IN
       /\ t.row.count <= due
       /\ t.a \notin raced => t.row.count = due

\* A request saves over the text it is based on, unless requests overlapped.
TextsKept ==
  /\ NoSilentOverwrite
  /\ \A t \in tx : t.a \notin raced => art[t.a].text = t.base

\* Everybody a request is going to mark as notified has been mailed and keeps his
\* subscription; nobody else waits for a mail.
MailsSent ==
  /\ SubscribersTold
  /\ \A t \in tx :
       /\ t.by \notin t.tell
       /\ \A v \in t.tell : <<v, t.a>> \in mailed /\ subs[<<v, t.a>>] # None
       /\ \A s \in tx : s # t /\ s.a = t.a /\ s.comment => s.by \notin t.tell
       /\ t.comment /\ t.a \notin raced =>
            \A v \in Subscribers \ {t.by} :
              subs[<<v, t.a>>] # None => <<v, t.a>> \in mailed

SameButCount(r, s) == [r EXCEPT !.count = 0] = [s EXCEPT !.count = 0]

\* A commit changes nothing but the count of an article that is cached.
CopiesKept ==
  /\ CachedIsCurrent
  /\ \A t \in tx : t.a \notin raced =>
       IF t.comment THEN SameButCount(t.row, art[t.a])
       ELSE t.a \in uncleared \/ cached[t.a] = None

NewsInv == Types /\ InUse /\ CountsKept /\ TextsKept /\ MailsSent /\ CopiesKept

LEMMA InitInv == ASSUME IkhayaAssumption, Init PROVE NewsInv
<1>1. IsFiniteSet({}) /\ <<>> \in Seq(BOOLEAN)
  BY FS_EmptySet
<1>2. Types
  <2>1. comments \in [Articles -> Seq(BOOLEAN)]
    BY <1>1 DEF Init
  <2>2. /\ art \in [Articles -> Row \union {None, Gone}]
        /\ cached \in [Articles -> Row \union {None}]
        /\ subs \in [Subscribers \X Articles -> {None, TRUE, FALSE}]
    BY DEF Init
  <2>3. QED
    BY <1>1, <2>1, <2>2 DEF Init, Types
<1>3. tx = {} /\ lost = {} /\ Existing = {} /\ \A a \in Articles : cached[a] = None /\ comments[a] = <<>>
  BY DEF Init, Existing
<1>4. InUse /\ CountsKept /\ TextsKept
  BY <1>3 DEF InUse, CountsKept, CommentCount, TextsKept, NoSilentOverwrite
<1>5. \A p \in Subscribers \X Articles : subs[p] = None /\ None # TRUE
  BY DEF Init, IkhayaAssumption
<1>6. MailsSent /\ CopiesKept
  BY <1>3, <1>5 DEF MailsSent, SubscribersTold, CopiesKept, CachedIsCurrent
<1>7. QED
  BY <1>2, <1>4, <1>6 DEF NewsInv

-----------------------------------------------------------------------------
(* Readers.                                                                *)

LEMMA CopyType ==
    ASSUME IkhayaAssumption, NewsInv, NEW a \in Articles
    PROVE  /\ Copy(a) \in Row \union {None}
           /\ Copy(a) # None => art[a] # None
           /\ a \notin raced \union uncleared /\ Copy(a) # None =>
                a \in Existing /\ SameButCount(Copy(a), art[a])
  BY DEF IkhayaAssumption, NewsInv, Types, InUse, CopiesKept, CachedIsCurrent,
         SameButCount, Copy, Existing

\* What a reader fills the cache with is current, or requests overlapped.
LEMMA FillCurrent ==
    ASSUME IkhayaAssumption, NewsInv, NEW as \in SUBSET Articles, GetCached(as), Race(as),
           UNCHANGED <<art, uncleared>>
    PROVE  /\ cached' \in [Articles -> Row \union {None}]
           /\ \A a \in Articles : art[a] = None => cached'[a] = None
           /\ CachedIsCurrent'
           /\ \A t \in tx : t.a \notin raced' =>
                IF t.comment THEN SameButCount(t.row, art[t.a])
                ELSE t.a \in uncleared \/ cached'[t.a] = None
<1>1. \A a \in Articles : cached'[a] = IF a \in as THEN Copy(a) ELSE cached[a]
  BY DEF GetCached
<1>2. cached' \in [Articles -> Row \union {None}]
  BY CopyType DEF GetCached, NewsInv, Types
<1>3. raced \subseteq raced' /\ \A t \in tx : t.a \in as => t.a \in raced'
  BY DEF Race, Busy, NewsInv, Types, Tx
<1>4. Existing' = Existing
  BY DEF Existing
<1>5. \A a \in Articles : art[a] = None => cached'[a] = None
  BY <1>1, CopyType DEF InUse, NewsInv
<1>6. CachedIsCurrent'
  <2> SUFFICES ASSUME NEW a \in Articles, a \notin raced' \union uncleared', cached'[a] # None
               PROVE  a \in Existing /\ SameButCount(cached'[a], art[a])
    BY <1>4 DEF CachedIsCurrent, SameButCount
  <2>1. CASE a \in as
    BY <1>1, <1>3, <2>1, CopyType
  <2>2. CASE a \notin as
    BY <1>1, <1>3, <2>2 DEF NewsInv, CopiesKept, CachedIsCurrent, SameButCount
  <2>3. QED
    BY <2>1, <2>2
<1>7. \A t \in tx : t.a \notin raced' =>
         IF t.comment THEN SameButCount(t.row, art[t.a])
         ELSE t.a \in uncleared \/ cached'[t.a] = None
  BY <1>1, <1>3 DEF NewsInv, CopiesKept, Types, Tx
<1>8. QED
  BY <1>2, <1>5, <1>6, <1>7

\* Filling the cache leaves everything in order that does not depend on who is told.
LEMMA ReadInv ==
    ASSUME IkhayaAssumption, NewsInv, NEW as \in SUBSET Articles, GetCached(as), Race(as),
           UNCHANGED <<art, comments, tx, uncleared, lost, forms>>
    PROVE  /\ cached' \in [Articles -> Row \union {None}]
           /\ InUse' /\ CountsKept' /\ TextsKept' /\ CopiesKept'
<1>1. raced \subseteq raced'
  BY DEF Race
<1>2. Existing' = Existing
  BY DEF Existing
<1>3. InUse'
  BY <1>1, <1>2, FillCurrent DEF InUse, NewsInv
<1>4. CountsKept' /\ TextsKept'
  BY <1>1, <1>2
  DEF NewsInv, CountsKept, CommentCount, TextsKept, NoSilentOverwrite
<1>5. CopiesKept'
  BY FillCurrent DEF CopiesKept, SameButCount
<1>6. QED
  BY <1>3, <1>4, <1>5, FillCurrent

LEMMA IndexInv ==
    ASSUME IkhayaAssumption, NewsInv, NEW u \in Users, Index(u) PROVE NewsInv'
<1>1. PICK as \in SUBSET Articles : GetCached(as) /\ Race(as)
  BY DEF Index, Existing, Published
<1>2. /\ UNCHANGED <<art, comments, tx, uncleared, lost, forms>>
      /\ UNCHANGED <<subs, mailed, unseen>>
  BY DEF Index, told
<1>3. MailsSent'
  BY <1>1, <1>2 DEF MailsSent, SubscribersTold, NewsInv, Race
<1>4. QED
  BY <1>1, <1>2, <1>3, ReadInv DEF NewsInv, Types

\* A reader's own subscription changes, which no request has locked.
LEMMA OwnInv ==
    ASSUME IkhayaAssumption, NewsInv, NEW u, NEW a \in Articles, GetCached({a}), Race({a}),
           UNCHANGED <<art, comments, tx, uncleared, lost, forms>>,
           subs' \in [Subscribers \X Articles -> {None, TRUE, FALSE}],
           <<u, a>> \in Subscribers \X Articles => subs'[<<u, a>>] # TRUE,
           \A p \in Subscribers \X Articles : p # <<u, a>> => subs'[p] = subs[p],
           \A t \in tx : t.a = a => u \notin t.tell,
           mailed' = mailed \ {<<u, a>>}, unseen' = unseen \ {<<u, a>>}
    PROVE  NewsInv'
<1>1. raced \subseteq raced' /\ \A t \in tx : t.a = a => a \in raced'
  BY DEF Race, Busy
<1>2. SubscribersTold'
  <2> SUFFICES ASSUME NEW p \in Subscribers \X Articles
               PROVE  /\ subs'[p] = TRUE => p \in mailed'
                      /\ subs'[p] # None /\ p \in unseen' /\ p[2] \notin raced' => p \in mailed'
    BY DEF SubscribersTold
  <2>1. CASE p = <<u, a>>
    BY <2>1
  <2>2. CASE p # <<u, a>>
    BY <1>1, <2>2 DEF NewsInv, MailsSent, SubscribersTold
  <2>3. QED
    BY <2>1, <2>2
<1>3. ASSUME NEW t \in tx
      PROVE  /\ \A v \in t.tell : <<v, t.a>> \in mailed' /\ subs'[<<v, t.a>>] # None
             /\ t.comment /\ t.a \notin raced' =>
                  \A v \in Subscribers \ {t.by} :
                    subs'[<<v, t.a>>] # None => <<v, t.a>> \in mailed'
  <2>1. t.a \in Articles /\ t.tell \in SUBSET Subscribers
    BY DEF NewsInv, Types, Tx
  <2>2. CASE t.a = a
    BY <1>1, <2>1, <2>2 DEF NewsInv, MailsSent
  <2>3. CASE t.a # a
    BY <1>1, <2>1, <2>3 DEF NewsInv, MailsSent
  <2>4. QED
    BY <2>2, <2>3
<1>4. MailsSent'
  BY <1>2, <1>3 DEF MailsSent, NewsInv
<1>5. QED
  BY <1>4, ReadInv DEF NewsInv, Types

LEMMA ReaderInv ==
    ASSUME IkhayaAssumption, NewsInv, NEW u \in Users, NEW a \in Articles,
           Detail(u, a) \/ Subscribe(u, a) \/ Unsubscribe(u, a)
    PROVE  NewsInv'
<1>1. /\ GetCached({a}) /\ Race({a})
      /\ UNCHANGED <<art, comments, tx, uncleared, lost, forms>>
      /\ mailed' = mailed \ {<<u, a>>} /\ unseen' = unseen \ {<<u, a>>}
  BY DEF Detail, Subscribe, Unsubscribe
<1>2. \A t \in tx : t.a = a => u \notin t.tell
  <2>1. CASE Subscribe(u, a)
    <3>1. subs[<<u, a>>] = None
      BY <2>1 DEF Subscribe
    <3>2. QED
      BY <3>1 DEF NewsInv, MailsSent
  <2>2. CASE Detail(u, a) \/ Unsubscribe(u, a)
    BY <2>2 DEF Detail, Unsubscribe, Locked
  <2>3. QED
    BY <2>1, <2>2
<1>3. /\ subs' \in [Subscribers \X Articles -> {None, TRUE, FALSE}]
      /\ <<u, a>> \in Subscribers \X Articles => subs'[<<u, a>>] # TRUE
      /\ \A p \in Subscribers \X Articles : p # <<u, a>> => subs'[p] = subs[p]
  BY DEF IkhayaAssumption, Detail, Subscribe, Unsubscribe, NewsInv, Types
<1>4. QED
  BY <1>1, <1>2, <1>3, OwnInv

-----------------------------------------------------------------------------
(* Requests that save an article row: what they run on.                    *)

LEMMA RunInv ==
    ASSUME IkhayaAssumption, NewsInv, NEW t \in Tx, t.a \in Existing, Run(t),
           t.base = art[t.a].text,
           t.row.count = art[t.a].count + (IF t.comment THEN 1 ELSE 0),
           UNCHANGED <<art, comments, lost>>
    PROVE  /\ tx' = tx \union {t} /\ tx' \subseteq Tx /\ IsFiniteSet(tx')
           /\ raced \subseteq raced' /\ \A s \in tx : s.a = t.a => t.a \in raced'
           /\ Existing' = Existing
           /\ \A s \in tx' : s.a \in Existing
           /\ \A r, s \in tx' : r.a = s.a /\ r # s => r.a \in raced'
           /\ CountsKept' /\ TextsKept'
<1>1. tx' = tx \union {t} /\ raced \subseteq raced' /\ \A s \in tx : s.a = t.a => t.a \in raced'
  BY DEF Run, Race, Busy
<1>2. tx' \subseteq Tx /\ IsFiniteSet(tx')
  BY <1>1, FS_AddElement DEF NewsInv, Types
<1>3. Existing' = Existing
  BY DEF Existing
<1>4. /\ \A s \in tx' : s.a \in Existing
      /\ \A r, s \in tx' : r.a = s.a /\ r # s => r.a \in raced'
  BY <1>1 DEF NewsInv, InUse
<1>5. CommentCount'
  BY <1>1, <1>3 DEF NewsInv, CountsKept, CommentCount
<1>6. /\ art[t.a] \in Row /\ art[t.a].count \in Nat /\ Len(comments[t.a]) \in Nat
      /\ t.a \in Articles
  BY DEF Existing, NewsInv, Types, Row, Tx
<1>7. LET due == Len(comments[t.a]) + (IF t.comment THEN 1 ELSE 0) IN
      t.row.count <= due /\ (t.a \notin raced => t.row.count = due)
  <2>1. /\ art[t.a].count <= Len(comments[t.a])
        /\ t.a \notin raced => art[t.a].count = Len(comments[t.a])
    BY <1>6 DEF NewsInv, CountsKept, CommentCount
  <2>2. CASE t.comment
    BY <1>6, <2>1, <2>2
  <2>3. CASE ~t.comment
    BY <1>6, <2>1, <2>3
  <2>4. QED
    BY <2>2, <2>3
<1>8. CountsKept'
  BY <1>1, <1>5, <1>7 DEF NewsInv, CountsKept
<1>9. TextsKept'
  BY <1>1 DEF NewsInv, TextsKept, NoSilentOverwrite
<1>10. QED
  BY <1>1, <1>2, <1>3, <1>4, <1>8, <1>9

LEMMA CommentInv ==
    ASSUME IkhayaAssumption, NewsInv, NEW u \in Users, NEW a \in Articles, Comment(u, a)
    PROVE  NewsInv'
<1>1. PICK t : t = [a |-> a, row |-> [art[a] EXCEPT !.count = NewCount(art[a])],
                    comment |-> TRUE, by |-> u, tell |-> ToTell(u, a), base |-> art[a].text]
  OBVIOUS
<1>2. /\ GetCached({a}) /\ Run(t) /\ Race({a}) /\ a \in Existing
      /\ UNCHANGED <<art, comments, uncleared, lost, forms, subs, unseen>>
      /\ mailed' = mailed \union {<<v, a>> : v \in ToTell(u, a)}
      /\ \A v \in ToTell(u, a) \union {u} : ~Locked(v, a)
  BY <1>1 DEF Comment, Run
<1>3. t \in Tx
  <2>1. art[a] \in Row
    BY <1>2 DEF Existing, NewsInv, Types
  <2>2. NewCount(art[a]) \in 0..MaxComments
    <3>1. Cardinality({s \in tx : s.a = a /\ s.comment}) \in Nat
      BY FS_Subset, FS_CardinalityType DEF NewsInv, Types
    <3>2. /\ art[a].count \in Nat /\ Len(comments[a]) \in Nat
          /\ art[a].count <= Len(comments[a])
      BY <1>2, <2>1 DEF Row, NewsInv, Types, CountsKept, CommentCount
    <3>3. Len(comments[a]) + Cardinality({s \in tx : s.a = a /\ s.comment}) < MaxComments
      BY DEF Comment
    <3>4. QED
      BY <3>1, <3>2, <3>3 DEF NewCount, IkhayaAssumption
  <2>3. [art[a] EXCEPT !.count = NewCount(art[a])] \in Row
    BY <2>1, <2>2 DEF Row
  <2>4. ToTell(u, a) \in SUBSET Subscribers /\ art[a].text \in 1..MaxText
    BY <2>1 DEF ToTell, Row
  <2>5. QED
    BY <1>1, <2>3, <2>4 DEF Tx
<1>4. /\ t.a = a /\ t.comment /\ t.by = u /\ t.tell = ToTell(u, a)
      /\ t.base = art[a].text /\ t.row = [art[a] EXCEPT !.count = NewCount(art[a])]
  BY <1>1
<1>5. t.row.count = art[a].count + 1 /\ SameButCount(t.row, art[a])
  <2>1. art[a] \in Row
    BY <1>2 DEF Existing, NewsInv, Types
  <2>2. t.row = [art[a] EXCEPT !.count = art[a].count + 1]
    BY <1>4 DEF NewCount
  <2>3. t.row.count = art[a].count + 1
    BY <2>1, <2>2 DEF Row
  <2>4. SameButCount(t.row, art[a])
    BY <2>1, <2>2 DEF Row, SameButCount
  <2>5. QED
    BY <2>3, <2>4
<1>6. /\ tx' = tx \union {t} /\ tx' \subseteq Tx /\ IsFiniteSet(tx')
      /\ raced \subseteq raced' /\ \A s \in tx : s.a = a => a \in raced'
      /\ Existing' = Existing
      /\ \A s \in tx' : s.a \in Existing
      /\ \A r, s \in tx' : r.a = s.a /\ r # s => r.a \in raced'
      /\ CountsKept' /\ TextsKept'
  BY <1>2, <1>3, <1>4, <1>5, RunInv
<1>7. /\ cached' \in [Articles -> Row \union {None}]
      /\ \A b \in Articles : art[b] = None => cached'[b] = None
      /\ CachedIsCurrent'
      /\ \A s \in tx : s.a \notin raced' =>
           IF s.comment THEN SameButCount(s.row, art[s.a])
           ELSE s.a \in uncleared \/ cached'[s.a] = None
  BY <1>2, FillCurrent
<1>8. Types' /\ InUse' /\ CopiesKept'
  BY <1>2, <1>4, <1>5, <1>6, <1>7 DEF NewsInv, Types, InUse, CopiesKept, SameButCount
<1>9. MailsSent'
  <2>1. SubscribersTold'
    BY <1>2, <1>6 DEF NewsInv, MailsSent, SubscribersTold
  <2>2. ASSUME NEW s \in tx'
        PROVE  /\ s.by \notin s.tell
               /\ \A v \in s.tell : <<v, s.a>> \in mailed' /\ subs[<<v, s.a>>] # None
               /\ s.comment /\ s.a \notin raced' =>
                    \A v \in Subscribers \ {s.by} :
                      subs[<<v, s.a>>] # None => <<v, s.a>> \in mailed'
    <3>1. CASE s \in tx
      BY <1>2, <1>6, <3>1 DEF NewsInv, MailsSent
    <3>2. CASE s = t
      <4>1. u \notin ToTell(u, a) /\ \A v \in ToTell(u, a) : subs[<<v, a>>] # None
        BY DEF ToTell, IkhayaAssumption
      <4>2. \A v \in Subscribers \ {u} : subs[<<v, a>>] # None => <<v, a>> \in mailed'
        BY <1>2 DEF ToTell, NewsInv, Types, MailsSent, SubscribersTold
      <4>3. QED
        BY <1>2, <1>4, <3>2, <4>1, <4>2
    <3>3. QED
      BY <1>6, <3>1, <3>2
  <2>3. \A s, r \in tx' : r # s /\ r.a = s.a /\ r.comment => r.by \notin s.tell
    BY <1>2, <1>4, <1>6 DEF NewsInv, MailsSent, Locked
  <2>4. QED
    BY <1>2, <2>1, <2>2, <2>3 DEF MailsSent
<1>10. QED
  BY <1>6, <1>8, <1>9 DEF NewsInv

\* A request that saves the row without a comment tells nobody.
LEMMA SilentInv ==
    ASSUME IkhayaAssumption, NewsInv, NEW t \in Tx, t.a \in Existing, Run(t),
           t.base = art[t.a].text, t.row.count = art[t.a].count, ~t.comment, t.tell = {},
           cached' \in [Articles -> Row \union {None}],
           \A b \in Articles : b # t.a => cached'[b] = cached[b],
           \/ cached'[t.a] = None /\ uncleared' = uncleared \ {t.a}
           \/ cached'[t.a] = cached[t.a] /\ uncleared' = uncleared \union {t.a},
           UNCHANGED <<art, comments, lost, forms, subs, mailed, unseen>>
    PROVE  NewsInv'
<1>1. t.row.count = art[t.a].count + (IF t.comment THEN 1 ELSE 0) /\ t.a \in Articles
  BY DEF Existing, NewsInv, Types, Row, Tx
<1>2. /\ tx' = tx \union {t} /\ tx' \subseteq Tx /\ IsFiniteSet(tx')
      /\ raced \subseteq raced' /\ \A s \in tx : s.a = t.a => t.a \in raced'
      /\ Existing' = Existing
      /\ \A s \in tx' : s.a \in Existing
      /\ \A r, s \in tx' : r.a = s.a /\ r # s => r.a \in raced'
      /\ CountsKept' /\ TextsKept'
  BY <1>1, RunInv
<1>3. \A b \in Articles : cached'[b] \in {None, cached[b]}
  BY <1>1
<1>4. Types' /\ InUse'
  BY <1>2, <1>3 DEF NewsInv, Types, InUse
<1>5. SubscribersTold'
  BY <1>2 DEF NewsInv, MailsSent, SubscribersTold
<1>6. MailsSent'
  BY <1>2, <1>5 DEF NewsInv, MailsSent
<1>7. CachedIsCurrent'
  BY <1>1, <1>2, <1>3 DEF NewsInv, CopiesKept, CachedIsCurrent
<1>8. \A s \in tx' : s.a \notin raced' =>
         IF s.comment THEN SameButCount(s.row, art[s.a])
         ELSE s.a \in uncleared' \/ cached'[s.a] = None
  BY <1>1, <1>2, <1>3 DEF NewsInv, CopiesKept, InUse, Existing
<1>9. QED
  BY <1>2, <1>4, <1>6, <1>7, <1>8 DEF NewsInv, CopiesKept, SameButCount

LEMMA SubmitFormInv ==
    ASSUME IkhayaAssumption, NewsInv, NEW e \in Editors, NEW a \in Articles, NEW checksum,
           SubmitForm(e, a, checksum)
    PROVE  NewsInv'
<1>1. PICK row \in Edited(art[a]) :
         Run([a |-> a, row |-> row, comment |-> FALSE, by |-> e, tell |-> {}, base |-> checksum])
  BY DEF SubmitForm
<1>2. PICK t : t = [a |-> a, row |-> row, comment |-> FALSE, by |-> e, tell |-> {},
                    base |-> checksum]
  OBVIOUS
<1>3. a \in Existing /\ checksum = art[a].text /\ art[a] \in Row
  BY DEF SubmitForm, SameChecksum, Existing, NewsInv, Types
<1>4. row \in Row /\ row.count = art[a].count
  <2>1. PICK x \in 1..MaxText, public \in BOOLEAN :
           row = [art[a] EXCEPT !.text = x, !.public = public]
    BY <1>1 DEF Edited
  <2>2. QED
    BY <1>3, <2>1 DEF Row
<1>5. t \in Tx
  BY <1>2, <1>3, <1>4 DEF Tx, Row
<1>6. /\ cached' = [cached EXCEPT ![a] = None] /\ uncleared' = uncleared \ {a}
      /\ UNCHANGED <<art, comments, lost, forms, subs, mailed, unseen>>
  BY DEF SubmitForm, Emptied, told
<1>7. /\ cached' \in [Articles -> Row \union {None}]
      /\ \A b \in Articles : b # t.a => cached'[b] = cached[b]
      /\ cached'[t.a] = None /\ uncleared' = uncleared \ {t.a}
  BY <1>2, <1>6 DEF NewsInv, Types
<1>8. /\ t.a \in Existing /\ t.base = art[t.a].text /\ t.row.count = art[t.a].count
      /\ ~t.comment /\ t.tell = {} /\ Run(t)
  BY <1>1, <1>2, <1>3, <1>4
<1>9. QED
  BY <1>5, <1>6, <1>7, <1>8, SilentInv

LEMMA UnpublishInv ==
    ASSUME IkhayaAssumption, NewsInv, NEW e \in Editors, NEW a \in Articles, Unpublish(e, a)
    PROVE  NewsInv'
<1>1. PICK t : t = [a |-> a, row |-> [art[a] EXCEPT !.public = FALSE], comment |-> FALSE,
                    by |-> e, tell |-> {}, base |-> art[a].text]
  OBVIOUS
<1>2. a \in Existing /\ art[a] \in Row /\ Run(t)
  BY <1>1 DEF Unpublish, Existing, NewsInv, Types
<1>3. t \in Tx /\ t.row.count = art[a].count
  <2>1. PICK row : row = [art[a] EXCEPT !.public = FALSE]
    OBVIOUS
  <2>2. row \in Row /\ row.count = art[a].count /\ art[a].text \in 1..MaxText
    BY <1>2, <2>1 DEF Row
  <2>3. QED
    BY <1>1, <2>1, <2>2 DEF Tx
<1>4. /\ uncleared' = uncleared \union {a}
      /\ UNCHANGED <<art, comments, cached, lost, forms, subs, mailed, unseen>>
  BY DEF Unpublish, told
<1>5. t.a = a /\ t.base = art[a].text /\ ~t.comment /\ t.tell = {}
  BY <1>1
<1>6. cached' \in [Articles -> Row \union {None}]
  BY <1>4 DEF NewsInv, Types
<1>7. QED
  BY <1>2, <1>3, <1>4, <1>5, <1>6, SilentInv

-----------------------------------------------------------------------------
(* Requests that save an article row: what they commit.                    *)

LEMMA AbortInv == ASSUME NewsInv, NEW t \in tx, Abort(t) PROVE NewsInv'
<1>1. /\ tx' \subseteq tx /\ IsFiniteSet(tx')
      /\ UNCHANGED <<art, cached, comments, raced, uncleared, lost, forms, subs, mailed, unseen>>
  BY FS_Subset DEF Abort, told, NewsInv, Types
<1>2. Existing' = Existing
  BY <1>1 DEF Existing
<1>3. Types' /\ InUse' /\ CountsKept' /\ TextsKept'
  BY <1>1, <1>2 DEF NewsInv, Types, InUse, CountsKept, CommentCount, TextsKept, NoSilentOverwrite
<1>4. MailsSent'
  BY <1>1 DEF NewsInv, MailsSent, SubscribersTold
<1>5. CopiesKept'
  BY <1>1, <1>2 DEF NewsInv, CopiesKept, CachedIsCurrent
<1>6. QED
  BY <1>3, <1>4, <1>5 DEF NewsInv

LEMMA CommitRows ==
    ASSUME IkhayaAssumption, NewsInv, NEW t \in tx, Commit(t)
    PROVE  /\ Types' /\ InUse' /\ CountsKept' /\ TextsKept' /\ CopiesKept'
<1>1. /\ tx' = tx \ {t} /\ IsFiniteSet(tx')
      /\ art' = [art EXCEPT ![t.a] = t.row]
      /\ UNCHANGED <<cached, raced, uncleared, forms>>
  BY FS_Subset DEF Commit, NewsInv, Types
<1>2. /\ t \in Tx /\ t.a \in Articles /\ t.row \in Row /\ t.row # None /\ t.row # Gone
      /\ t.comment \in BOOLEAN /\ t.a \in Existing
  BY DEF NewsInv, Types, Tx, InUse, IkhayaAssumption
<1>3. /\ art'[t.a] = t.row /\ \A a \in Articles : a # t.a => art'[a] = art[a]
      /\ art' \in [Articles -> Row \union {None, Gone}]
  BY <1>1, <1>2 DEF NewsInv, Types
<1>4. Existing' = Existing
  BY <1>2, <1>3 DEF Existing
<1>5. /\ comments' \in [Articles -> Seq(BOOLEAN)]
      /\ Len(comments'[t.a]) = Len(comments[t.a]) + (IF t.comment THEN 1 ELSE 0)
      /\ \A a \in Articles : a # t.a => comments'[a] = comments[a]
  <2>1. comments \in [Articles -> Seq(BOOLEAN)] /\ comments[t.a] \in Seq(BOOLEAN)
    BY <1>2 DEF NewsInv, Types
  <2>2. CASE t.comment
    <3>1. comments' = [comments EXCEPT ![t.a] = Append(@, FALSE)]
      BY <2>2 DEF Commit
    <3>2. /\ Append(comments[t.a], FALSE) \in Seq(BOOLEAN)
          /\ Len(Append(comments[t.a], FALSE)) = Len(comments[t.a]) + 1
      BY <2>1
    <3>3. QED
      BY <1>2, <2>1, <2>2, <3>1, <3>2
  <2>3. CASE ~t.comment
    <3>1. comments' = comments /\ Len(comments[t.a]) \in Nat
      BY <2>1, <2>3 DEF Commit
    <3>2. QED
      BY <2>1, <2>3, <3>1
  <2>4. QED
    BY <2>2, <2>3
<1>6. subs' \in [Subscribers \X Articles -> {None, TRUE, FALSE}]
  <2>1. subs \in [Subscribers \X Articles -> {None, TRUE, FALSE}]
    BY DEF NewsInv, Types
  <2>2. CASE t.comment
    <3>1. subs' = [p \in DOMAIN subs |->
                     CASE p[2] = t.a /\ p[1] \in t.tell -> TRUE
                       [] p = <<t.by, t.a>> /\ subs[p] # None -> FALSE
                       [] OTHER -> subs[p]]
      BY <2>2 DEF Commit
    <3>2. QED
      BY <2>1, <3>1
  <2>3. CASE ~t.comment
    BY <2>1, <2>3 DEF Commit, told
  <2>4. QED
    BY <2>2, <2>3
<1>7. \A s \in tx' : s.a = t.a => t.a \in raced
  BY <1>1 DEF NewsInv, InUse
<1>8. Types' /\ InUse'
  <2>1. Types'
    BY <1>1, <1>3, <1>5, <1>6 DEF NewsInv, Types
  <2>2. InUse'
    BY <1>1, <1>2, <1>3, <1>4, <1>5 DEF NewsInv, InUse
  <2>3. QED
    BY <2>1, <2>2
<1>9. \A a \in Articles : Len(comments[a]) \in Nat /\ Len(comments[a]) <= Len(comments'[a])
  <2>1. \A a \in Articles : Len(comments[a]) \in Nat
    BY DEF NewsInv, Types
  <2>2. PICK k \in {0, 1} : Len(comments'[t.a]) = Len(comments[t.a]) + k
    BY <1>5
  <2>3. Len(comments[t.a]) <= Len(comments'[t.a])
    BY <1>2, <2>1, <2>2
  <2>4. \A a \in Articles : a # t.a => Len(comments'[a]) = Len(comments[a])
    BY <1>5
  <2>5. QED
    BY <2>1, <2>3, <2>4
<1>10. CountsKept'
  <2>1. CommentCount'
    <3>1. /\ t.row.count <= Len(comments'[t.a])
          /\ t.a \notin raced => t.row.count = Len(comments'[t.a])
      BY <1>5 DEF NewsInv, CountsKept
    <3>2. ASSUME NEW a \in Existing, a # t.a
          PROVE  art'[a].count <= Len(comments'[a])
                   /\ (a \notin raced => art'[a].count = Len(comments'[a]))
      BY <1>3, <1>5, <3>2 DEF NewsInv, CountsKept, CommentCount, Existing
    <3>3. QED
      BY <1>1, <1>3, <1>4, <3>1, <3>2 DEF CommentCount
  <2>2. ASSUME NEW s \in tx'
        PROVE  LET due == Len(comments'[s.a]) + (IF s.comment THEN 1 ELSE 0)
               IN  s.row.count <= due /\ (s.a \notin raced => s.row.count = due)
    <3>1. s \in tx /\ s.a \in Articles /\ s.row.count \in Nat /\ s.comment \in BOOLEAN
      BY <1>1 DEF NewsInv, Types, Tx, Row
    <3>2. LET old == Len(comments[s.a]) + (IF s.comment THEN 1 ELSE 0)
          IN  s.row.count <= old /\ (s.a \notin raced => s.row.count = old)
      BY <3>1 DEF NewsInv, CountsKept
    <3>3. CASE s.a = t.a
      <4>1. PICK k \in {0, 1} : k = IF s.comment THEN 1 ELSE 0
        OBVIOUS
      <4>2. Len(comments[s.a]) \in Nat /\ Len(comments'[s.a]) \in Nat
        BY <1>5, <3>1 DEF NewsInv, Types
      <4>3. s.row.count <= Len(comments'[s.a]) + k
        <5>1. PICK m \in Nat, n \in Nat, c \in Nat :
                 m = Len(comments[s.a]) /\ n = Len(comments'[s.a]) /\ c = s.row.count
          BY <3>1, <4>2
        <5>2. c <= m + k /\ m <= n
          BY <1>9, <3>1, <3>2, <4>1, <5>1
        <5>3. \A x, y, z \in Nat : x <= y + k /\ y <= z => x <= z + k
          OBVIOUS
        <5>4. QED
          BY <5>1, <5>2, <5>3
      <4>4. QED
        BY <1>7, <3>3, <4>1, <4>3
    <3>4. CASE s.a # t.a
      BY <1>5, <3>1, <3>2, <3>4
    <3>5. QED
      BY <3>3, <3>4
  <2>3. QED
    BY <1>1, <2>1, <2>2 DEF CountsKept
<1>11. TextsKept'
  <2>1. lost' \subseteq raced
    BY DEF Commit, NewsInv, TextsKept, NoSilentOverwrite
  <2>2. \A s \in tx' : s.a \notin raced => art'[s.a].text = s.base
    BY <1>1, <1>3, <1>7 DEF NewsInv, TextsKept, InUse, Existing
  <2>3. QED
    BY <1>1, <2>1, <2>2 DEF TextsKept, NoSilentOverwrite
<1>12. CopiesKept'
  <2>1. ASSUME NEW a \in Articles, a \notin raced \union uncleared, cached[a] # None
        PROVE  a \in Existing /\ SameButCount(cached[a], art'[a])
    <3>1. a \in Existing /\ SameButCount(cached[a], art[a])
      BY <2>1 DEF NewsInv, CopiesKept, CachedIsCurrent, SameButCount
    <3>2. CASE a = t.a
      <4>1. SameButCount(t.row, art[a])
        BY <2>1, <3>2 DEF NewsInv, CopiesKept
      <4>2. QED
        BY <1>3, <3>1, <3>2, <4>1 DEF SameButCount
    <3>3. QED
      BY <1>3, <3>1, <3>2
  <2>2. \A s \in tx' : s.a \notin raced =>
           IF s.comment THEN SameButCount(s.row, art'[s.a])
           ELSE s.a \in uncleared \/ cached[s.a] = None
    BY <1>1, <1>3, <1>7 DEF NewsInv, CopiesKept, InUse, Existing
  <2>3. QED
    BY <1>1, <1>4, <2>1, <2>2 DEF CopiesKept, CachedIsCurrent, SameButCount
<1>13. QED
  BY <1>8, <1>10, <1>11, <1>12

LEMMA CommitMails ==
    ASSUME IkhayaAssumption, NewsInv, NEW t \in tx, Commit(t) PROVE MailsSent'
<1>1. tx' = tx \ {t} /\ raced' = raced /\ t \in Tx
  BY DEF Commit, NewsInv, Types
<1>2. CASE ~t.comment
  <2>1. UNCHANGED <<subs, mailed, unseen>>
    BY <1>2 DEF Commit, told
  <2>2. QED
    BY <1>1, <2>1 DEF NewsInv, MailsSent, SubscribersTold
<1>3. CASE t.comment
  <2> DEFINE own == <<t.by, t.a>>
  <2>1. /\ subs' = [p \in DOMAIN subs |->
                     CASE p[2] = t.a /\ p[1] \in t.tell -> TRUE
                       [] p = own /\ subs[p] # None -> FALSE
                       [] OTHER -> subs[p]]
        /\ mailed' = mailed \ {own}
        /\ unseen' = (unseen \union {<<v, t.a>> : v \in Subscribers \ {t.by}}) \ {own}
    BY <1>3 DEF Commit
  <2>2. DOMAIN subs = Subscribers \X Articles /\ t.tell \in SUBSET Subscribers
    BY <1>1 DEF NewsInv, Types, Tx
  <2>3. \A p \in Subscribers \X Articles :
          /\ p = own => subs'[p] # TRUE
          /\ p # own /\ ~(p[2] = t.a /\ p[1] \in t.tell) => subs'[p] = subs[p]
          /\ p[2] = t.a /\ p[1] \in t.tell => p \in mailed /\ p # own /\ subs[p] # None
          /\ subs[p] # None <=> subs'[p] # None
    <3> TAKE p \in Subscribers \X Articles
    <3>1. PICK v \in Subscribers, a \in Articles : p = <<v, a>> /\ p[1] = v /\ p[2] = a
      OBVIOUS
    <3>2. subs'[p] = CASE a = t.a /\ v \in t.tell -> TRUE
                       [] p = own /\ subs[p] # None -> FALSE
                       [] OTHER -> subs[p]
      BY <2>1, <2>2, <3>1
    <3>3. a = t.a /\ v \in t.tell => p \in mailed /\ p # own /\ subs[p] # None
      BY <3>1 DEF NewsInv, MailsSent
    <3>4. subs[p] \in {None, TRUE, FALSE} /\ None # TRUE /\ None # FALSE
      BY DEF NewsInv, Types, IkhayaAssumption
    <3>5. (p = own => a = t.a) /\ (p = own => v \notin t.tell)
      BY <3>1, <3>3
    <3>6. QED
      BY <3>1, <3>2, <3>3, <3>4, <3>5
  <2>4. SubscribersTold'
    <3> SUFFICES ASSUME NEW p \in Subscribers \X Articles
                 PROVE  /\ subs'[p] = TRUE => p \in mailed'
                        /\ subs'[p] # None /\ p \in unseen' /\ p[2] \notin raced => p \in mailed'
      BY <1>1 DEF SubscribersTold
    <3> PICK v \in Subscribers, a \in Articles : p = <<v, a>> /\ p[1] = v /\ p[2] = a
      OBVIOUS
    <3>1. subs'[p] = TRUE => p \in mailed'
      BY <2>1, <2>3 DEF NewsInv, MailsSent, SubscribersTold
    <3>2. ASSUME subs'[p] # None, p \in unseen', a \notin raced PROVE p \in mailed'
      <4>1. p # own /\ subs[p] # None
        BY <2>1, <2>3, <3>2
      <4>2. CASE a = t.a
        BY <1>3, <2>1, <3>2, <4>1, <4>2 DEF NewsInv, MailsSent
      <4>3. CASE a # t.a
        BY <2>1, <3>2, <4>1, <4>3 DEF NewsInv, MailsSent, SubscribersTold
      <4>4. QED
        BY <4>2, <4>3
    <3>3. QED
      BY <3>1, <3>2
  <2>5. ASSUME NEW s \in tx'
        PROVE  /\ \A v \in s.tell : <<v, s.a>> \in mailed' /\ subs'[<<v, s.a>>] # None
               /\ s.comment /\ s.a \notin raced =>
                    \A v \in Subscribers \ {s.by} :
                      subs'[<<v, s.a>>] # None => <<v, s.a>> \in mailed'
    <3>1. s \in tx /\ s # t /\ s.tell \in SUBSET Subscribers /\ s.a \in Articles
      BY <1>1 DEF NewsInv, Types, Tx
    <3>2. ASSUME NEW v \in s.tell PROVE <<v, s.a>> # own
      BY <1>3, <3>1 DEF NewsInv, MailsSent
    <3>3. \A v \in s.tell : <<v, s.a>> \in mailed' /\ subs'[<<v, s.a>>] # None
      BY <2>1, <2>3, <3>1, <3>2 DEF NewsInv, MailsSent
    <3>4. s.a \notin raced => s.a # t.a
      BY <3>1 DEF NewsInv, InUse
    <3>5. s.comment /\ s.a \notin raced =>
             \A v \in Subscribers \ {s.by} : subs'[<<v, s.a>>] # None => <<v, s.a>> \in mailed'
      BY <2>1, <2>3, <3>1, <3>4 DEF NewsInv, MailsSent
    <3>6. QED
      BY <3>3, <3>5
  <2>6. QED
    BY <1>1, <2>4, <2>5 DEF NewsInv, MailsSent
<1>4. QED
  BY <1>2, <1>3

LEMMA CommitInv ==
    ASSUME IkhayaAssumption, NewsInv, NEW t \in tx, Commit(t) PROVE NewsInv'
BY CommitRows, CommitMails DEF NewsInv

-----------------------------------------------------------------------------
(* Articles and their forms.                                               *)

LEMMA CreateInv ==
    ASSUME IkhayaAssumption, NewsInv, NEW a \in Articles, Create(a) PROVE NewsInv'
<1>1. PICK row : art' = [art EXCEPT ![a] = row] /\ row \in Row /\ row.count = 0
  <2>1. PICK p, d, c \in BOOLEAN :
           art' = [art EXCEPT ![a] = [public |-> p, due |-> d, text |-> 1, count |-> 0,
                                      commentable |-> c]]
    BY DEF Create
  <2>2. PICK row : row = [public |-> p, due |-> d, text |-> 1, count |-> 0, commentable |-> c]
    OBVIOUS
  <2>3. row \in Row /\ row.count = 0
    BY <2>2 DEF Row, IkhayaAssumption
  <2>4. QED
    BY <2>1, <2>2, <2>3
<1>2. /\ art[a] = None /\ a \notin Existing /\ comments[a] = <<>> /\ cached[a] = None
      /\ UNCHANGED <<cached, comments, tx, raced, uncleared, lost, forms, subs, mailed, unseen>>
  BY DEF Create, told, Existing, NewsInv, InUse
<1>3. /\ art'[a] = row /\ row # None /\ row # Gone
      /\ \A b \in Articles : b # a => art'[b] = art[b]
      /\ art' \in [Articles -> Row \union {None, Gone}]
  BY <1>1 DEF NewsInv, Types, IkhayaAssumption
<1>4. Existing' = Existing \union {a}
  BY <1>3 DEF Existing
<1>5. \A t \in tx : t.a # a /\ t.a \in Existing
  BY <1>2 DEF NewsInv, InUse
<1>6. Types' /\ InUse'
  BY <1>2, <1>3, <1>4 DEF NewsInv, Types, InUse
<1>7. Len(comments[a]) = 0
  BY <1>2
<1>8. CountsKept' /\ TextsKept'
  <2>1. CommentCount'
    BY <1>1, <1>2, <1>3, <1>4, <1>7 DEF NewsInv, CountsKept, CommentCount, Existing
  <2>2. CountsKept'
    BY <1>2, <2>1 DEF NewsInv, CountsKept
  <2>3. TextsKept'
    BY <1>2, <1>3, <1>5 DEF NewsInv, TextsKept, NoSilentOverwrite, Existing
  <2>4. QED
    BY <2>2, <2>3
<1>9. MailsSent'
  BY <1>2 DEF NewsInv, MailsSent, SubscribersTold
<1>10. CopiesKept'
  BY <1>2, <1>3, <1>4, <1>5 DEF NewsInv, CopiesKept, CachedIsCurrent, Existing
<1>11. QED
  BY <1>6, <1>8, <1>9, <1>10 DEF NewsInv

LEMMA DeleteInv ==
    ASSUME IkhayaAssumption, NewsInv, NEW a \in Articles, Delete(a) PROVE NewsInv'
<1>1. /\ art' = [art EXCEPT ![a] = Gone] /\ comments' = [comments EXCEPT ![a] = <<>>]
      /\ uncleared' = uncleared \union {a}
      /\ UNCHANGED <<cached, tx, raced, lost, forms, subs, mailed, unseen>>
  BY DEF Delete, told
<1>2. /\ art'[a] = Gone /\ \A b \in Articles : b # a => art'[b] = art[b]
      /\ art' \in [Articles -> Row \union {None, Gone}] /\ Gone # None
  BY <1>1 DEF NewsInv, Types, IkhayaAssumption
<1>3. /\ comments' \in [Articles -> Seq(BOOLEAN)]
      /\ \A b \in Articles : b # a => comments'[b] = comments[b]
  <2>1. <<>> \in Seq(BOOLEAN)
    OBVIOUS
  <2>2. QED
    BY <1>1, <2>1 DEF NewsInv, Types
<1>4. Existing' = Existing \ {a}
  BY <1>2 DEF Existing
<1>5. \A t \in tx : t.a # a /\ t.a \in Existing
  BY DEF Delete, Busy, NewsInv, InUse
<1>6. Types' /\ InUse'
  BY <1>1, <1>2, <1>3, <1>4, <1>5 DEF NewsInv, Types, InUse
<1>7. CountsKept'
  BY <1>1, <1>2, <1>3, <1>4, <1>5 DEF NewsInv, CountsKept, CommentCount, Existing
<1>8. TextsKept'
  BY <1>1, <1>2, <1>5 DEF NewsInv, TextsKept, NoSilentOverwrite
<1>9. MailsSent'
  BY <1>1 DEF NewsInv, MailsSent, SubscribersTold
<1>10. CopiesKept'
  BY <1>1, <1>2, <1>4, <1>5 DEF NewsInv, CopiesKept, CachedIsCurrent, Existing
<1>11. QED
  BY <1>6, <1>7, <1>8, <1>9, <1>10 DEF NewsInv

LEMMA BecomesDueInv ==
    ASSUME IkhayaAssumption, NewsInv, NEW a \in Articles, BecomesDue(a) PROVE NewsInv'
<1>1. PICK row, copy :
         /\ row = [art[a] EXCEPT !.due = TRUE]
         /\ copy = IF cached[a] = None THEN None ELSE [cached[a] EXCEPT !.due = TRUE]
         /\ art' = [art EXCEPT ![a] = row] /\ cached' = [cached EXCEPT ![a] = copy]
  BY DEF BecomesDue
<1>2. /\ UNCHANGED <<comments, tx, raced, uncleared, lost, forms, subs, mailed, unseen>>
      /\ a \in Existing /\ art[a] \in Row
  BY DEF BecomesDue, told, Existing, NewsInv, Types
<1>3. /\ row \in Row /\ row.count = art[a].count /\ row.text = art[a].text
      /\ row # None /\ row # Gone
  BY <1>1, <1>2 DEF Row, IkhayaAssumption
<1>4. copy \in Row \union {None} /\ (copy = None <=> cached[a] = None)
  BY <1>1 DEF NewsInv, Types, Row, IkhayaAssumption
<1>5. /\ art'[a] = row /\ \A b \in Articles : b # a => art'[b] = art[b]
      /\ cached'[a] = copy /\ \A b \in Articles : b # a => cached'[b] = cached[b]
      /\ art' \in [Articles -> Row \union {None, Gone}]
      /\ cached' \in [Articles -> Row \union {None}]
  BY <1>1, <1>3, <1>4 DEF NewsInv, Types
<1>6. Existing' = Existing
  BY <1>2, <1>3, <1>5 DEF Existing
<1>7. \A t \in tx : t.a # a /\ t.a \in Existing
  BY DEF BecomesDue, Busy, NewsInv, InUse
<1>8. Types' /\ InUse'
  BY <1>2, <1>3, <1>5, <1>6 DEF NewsInv, Types, InUse
<1>9. CountsKept' /\ TextsKept'
  <2>1. /\ \A b \in Existing : art'[b].count = art[b].count
        /\ \A t \in tx : art'[t.a] = art[t.a]
    BY <1>3, <1>5, <1>7 DEF Existing
  <2>2. CountsKept'
    <3>1. CommentCount'
      BY <1>2, <1>6, <2>1 DEF NewsInv, CountsKept, CommentCount
    <3>2. QED
      BY <1>2, <3>1 DEF NewsInv, CountsKept
  <2>3. TextsKept'
    BY <1>2, <2>1 DEF NewsInv, TextsKept, NoSilentOverwrite
  <2>4. QED
    BY <2>2, <2>3
<1>10. MailsSent'
  BY <1>2 DEF NewsInv, MailsSent, SubscribersTold
<1>11. CopiesKept'
  <2>1. SameButCount(cached[a], art[a]) /\ cached[a] # None => SameButCount(copy, row)
    BY <1>1, <1>2 DEF SameButCount, NewsInv, Types, Row
  <2>2. CachedIsCurrent'
    BY <1>2, <1>4, <1>5, <1>6, <2>1
    DEF NewsInv, CopiesKept, CachedIsCurrent, SameButCount
  <2>3. QED
    BY <1>2, <1>5, <1>7, <2>2 DEF NewsInv, CopiesKept, Existing
<1>12. QED
  BY <1>8, <1>9, <1>10, <1>11 DEF NewsInv

LEMMA ChangeCommentInv ==
    ASSUME NewsInv, NEW a \in Articles, NEW i, ChangeComment(a, i) PROVE NewsInv'
<1>1. /\ i \in DOMAIN comments[a]
      /\ comments' = [comments EXCEPT ![a] = [comments[a] EXCEPT ![i] = ~comments[a][i]]]
      /\ UNCHANGED <<art, cached, tx, raced, uncleared, lost, forms, subs, mailed, unseen>>
  BY DEF ChangeComment, told
<1>2. PICK new : new = [comments[a] EXCEPT ![i] = ~comments[a][i]]
  OBVIOUS
<1>3. comments[a] \in Seq(BOOLEAN) /\ i \in 1..Len(comments[a])
  BY <1>1 DEF NewsInv, Types
<1>4. comments[a][i] \in BOOLEAN
  BY <1>3, ElementOfSeq
<1>5. new \in Seq(BOOLEAN) /\ Len(new) = Len(comments[a]) /\ new # <<>>
  BY <1>2, <1>3, <1>4, ExceptSeq
<1>6. /\ comments' \in [Articles -> Seq(BOOLEAN)]
      /\ \A b \in Articles : Len(comments'[b]) = Len(comments[b])
      /\ comments'[a] = new /\ \A b \in Articles : b # a => comments'[b] = comments[b]
  BY <1>1, <1>2, <1>5 DEF NewsInv, Types
<1>7. Existing' = Existing /\ comments[a] # <<>>
  BY <1>1, <1>3 DEF Existing
<1>8. Types' /\ InUse'
  BY <1>1, <1>6, <1>7 DEF NewsInv, Types, InUse
<1>9. CountsKept' /\ TextsKept'
  <2>1. /\ \A b \in Existing : Len(comments'[b]) = Len(comments[b])
        /\ \A t \in tx : Len(comments'[t.a]) = Len(comments[t.a])
    BY <1>6 DEF NewsInv, InUse, Existing
  <2>2. CountsKept'
    <3>1. CommentCount'
      BY <1>1, <1>7, <2>1 DEF NewsInv, CountsKept, CommentCount
    <3>2. QED
      BY <1>1, <2>1, <3>1 DEF NewsInv, CountsKept
  <2>3. TextsKept'
    BY <1>1, <1>7 DEF NewsInv, TextsKept, NoSilentOverwrite
  <2>4. QED
    BY <2>2, <2>3
<1>10. MailsSent'
  BY <1>1 DEF NewsInv, MailsSent, SubscribersTold
<1>11. CopiesKept'
  BY <1>1, <1>7 DEF NewsInv, CopiesKept, CachedIsCurrent
<1>12. QED
  BY <1>8, <1>9, <1>10, <1>11 DEF NewsInv

LEMMA CacheExpiresInv == ASSUME NewsInv, CacheExpires PROVE NewsInv'
<1>1. PICK a \in Articles : /\ cached' = [cached EXCEPT ![a] = None]
                            /\ uncleared' = uncleared \ {a}
  BY DEF CacheExpires
<1>2. UNCHANGED <<art, comments, tx, raced, lost, forms, subs, mailed, unseen>>
  BY DEF CacheExpires, told
<1>3. /\ cached' \in [Articles -> Row \union {None}] /\ cached'[a] = None
      /\ \A b \in Articles : b # a => cached'[b] = cached[b]
  BY <1>1 DEF NewsInv, Types
<1>4. Existing' = Existing
  BY <1>2 DEF Existing
<1>5. Types' /\ InUse' /\ CountsKept' /\ TextsKept'
  BY <1>2, <1>3, <1>4
  DEF NewsInv, Types, InUse, CountsKept, CommentCount, TextsKept, NoSilentOverwrite
<1>6. MailsSent'
  BY <1>2 DEF NewsInv, MailsSent, SubscribersTold
<1>7. CachedIsCurrent'
  BY <1>1, <1>2, <1>3, <1>4 DEF NewsInv, CopiesKept, CachedIsCurrent
<1>8. \A t \in tx : t.a \notin raced =>
         IF t.comment THEN SameButCount(t.row, art[t.a])
         ELSE t.a \in uncleared' \/ cached'[t.a] = None
  BY <1>1, <1>3 DEF NewsInv, CopiesKept, Types, Tx
<1>9. QED
  BY <1>2, <1>5, <1>6, <1>7, <1>8 DEF NewsInv, CopiesKept

LEMMA StepInv == ASSUME IkhayaAssumption, NewsInv, [Next]_vars PROVE NewsInv'
<1>1. CASE UNCHANGED vars
  BY <1>1 DEF vars, news, told, NewsInv, Types, InUse, CountsKept, CommentCount, TextsKept,
     NoSilentOverwrite, MailsSent, SubscribersTold, CopiesKept, CachedIsCurrent, Existing
<1>2. ASSUME NEW u \in Users, Index(u) PROVE NewsInv'
  BY <1>2, IndexInv
<1>3. ASSUME NEW u \in Users, NEW a \in Articles,
             Detail(u, a) \/ Subscribe(u, a) \/ Unsubscribe(u, a) \/ Comment(u, a)
      PROVE  NewsInv'
  BY <1>3, ReaderInv, CommentInv
<1>4. ASSUME NEW e \in Editors, NEW a \in Articles,
             Unpublish(e, a) \/ \E checksum \in 1..MaxText : SubmitForm(e, a, checksum)
      PROVE  NewsInv'
  BY <1>4, UnpublishInv, SubmitFormInv
<1>5. ASSUME NEW t \in tx, Commit(t) \/ Abort(t) PROVE NewsInv'
  BY <1>5, CommitInv, AbortInv
<1>6. ASSUME NEW a \in Articles, OpenForm(a) PROVE NewsInv'
  <2>1. /\ forms' = forms \union {<<a, art[a].text>>} /\ art[a] \in Row
        /\ UNCHANGED <<news, told>>
    BY <1>6 DEF OpenForm, Existing, NewsInv, Types
  <2>2. forms' \subseteq Articles \X (1..MaxText)
    BY <2>1 DEF NewsInv, Types, Row
  <2>3. QED
    BY <2>1, <2>2 DEF news, told, NewsInv, Types, InUse, CountsKept, CommentCount, TextsKept,
       NoSilentOverwrite, MailsSent, SubscribersTold, CopiesKept, CachedIsCurrent, Existing
<1>7. ASSUME NEW a \in Articles,
             \/ Create(a) \/ BecomesDue(a) \/ Delete(a)
             \/ \E i \in 1..MaxComments : ChangeComment(a, i)
      PROVE  NewsInv'
  BY <1>7, CreateInv, BecomesDueInv, DeleteInv, ChangeCommentInv
<1>8. CASE CacheExpires
  BY <1>8, CacheExpiresInv
<1>9. QED
  BY <1>1, <1>2, <1>3, <1>4, <1>5, <1>6, <1>7, <1>8 DEF Next

-----------------------------------------------------------------------------
(* The theorems.                                                           *)

\* Whatever requests overlap, the rows, copies, requests and mails keep together.
THEOREM NewsInvariant == ASSUME IkhayaAssumption PROVE Spec => []NewsInv
<1>1. Init => NewsInv
  BY InitInv
<1>2. NewsInv /\ [Next]_vars => NewsInv'
  BY StepInv
<1>3. QED
  BY <1>1, <1>2, PTL DEF Spec

\* Article.comment_count is the number of the comments unless requests on the
\* article overlapped, and then never more; an old article form overwrites no text
\* (Comment.save in ikhaya/models.py, the checksum in admin/views.py).
THEOREM ArticlesKeptHolds == ASSUME IkhayaAssumption PROVE Spec => []ArticlesKept
<1>1. NewsInv => ArticlesKept
  BY DEF NewsInv, CountsKept, TextsKept, ArticlesKept
<1>2. QED
  BY <1>1, NewsInvariant, PTL

\* Nobody is marked as notified who was not mailed, and no subscriber waits for
\* news of a comment unless requests overlapped (the comment form of
\* ikhaya/views.py).
THEOREM SubscribersToldHolds == ASSUME IkhayaAssumption PROVE Spec => []SubscribersTold
<1>1. NewsInv => SubscribersTold
  BY DEF NewsInv, MailsSent
<1>2. QED
  BY <1>1, NewsInvariant, PTL

\* Readers are served the article as it is, unless it was unpublished or deleted
\* since or a request on it overlapped another (get_cached in ikhaya/models.py).
THEOREM CachedCurrentHolds == ASSUME IkhayaAssumption PROVE Spec => []CachedIsCurrent
<1>1. NewsInv => CachedIsCurrent
  BY DEF NewsInv, CopiesKept
<1>2. QED
  BY <1>1, NewsInvariant, PTL

-----------------------------------------------------------------------------
(* The planet.                                                             *)

(* The job's blogs are as in the table, but for what was edited since.     *)
RowsRead ==
  /\ \A s, t \in todo : s.id = t.id => s = t
  /\ \A t \in todo : /\ t.row.active /\ t.row.last_sync = blog[t.id].last_sync
                     /\ t.row.edit # blog[t.id].edit => t.id \in meanwhile
  /\ items # Null => [id |-> items.blog, row |-> items.row] \in todo

(* The entries the job has read are those of the table, but for what was   *)
(* hidden or shown since.                                                  *)
SameHidden(g, row) == entry[g] # Null /\ (row.hidden # entry[g].hidden => g \in meanwhile)

ReadsTrue ==
  /\ JobRuns /\ snap # Null =>
       \A g \in Guids : IF snap[g] = Null THEN entry[g] = Null ELSE SameHidden(g, snap[g])
  /\ work # Null => /\ BlogOf[work.guid] = items.blog
                    /\ work.guid \in LongGuids => work.old = Null
                    /\ IF work.old = Null THEN work.guid \in LongGuids \/ entry[work.guid] = Null
                       ELSE SameHidden(work.guid, work.old)

(* Stored as that version and handed to the index; an entry with a long    *)
(* guid is only stored once.                                               *)
Finished(g, version) ==
  \/ <<g, version>> \in late
  \/ entry[g] # Null /\ (g \in LongGuids \/ (entry[g].version = version /\ queued[g] = version))

(* A complete item that looks older than the last session is finished.     *)
Due(g, item) ==
  item.complete /\ blog[BlogOf[g]].last_sync # 0 /\ item.updated <= blog[BlogOf[g]].last_sync
    => Finished(g, item.version)

(* What was fetched is what the author shows, or he has changed it too     *)
(* late; the job has every entry of a feed once.                           *)
Fetched(g, item) == Due(g, item) /\ (item = feed[g] \/ <<g, feed[g].version>> \in late)

InHand(w) == [version |-> w.version, updated |-> w.updated, complete |-> TRUE]

FetchedOnce ==
  /\ items # Null =>
       /\ \A i \in items.left : BlogOf[i.guid] = items.blog /\ Fetched(i.guid, i.item)
       /\ \A i, j \in items.left : i.guid = j.guid => i = j
  /\ work # Null => /\ Fetched(work.guid, InHand(work))
                    /\ \A i \in items.left : i.guid # work.guid

(* What an author shows is finished or still to be taken, and if the job   *)
(* works on his feed: finished, in hand or to be read.                     *)
SessionsFinish ==
  \A g \in Guids : feed[g] # Null /\ feed[g].complete =>
    /\ Due(g, feed[g])
    /\ items # Null /\ items.blog = BlogOf[g] =>
         \/ Finished(g, feed[g].version)
         \/ [guid |-> g, item |-> feed[g]] \in items.left
         \/ work # Null /\ work.guid = g /\ work.version = feed[g].version

PlanetInv ==
  /\ PlanetTypeOK /\ RowsRead /\ ReadsTrue /\ FetchedOnce /\ SessionsFinish
  /\ UndoneByRunningJob /\ UpdatesIndexed

LEMMA PlanetStart ==
    ASSUME PlanetAssumption, PlanetInit PROVE PlanetInv
<1>1. PlanetTypeOK
    BY DEF PlanetAssumption, PlanetInit, PlanetTypeOK, BlogRow
<1>2. RowsRead /\ ReadsTrue /\ FetchedOnce /\ UndoneByRunningJob
    BY DEF PlanetInit, RowsRead, ReadsTrue, FetchedOnce, UndoneByRunningJob
<1>3. SessionsFinish /\ UpdatesIndexed
    BY DEF PlanetInit, SessionsFinish, UpdatesIndexed, PlanetAssumption
<1> QED BY <1>1, <1>2, <1>3 DEF PlanetInv

-----------------------------------------------------------------------------
(* The authors, the administrators and the moderators.                     *)

LEMMA TickKeeps ==
    ASSUME PlanetAssumption, PlanetInv, Tick PROVE PlanetInv'
<1> USE DEF Tick, tables, job
<1>1. PlanetTypeOK'
    BY DEF PlanetInv, PlanetTypeOK, PlanetAssumption
<1>2. RowsRead' /\ ReadsTrue' /\ FetchedOnce' /\ UndoneByRunningJob' /\ UpdatesIndexed'
    BY DEF PlanetInv, RowsRead, ReadsTrue, SameHidden, FetchedOnce, Fetched, Due, Finished,
           UndoneByRunningJob, UpdatesIndexed, JobRuns
<1>3. SessionsFinish'
    BY DEF PlanetInv, SessionsFinish, Due, Finished
<1> QED BY <1>1, <1>2, <1>3 DEF PlanetInv

LEMMA PublishKeeps ==
    ASSUME PlanetAssumption, PlanetInv, NEW g \in Guids, Publish(g) PROVE PlanetInv'
<1> DEFINE v == NextVersion(g)
<1>1. PICK item \in FeedItem :
        /\ item.version = v /\ feed' = [feed EXCEPT ![g] = item]
        /\ late' = IF (items # Null /\ items.blog = BlogOf[g])
                      \/ item.updated <= blog[BlogOf[g]].last_sync
                   THEN late \union {<<g, v>>} ELSE late
    <2>1. PICK updated \in 1..MaxTime, complete \in BOOLEAN :
            /\ feed' = [feed EXCEPT ![g] = [version |-> v, updated |-> updated,
                                           complete |-> complete]]
            /\ late' = IF (items # Null /\ items.blog = BlogOf[g])
                          \/ updated <= blog[BlogOf[g]].last_sync
                       THEN late \union {<<g, v>>} ELSE late
        BY DEF Publish
    <2>2. v \in 1..MaxVersions
        <3>1. feed[g] # Null => feed[g].version \in Nat
            BY DEF PlanetInv, PlanetTypeOK, FeedItem
        <3> QED BY <3>1 DEF Publish, NextVersion, PlanetAssumption
    <2> DEFINE new == [version |-> v, updated |-> updated, complete |-> complete]
    <2>3. new \in FeedItem /\ new.version = v /\ new.updated = updated
        BY <2>2 DEF FeedItem
    <2> QED BY <2>1, <2>3
<1> HIDE DEF v
<1>2. UNCHANGED <<now, blog, entry, queued, todo, items, work, snap, undone, meanwhile>>
    BY DEF Publish, tables, job
<1>3. item # Null /\ feed \in [Guids -> FeedItem \union {Null}]
    BY DEF PlanetAssumption, PlanetInv, PlanetTypeOK
<1>4. feed'[g] = item /\ \A h \in Guids \ {g} : feed'[h] = feed[h]
    BY <1>1, <1>3
<1>5. late \subseteq late'
    BY <1>1
<1>6. items # Null /\ items.blog = BlogOf[g] => <<g, feed'[g].version>> \in late'
    BY <1>1, <1>4
<1>7. PlanetTypeOK'
    BY <1>1, <1>2, <1>3 DEF PlanetInv, PlanetTypeOK
<1>8. RowsRead' /\ ReadsTrue' /\ UndoneByRunningJob' /\ UpdatesIndexed'
    BY <1>2, <1>5 DEF PlanetInv, RowsRead, ReadsTrue, SameHidden, UndoneByRunningJob, JobRuns,
                      UpdatesIndexed
<1>9. /\ \A h, n : Finished(h, n) => Finished(h, n)'
      /\ \A h, j : Due(h, j) => Due(h, j)'
    BY <1>2, <1>5 DEF Finished, Due
<1>10. ASSUME NEW h \in Guids, NEW j, items # Null, BlogOf[h] = items.blog, Fetched(h, j)
       PROVE  Fetched(h, j)'
    <2>1. CASE h = g
        BY <1>6, <1>9, <1>10, <2>1 DEF Fetched
    <2>2. CASE h # g
        BY <1>4, <1>5, <1>9, <1>10, <2>2 DEF Fetched
    <2> QED BY <2>1, <2>2
<1>11. FetchedOnce'
    <2>1. ASSUME items # Null, NEW i \in items.left
          PROVE  BlogOf[i.guid] = items.blog /\ Fetched(i.guid, i.item)'
        <3>1. BlogOf[i.guid] = items.blog /\ Fetched(i.guid, i.item)
            BY <2>1 DEF PlanetInv, FetchedOnce
        <3>2. i.guid \in Guids
            BY <2>1 DEF PlanetInv, PlanetTypeOK, FeedItems
        <3> QED BY <1>10, <2>1, <3>1, <3>2
    <2>2. ASSUME work # Null
          PROVE  Fetched(work.guid, InHand(work))'
        <3>1. PICK h, k : h = work.guid /\ k = InHand(work)
            OBVIOUS
        <3>2. Fetched(h, k) /\ BlogOf[h] = items.blog /\ items # Null
            BY <2>2, <3>1 DEF PlanetInv, FetchedOnce, ReadsTrue, PlanetTypeOK
        <3>3. h \in Guids
            BY <2>2, <3>1 DEF PlanetInv, PlanetTypeOK, EntrySaved
        <3>4. Fetched(h, k)'
            BY <1>10, <3>2, <3>3
        <3>5. InHand(work)' = InHand(work)
            BY <1>2 DEF InHand
        <3> QED BY <1>2, <3>1, <3>4, <3>5
    <2> QED BY <1>2, <2>1, <2>2 DEF FetchedOnce, PlanetInv
<1>12. SessionsFinish'
    <2> SUFFICES ASSUME NEW h \in Guids, feed'[h] # Null, feed'[h].complete
                 PROVE  /\ Due(h, feed[h])'
                        /\ items # Null /\ items.blog = BlogOf[h] =>
                             \/ Finished(h, feed[h].version)'
                             \/ [guid |-> h, item |-> feed'[h]] \in items.left
                             \/ work # Null /\ work.guid = h /\ work.version = feed'[h].version
        BY <1>2 DEF SessionsFinish
    <2>1. CASE h # g
        <3>1. feed'[h] = feed[h]
            BY <1>4, <2>1
        <3>2. PICK j : j = feed[h]
            OBVIOUS
        <3>3. /\ Due(h, j)
              /\ items # Null /\ items.blog = BlogOf[h] =>
                   \/ Finished(h, j.version)
                   \/ [guid |-> h, item |-> j] \in items.left
                   \/ work # Null /\ work.guid = h /\ work.version = j.version
            BY <3>1, <3>2 DEF PlanetInv, SessionsFinish
        <3>4. Due(h, j)' /\ (Finished(h, j.version) => Finished(h, j.version)')
            BY <1>9, <3>3
        <3> QED BY <3>1, <3>2, <3>3, <3>4
    <2>2. CASE h = g
        <3>1. CASE <<g, item.version>> \in late'
            BY <1>4, <2>2, <3>1 DEF Due, Finished
        <3>2. CASE <<g, item.version>> \notin late'
            <4>1. ~(items # Null /\ items.blog = BlogOf[g])
                  /\ ~(item.updated <= blog[BlogOf[g]].last_sync)
                BY <1>1, <3>2
            <4> QED BY <1>2, <1>4, <2>2, <4>1 DEF Due
        <3> QED BY <3>1, <3>2
    <2> QED BY <2>1, <2>2
<1> QED BY <1>7, <1>8, <1>11, <1>12 DEF PlanetInv

LEMMA EditBlogKeeps ==
    ASSUME PlanetAssumption, PlanetInv, NEW b \in Blogs, EditBlog(b) PROVE PlanetInv'
<1>1. PICK active \in BOOLEAN :
         blog' = [blog EXCEPT ![b].edit = @ + 1, ![b].active = active]
    BY DEF EditBlog
<1>2. /\ blog[b].edit < MaxEdits /\ Changed(b) /\ undone' = undone \ {b}
      /\ UNCHANGED <<now, feed, entry, queued, todo, items, work, snap, late>>
    BY DEF EditBlog, env, job
<1>3. blog \in [Blogs -> BlogRow] /\ blog[b] \in BlogRow
    BY DEF PlanetInv, PlanetTypeOK
<1>4. /\ blog'[b] = [edit |-> blog[b].edit + 1, active |-> active, last_sync |-> blog[b].last_sync]
      /\ \A c \in Blogs \ {b} : blog'[c] = blog[c]
    BY <1>1, <1>3 DEF BlogRow
<1>5. blog'[b] \in BlogRow /\ \A c \in Blogs : blog'[c].last_sync = blog[c].last_sync
    BY <1>2, <1>3, <1>4 DEF BlogRow, PlanetAssumption
<1>6. blog' \in [Blogs -> BlogRow]
    BY <1>1, <1>3, <1>4, <1>5
<1>7. PlanetTypeOK'
    BY <1>2, <1>6 DEF PlanetInv, PlanetTypeOK
<1>8. meanwhile \subseteq meanwhile' /\ (JobRuns => b \in meanwhile')
    BY <1>2 DEF Changed
<1>9. RowsRead'
    <2>1. ASSUME NEW t \in todo
          PROVE  /\ t.row.active /\ t.row.last_sync = blog'[t.id].last_sync
                 /\ t.row.edit # blog'[t.id].edit => t.id \in meanwhile'
        <3>1. t.id \in Blogs /\ JobRuns
            BY DEF PlanetInv, PlanetTypeOK, JobRuns
        <3> QED BY <1>4, <1>5, <1>8, <3>1 DEF PlanetInv, RowsRead
    <2> QED BY <1>2, <2>1 DEF PlanetInv, RowsRead
<1>10. ReadsTrue'
    BY <1>2, <1>8 DEF PlanetInv, ReadsTrue, SameHidden, JobRuns
<1>11. /\ \A h \in Guids : \A j : Due(h, j)' <=> Due(h, j)
       /\ \A h, n : Finished(h, n)' <=> Finished(h, n)
    BY <1>2, <1>5 DEF Due, Finished, PlanetAssumption
<1>12. FetchedOnce' /\ UpdatesIndexed'
    <2>1. UpdatesIndexed'
        BY <1>2 DEF PlanetInv, UpdatesIndexed
    <2>2. items # Null => \A i \in items.left : i.guid \in Guids
        BY DEF PlanetInv, PlanetTypeOK, FeedItems
    <2>3. work # Null => work.guid \in Guids
        BY DEF PlanetInv, PlanetTypeOK, EntrySaved
    <2>4. \A h \in Guids : \A j : Fetched(h, j)' <=> Fetched(h, j)
        BY <1>2, <1>11 DEF Fetched
    <2>5. InHand(work)' = InHand(work)
        BY <1>2 DEF InHand
    <2> QED BY <1>2, <2>1, <2>2, <2>3, <2>4, <2>5 DEF PlanetInv, FetchedOnce
<1>13. SessionsFinish'
    BY <1>2, <1>11 DEF PlanetInv, SessionsFinish
<1>14. UndoneByRunningJob'
    BY <1>2, <1>8 DEF PlanetInv, UndoneByRunningJob
<1> QED BY <1>7, <1>9, <1>10, <1>12, <1>13, <1>14 DEF PlanetInv

(* Only the update that is saved is handed to the index.                   *)
LEMMA AskedOne ==
    ASSUME NEW row, NEW g, NEW version, NEW updated
    PROVE  \A h \in Guids : h # g => Asked(row, g, version, updated)[h] = queued[h]
BY DEF Asked

LEMMA AskedFor ==
    ASSUME NEW row, NEW g \in Guids, NEW version, NEW updated, queued = [h \in Guids |-> queued[h]]
    PROVE  Asked(row, g, version, updated)[g] \in {version, queued[g]}
BY DEF Asked

LEMMA HideEntryKeeps ==
    ASSUME PlanetAssumption, PlanetInv, NEW g \in Guids, HideEntry(g) PROVE PlanetInv'
<1>1. /\ entry[g] # Null /\ entry' = [entry EXCEPT ![g].hidden = ~@]
      /\ queued' = Asked(blog[BlogOf[g]], g, entry[g].version, entry[g].updated)
      /\ Changed(g) /\ undone' = undone \ {g}
      /\ UNCHANGED <<now, feed, blog, todo, items, work, snap, late>>
    BY DEF HideEntry, env, job
<1>2. entry \in [Guids -> EntryRow \union {Null}] /\ entry[g] \in EntryRow
    BY <1>1 DEF PlanetInv, PlanetTypeOK
<1>3. /\ entry'[g] = [version |-> entry[g].version, updated |-> entry[g].updated,
                       hidden |-> ~entry[g].hidden]
      /\ \A h \in Guids \ {g} : entry'[h] = entry[h]
    BY <1>1, <1>2 DEF EntryRow
<1>4. entry'[g] \in EntryRow
    BY <1>2, <1>3 DEF EntryRow
<1>5. entry' \in [Guids -> EntryRow \union {Null}]
    BY <1>1, <1>2, <1>3, <1>4
<1>6. \A h \in Guids : (entry'[h] # Null <=> entry[h] # Null)
                       /\ (entry[h] # Null => entry'[h].version = entry[h].version)
    BY <1>1, <1>3, <1>4 DEF PlanetAssumption
<1>7. meanwhile \subseteq meanwhile' /\ (JobRuns => g \in meanwhile')
    BY <1>1 DEF Changed
<1>8. /\ queued = [h \in Guids |-> queued[h]]
      /\ queued' \in [Guids -> 1..MaxVersions \union {Null}]
    BY <1>1, <1>2 DEF PlanetInv, PlanetTypeOK, Asked, EntryRow
<1>9. \A h \in Guids : queued'[h] = queued[h] \/ (h = g /\ queued'[h] = entry[h].version)
    BY <1>1, <1>8, AskedOne, AskedFor
<1>10. PlanetTypeOK'
    BY <1>1, <1>5, <1>8 DEF PlanetInv, PlanetTypeOK
<1>11. RowsRead' /\ UndoneByRunningJob'
    BY <1>1, <1>7 DEF PlanetInv, RowsRead, UndoneByRunningJob
<1>12. ReadsTrue'
    <2>1. ASSUME NEW h \in Guids, NEW row, JobRuns, SameHidden(h, row) PROVE SameHidden(h, row)'
        BY <1>3, <1>6, <1>7, <2>1 DEF SameHidden
    <2>2. work # Null => JobRuns /\ work.guid \in Guids
        BY DEF PlanetInv, PlanetTypeOK, JobRuns, EntrySaved
    <2>3. JobRuns' = JobRuns
        BY <1>1 DEF JobRuns
    <2>4. ASSUME JobRuns, snap # Null, NEW h \in Guids
          PROVE  IF snap[h] = Null THEN entry'[h] = Null ELSE SameHidden(h, snap[h])'
        <3>1. PICK row : row = snap[h]
            OBVIOUS
        <3>2. IF row = Null THEN entry[h] = Null ELSE SameHidden(h, row)
            BY <2>4, <3>1 DEF PlanetInv, ReadsTrue
        <3>3. IF row = Null THEN entry'[h] = Null ELSE SameHidden(h, row)'
            BY <1>6, <2>1, <2>4, <3>2
        <3> QED BY <1>1, <3>1, <3>3
    <2>5. ASSUME work # Null
          PROVE  /\ BlogOf[work.guid] = items.blog
                 /\ work.guid \in LongGuids => work.old = Null
                 /\ IF work.old = Null THEN work.guid \in LongGuids \/ entry'[work.guid] = Null
                    ELSE SameHidden(work.guid, work.old)'
        <3>1. PICK row, h : row = work.old /\ h = work.guid
            OBVIOUS
        <3>2. /\ BlogOf[h] = items.blog /\ (h \in LongGuids => row = Null)
              /\ IF row = Null THEN h \in LongGuids \/ entry[h] = Null ELSE SameHidden(h, row)
            BY <2>5, <3>1 DEF PlanetInv, ReadsTrue
        <3>3. IF row = Null THEN h \in LongGuids \/ entry'[h] = Null ELSE SameHidden(h, row)'
            BY <1>6, <2>1, <2>2, <2>5, <3>1, <3>2
        <3> QED BY <1>1, <3>1, <3>2, <3>3
    <2> QED BY <1>1, <2>3, <2>4, <2>5 DEF ReadsTrue
<1>13. \A h \in Guids : \A n : Finished(h, n) => Finished(h, n)'
    BY <1>1, <1>6, <1>9 DEF Finished
<1>14. UpdatesIndexed'
    BY <1>1, <1>6, <1>9 DEF PlanetInv, UpdatesIndexed
<1>15. \A h \in Guids : \A j : Due(h, j) => Due(h, j)'
    BY <1>1, <1>13 DEF Due
<1>16. SessionsFinish'
    BY <1>1, <1>13, <1>15 DEF PlanetInv, SessionsFinish
<1>17. FetchedOnce'
    <2>1. \A h \in Guids : \A j : Fetched(h, j) => Fetched(h, j)'
        BY <1>1, <1>15 DEF Fetched
    <2>2. items # Null => \A i \in items.left : i.guid \in Guids
        BY DEF PlanetInv, PlanetTypeOK, FeedItems
    <2>3. work # Null => work.guid \in Guids
        BY DEF PlanetInv, PlanetTypeOK, EntrySaved
    <2>4. InHand(work)' = InHand(work)
        BY <1>1 DEF InHand
    <2> QED BY <1>1, <2>1, <2>2, <2>3, <2>4 DEF PlanetInv, FetchedOnce
<1> QED BY <1>10, <1>11, <1>12, <1>14, <1>16, <1>17 DEF PlanetInv

-----------------------------------------------------------------------------
(* The job.                                                                *)

LEMMA StartKeeps ==
    ASSUME PlanetAssumption, PlanetInv, Start PROVE PlanetInv'
<1>1. /\ ~JobRuns /\ todo' = {[id |-> b, row |-> blog[b]] : b \in {c \in Blogs : blog[c].active}}
      /\ snap' = entry /\ meanwhile' = {} /\ undone' = {}
      /\ UNCHANGED <<now, feed, blog, entry, queued, items, work, late>>
    BY DEF Start, env, tables
<1>2. items = Null /\ work = Null
    BY <1>1 DEF PlanetInv, PlanetTypeOK, JobRuns
<1>3. \A t \in todo' : t \in [id : Blogs, row : BlogRow] /\ t.row = blog[t.id] /\ t.row.active
    BY <1>1 DEF PlanetInv, PlanetTypeOK
<1>4. PlanetTypeOK'
    BY <1>1, <1>2, <1>3 DEF PlanetInv, PlanetTypeOK
<1>5. RowsRead'
    <2>1. \A s, t \in todo' : s.id = t.id => s = t
        BY <1>1
    <2> QED BY <1>1, <1>2, <1>3, <2>1 DEF RowsRead
<1>6. ReadsTrue'
    BY <1>1, <1>2 DEF ReadsTrue, SameHidden
<1>7. FetchedOnce' /\ SessionsFinish' /\ UndoneByRunningJob' /\ UpdatesIndexed'
    BY <1>1, <1>2 DEF PlanetInv, FetchedOnce, SessionsFinish, Due, Finished,
                      UndoneByRunningJob, UpdatesIndexed
<1> QED BY <1>4, <1>5, <1>6, <1>7 DEF PlanetInv

LEMMA FetchKeeps ==
    ASSUME PlanetAssumption, PlanetInv, NEW t \in todo, Fetch(t) PROVE PlanetInv'
<1>1. items = Null /\ UNCHANGED <<now, feed, blog, entry, queued, work, snap, undone, meanwhile, late>>
    BY DEF Fetch, env, tables
<1>2. work = Null
    BY <1>1 DEF PlanetInv, PlanetTypeOK
<1>3. UpdatesIndexed' /\ UndoneByRunningJob'
    BY <1>1 DEF PlanetInv, UpdatesIndexed, UndoneByRunningJob
<1>4. CASE todo' = todo \ {t} /\ items' = items
    <2>1. PlanetTypeOK'
        BY <1>1, <1>2, <1>4 DEF PlanetInv, PlanetTypeOK
    <2>2. RowsRead' /\ ReadsTrue'
        BY <1>1, <1>2, <1>4 DEF PlanetInv, RowsRead, ReadsTrue, SameHidden, JobRuns
    <2>3. FetchedOnce' /\ SessionsFinish'
        BY <1>1, <1>2, <1>4 DEF PlanetInv, FetchedOnce, SessionsFinish, Due, Finished
    <2> QED BY <1>3, <2>1, <2>2, <2>3 DEF PlanetInv
<1>5. CASE /\ todo' = todo
           /\ items' = [blog |-> t.id, row |-> t.row,
                        left |-> {[guid |-> g, item |-> feed[g]] :
                                    g \in {h \in Guids : BlogOf[h] = t.id /\ feed[h] # Null}}]
    <2>1. t \in [id : Blogs, row : BlogRow]
        BY DEF PlanetInv, PlanetTypeOK
    <2>2. PICK left : left = {[guid |-> g, item |-> feed[g]] :
                                g \in {h \in Guids : BlogOf[h] = t.id /\ feed[h] # Null}}
        OBVIOUS
    <2>3. items' = [blog |-> t.id, row |-> t.row, left |-> left]
        BY <1>5, <2>2
    <2>4. \A i \in left : /\ i \in [guid : Guids, item : FeedItem]
                          /\ BlogOf[i.guid] = t.id /\ i.item = feed[i.guid] /\ feed[i.guid] # Null
        BY <2>2 DEF PlanetInv, PlanetTypeOK
    <2>5. items' \in FeedItems /\ items'.blog = t.id /\ items'.row = t.row /\ items'.left = left
        BY <2>1, <2>3, <2>4 DEF FeedItems
    <2>6. PlanetTypeOK'
        BY <1>1, <1>2, <1>5, <2>5 DEF PlanetInv, PlanetTypeOK
    <2>7. t = [id |-> t.id, row |-> t.row]
        BY <2>1
    <2>8. RowsRead'
        BY <1>1, <1>5, <2>5, <2>7 DEF PlanetInv, RowsRead
    <2>9. ReadsTrue'
        BY <1>1, <1>2, <1>5 DEF PlanetInv, ReadsTrue, SameHidden, JobRuns
    <2>10. FetchedOnce'
        <3>1. \A i \in left : i.item.complete => Due(i.guid, i.item)
            <4> SUFFICES ASSUME NEW i \in left, i.item.complete
                         PROVE  Due(i.guid, i.item)
                OBVIOUS
            <4>1. i.guid \in Guids /\ i.item = feed[i.guid] /\ feed[i.guid] # Null
                BY <2>4
            <4>2. Due(i.guid, feed[i.guid])
                BY <4>1 DEF PlanetInv, SessionsFinish
            <4> QED BY <4>1, <4>2
        <3>2. \A i \in left : Due(i.guid, i.item)
            BY <3>1 DEF Due
        <3>3. \A i \in left : Fetched(i.guid, i.item)'
            BY <1>1, <2>4, <3>2 DEF Fetched, Due, Finished
        <3>4. \A i, j \in left : i.guid = j.guid => i = j
            BY <2>2
        <3> QED BY <1>1, <1>2, <2>4, <2>5, <3>3, <3>4 DEF FetchedOnce
    <2>11. SessionsFinish'
        <3>1. \A g \in Guids : BlogOf[g] = t.id /\ feed[g] # Null
                                 => [guid |-> g, item |-> feed[g]] \in left
            BY <2>2
        <3> QED BY <1>1, <1>2, <2>5, <3>1 DEF PlanetInv, SessionsFinish, Due, Finished
    <2> QED BY <1>3, <2>6, <2>8, <2>9, <2>10, <2>11 DEF PlanetInv
<1> QED BY <1>4, <1>5 DEF Fetch

LEMMA ReadEntryKeeps ==
    ASSUME PlanetAssumption, PlanetInv, items # Null, NEW i \in items.left, ReadEntry(i)
    PROVE  PlanetInv'
<1>1. /\ work = Null /\ snap' = IF snap = Null THEN entry ELSE snap
      /\ work' = IF i.item.complete
                 THEN [guid |-> i.guid, version |-> i.item.version, updated |-> i.item.updated,
                       old |-> OldEntry(i.guid, snap')]
                 ELSE Null
      /\ items' = [items EXCEPT !.left = @ \ {i}]
      /\ UNCHANGED <<now, feed, blog, entry, queued, todo, undone, meanwhile, late>>
    BY DEF ReadEntry, env, tables
<1>2. items \in FeedItems /\ i \in [guid : Guids, item : FeedItem] /\ JobRuns
    BY DEF PlanetInv, PlanetTypeOK, FeedItems, JobRuns
<1>3. /\ items' = [blog |-> items.blog, row |-> items.row, left |-> items.left \ {i}]
      /\ items' \in FeedItems /\ items' # Null
    BY <1>1, <1>2 DEF FeedItems, PlanetAssumption
<1>4. items'.blog = items.blog /\ items'.row = items.row /\ items'.left = items.left \ {i}
    BY <1>3
<1>5. snap' \in [Guids -> EntryRow \union {Null}] /\ snap' # Null
    BY <1>1 DEF PlanetInv, PlanetTypeOK, PlanetAssumption
<1>6. ASSUME NEW g \in Guids
      PROVE  IF snap'[g] = Null THEN entry[g] = Null ELSE SameHidden(g, snap'[g])
    BY <1>1, <1>2 DEF PlanetInv, ReadsTrue, SameHidden
<1>7. work' # Null => /\ work' \in EntrySaved
                      /\ work'.guid = i.guid /\ work'.updated = i.item.updated
                      /\ work'.version = i.item.version
                      /\ work'.old = OldEntry(i.guid, snap') /\ i.item.complete = TRUE
    <2>1. OldEntry(i.guid, snap') \in EntryRow \union {Null}
        BY <1>2, <1>5 DEF OldEntry
    <2> QED BY <1>1, <1>2, <2>1 DEF EntrySaved, FeedItem
<1>8. BlogOf[i.guid] = items.blog /\ Fetched(i.guid, i.item)
    BY DEF PlanetInv, FetchedOnce
<1>9. PlanetTypeOK'
    <2>1. work' \in EntrySaved \union {Null}
        BY <1>7
    <2> QED BY <1>1, <1>3, <1>4, <1>5, <2>1 DEF PlanetInv, PlanetTypeOK
<1>10. RowsRead' /\ UndoneByRunningJob' /\ UpdatesIndexed'
    BY <1>1, <1>4 DEF PlanetInv, RowsRead, UndoneByRunningJob, UpdatesIndexed
<1>11. ReadsTrue'
    <2>1. ASSUME work' # Null
          PROVE  /\ BlogOf[work'.guid] = items'.blog
                 /\ work'.guid \in LongGuids => work'.old = Null
                 /\ IF work'.old = Null THEN work'.guid \in LongGuids \/ entry[work'.guid] = Null
                    ELSE SameHidden(work'.guid, work'.old)
        <3>1. /\ i.guid \in LongGuids => OldEntry(i.guid, snap') = Null
              /\ IF OldEntry(i.guid, snap') = Null THEN i.guid \in LongGuids \/ entry[i.guid] = Null
                 ELSE SameHidden(i.guid, OldEntry(i.guid, snap'))
            BY <1>2, <1>6 DEF OldEntry
        <3> QED BY <1>4, <1>7, <1>8, <2>1, <3>1
    <2> QED BY <1>1, <1>6, <2>1 DEF ReadsTrue, SameHidden
<1>12. FetchedOnce'
    <2>1. work' # Null => i.item = InHand(work)'
        BY <1>2, <1>7 DEF FeedItem, InHand
    <2>2. work' # Null => Fetched(work'.guid, InHand(work)')
        BY <1>7, <1>8, <2>1
    <2>3. \A j \in items'.left : BlogOf[j.guid] = items'.blog /\ Fetched(j.guid, j.item)
        BY <1>4 DEF PlanetInv, FetchedOnce
    <2>4. \A j \in items'.left : j.guid # i.guid /\ \A k \in items'.left : j.guid = k.guid => j = k
        BY <1>4 DEF PlanetInv, FetchedOnce
    <2>5. \A h, j : Fetched(h, j)' <=> Fetched(h, j)
        BY <1>1 DEF Fetched, Due, Finished
    <2>6. work' # Null => work'.guid = i.guid
        BY <1>7
    <2>7. work' # Null => Fetched(work.guid, InHand(work))'
        BY <2>2, <2>5
    <2> QED BY <2>3, <2>4, <2>5, <2>6, <2>7 DEF FetchedOnce
<1>13. SessionsFinish'
    <2> SUFFICES ASSUME NEW g \in Guids, feed[g] # Null, feed[g].complete
                 PROVE  /\ Due(g, feed[g])
                        /\ items.blog = BlogOf[g] =>
                             \/ Finished(g, feed[g].version)
                             \/ [guid |-> g, item |-> feed[g]] \in items.left \ {i}
                             \/ work' # Null /\ work'.guid = g /\ work'.version = feed[g].version
        BY <1>1, <1>3, <1>4 DEF SessionsFinish, Due, Finished
    <2>1. [guid |-> g, item |-> feed[g]] = i =>
            work' # Null /\ work'.guid = g /\ work'.version = feed[g].version
        <3> SUFFICES ASSUME [guid |-> g, item |-> feed[g]] = i
                     PROVE  work' # Null /\ work'.guid = g /\ work'.version = feed[g].version
            OBVIOUS
        <3>1. i.guid = g /\ i.item = feed[g]
            OBVIOUS
        <3>2. OldEntry(i.guid, snap') \in EntryRow \union {Null}
            BY <1>2, <1>5 DEF OldEntry
        <3> DEFINE w == [guid |-> i.guid, version |-> i.item.version, updated |-> i.item.updated,
                         old |-> OldEntry(i.guid, snap')]
        <3>3. w \in EntrySaved /\ w.guid = i.guid /\ w.version = i.item.version
            BY <1>2, <3>2 DEF EntrySaved, FeedItem
        <3>4. work' = w
            BY <1>1, <3>1
        <3> HIDE DEF w
        <3> QED BY <3>1, <3>3, <3>4 DEF PlanetAssumption
    <2> QED BY <1>1, <2>1 DEF PlanetInv, SessionsFinish
<1> QED BY <1>9, <1>10, <1>11, <1>12, <1>13 DEF PlanetInv

(* The entry is on time for the index, late, or finished before.           *)
LEMMA SaveEntryKeeps ==
    ASSUME PlanetAssumption, PlanetInv, SaveEntry PROVE PlanetInv'
<1>1. /\ work # Null /\ work' = Null
      /\ UNCHANGED <<now, feed, blog, todo, items, meanwhile, late>>
    BY DEF SaveEntry, env
<1>2. PICK g \in Guids : g = work.guid
    BY <1>1 DEF PlanetInv, PlanetTypeOK, EntrySaved
<1>3. /\ items # Null /\ BlogOf[g] = items.blog /\ JobRuns /\ work \in EntrySaved
      /\ Fetched(g, InHand(work))
    BY <1>1, <1>2 DEF PlanetInv, PlanetTypeOK, ReadsTrue, FetchedOnce, JobRuns
<1>4. /\ <<g, feed[g].version>> \in late \/ work.version = feed[g].version
      /\ Due(g, [version |-> work.version, updated |-> work.updated, complete |-> TRUE])
    <2>1. feed[g] = InHand(work) => feed[g].version = work.version
        BY DEF InHand
    <2> QED BY <1>3, <2>1 DEF Fetched, InHand
<1>5. RowsRead'
    BY <1>1 DEF PlanetInv, RowsRead
<1>6. ASSUME \A h \in Guids \ {g} : /\ queued'[h] = queued[h] /\ entry'[h] = entry[h]
      PROVE  FetchedOnce'
    <2>1. \A h \in Guids \ {g} : \A j : Fetched(h, j) => Fetched(h, j)'
        BY <1>1, <1>6 DEF Fetched, Due, Finished
    <2>2. \A i \in items.left : i.guid \in Guids \ {g}
        BY <1>1, <1>2, <1>3 DEF PlanetInv, PlanetTypeOK, FeedItems, FetchedOnce
    <2> QED BY <1>1, <2>1, <2>2 DEF PlanetInv, FetchedOnce
<1>7. CASE work.old = Null /\ entry[g] # Null
    <2>1. UNCHANGED <<entry, queued, snap, undone>> /\ g \in LongGuids
        BY <1>1, <1>2, <1>7 DEF SaveEntry, PlanetInv, ReadsTrue
    <2>2. PlanetTypeOK' /\ ReadsTrue' /\ UndoneByRunningJob' /\ UpdatesIndexed'
        BY <1>1, <2>1 DEF PlanetInv, PlanetTypeOK, ReadsTrue, SameHidden,
                          UndoneByRunningJob, UpdatesIndexed, JobRuns
    <2>3. \A n : Finished(g, n)
        BY <1>7, <2>1 DEF Finished
    <2>4. SessionsFinish'
        BY <1>1, <1>2, <2>1, <2>3 DEF PlanetInv, SessionsFinish, Due, Finished
    <2> QED BY <1>5, <1>6, <2>1, <2>2, <2>4 DEF PlanetInv
<1>8. CASE ~(work.old = Null /\ entry[g] # Null)
    <2>1. PICK row : row = Synced(work)
        OBVIOUS
    <2>2. /\ entry' = [entry EXCEPT ![g] = row]
          /\ queued' = Asked(items.row, g, work.version, work.updated) /\ snap' = Null
          /\ undone' = IF entry[g] # Null /\ entry[g].hidden # row.hidden
                       THEN undone \union {g} ELSE undone
        BY <1>1, <1>2, <1>8, <2>1 DEF SaveEntry
    <2>3. row \in EntryRow /\ row.version = work.version /\ row # Null
          /\ row.hidden = IF work.old = Null THEN FALSE ELSE work.old.hidden
        <3>1. work.old \in EntryRow \union {Null} /\ work.updated \in 1..MaxTime
              /\ work.version \in 1..MaxVersions
            BY <1>3 DEF EntrySaved, PlanetAssumption
        <3>2. PICK hidden \in BOOLEAN : hidden = IF work.old = Null THEN FALSE ELSE work.old.hidden
            BY <3>1 DEF EntryRow
        <3>3. row = [version |-> work.version, updated |-> work.updated, hidden |-> hidden]
            BY <2>1, <3>2 DEF Synced
        <3>4. row \in EntryRow /\ row.version = work.version /\ row.hidden = hidden
            BY <3>1, <3>3 DEF EntryRow
        <3> QED BY <3>2, <3>4 DEF PlanetAssumption
    <2>4. entry'[g] = row /\ (\A h \in Guids \ {g} : entry'[h] = entry[h])
          /\ entry' \in [Guids -> EntryRow \union {Null}]
        BY <2>2, <2>3 DEF PlanetInv, PlanetTypeOK
    <2>5. /\ queued = [h \in Guids |-> queued[h]]
          /\ queued' \in [Guids -> 1..MaxVersions \union {Null}]
        BY <1>3, <2>2 DEF PlanetInv, PlanetTypeOK, Asked, EntrySaved
    <2>6. \A h \in Guids \ {g} : queued'[h] = queued[h]
        BY <2>2, AskedOne
    <2>7. PlanetTypeOK'
        BY <1>1, <2>2, <2>4, <2>5 DEF PlanetInv, PlanetTypeOK
    <2>8. ReadsTrue'
        BY <1>1, <2>2 DEF ReadsTrue
    <2>10. UndoneByRunningJob'
        <3>1. entry[g] # Null /\ entry[g].hidden # row.hidden => g \in meanwhile
            BY <1>1, <1>2, <1>8, <2>3 DEF PlanetInv, ReadsTrue, SameHidden
        <3> QED BY <1>1, <2>2, <3>1 DEF PlanetInv, UndoneByRunningJob
    <2>11. ASSUME <<g, work.version>> \notin late PROVE queued'[g] = work.version
        <3>1. items.row.active /\ items.row.last_sync = blog[BlogOf[g]].last_sync
            BY <1>3 DEF PlanetInv, RowsRead
        <3>2. items.row.last_sync \in Nat /\ work.updated \in Nat
            BY <1>3 DEF PlanetInv, PlanetTypeOK, FeedItems, BlogRow, EntrySaved, PlanetAssumption
        <3>3. CASE items.row.last_sync = 0 \/ work.updated > items.row.last_sync
            BY <2>2, <2>5, <3>1, <3>3 DEF Asked
        <3>4. CASE items.row.last_sync # 0 /\ work.updated <= items.row.last_sync
            <4>1. Finished(g, work.version)
                BY <1>4, <3>1, <3>4 DEF Due
            <4>2. entry[g] # Null
                BY <2>11, <4>1 DEF Finished
            <4>3. g \notin LongGuids
                BY <1>1, <1>2, <1>8, <4>2 DEF PlanetInv, ReadsTrue
            <4>4. queued[g] = work.version
                BY <2>11, <4>1, <4>3 DEF Finished
            <4> QED BY <2>2, <2>5, <4>4, AskedFor
        <3> QED BY <3>2, <3>3, <3>4
    <2>12. UpdatesIndexed'
        <3> SUFFICES ASSUME NEW h \in Guids, entry'[h] # Null
                     PROVE  queued'[h] = entry'[h].version \/ <<h, entry'[h].version>> \in late
            BY <1>1 DEF UpdatesIndexed
        <3>1. CASE h = g
            BY <2>3, <2>4, <2>11, <3>1
        <3>2. CASE h # g
            BY <2>4, <2>6, <3>2 DEF PlanetInv, UpdatesIndexed
        <3> QED BY <3>1, <3>2
    <2>13. SessionsFinish'
        <3>1. Finished(g, feed[g].version)'
            <4>1. \/ <<g, feed[g].version>> \in late
                  \/ entry'[g].version = feed[g].version /\ queued'[g] = entry'[g].version
                BY <1>4, <2>3, <2>4, <2>11
            <4> QED BY <1>1, <2>3, <2>4, <4>1 DEF Finished
        <3>2. \A h \in Guids \ {g} : \A n : Finished(h, n) => Finished(h, n)'
            BY <1>1, <2>4, <2>6 DEF Finished
        <3> SUFFICES ASSUME NEW h \in Guids, feed[h] # Null, feed[h].complete
                     PROVE  /\ Due(h, feed[h])'
                            /\ items # Null /\ items.blog = BlogOf[h] =>
                                 \/ Finished(h, feed[h].version)'
                                 \/ [guid |-> h, item |-> feed[h]] \in items.left
            BY <1>1 DEF SessionsFinish
        <3>3. CASE h = g
            BY <1>1, <3>1, <3>3 DEF Due
        <3>4. CASE h # g
            <4>1. Due(h, feed[h]) => Due(h, feed[h])'
                BY <1>1, <3>2, <3>4 DEF Due
            <4>2. Finished(h, feed[h].version) => Finished(h, feed[h].version)'
                BY <1>1, <3>2, <3>4
            <4> QED BY <1>2, <3>4, <4>1, <4>2 DEF PlanetInv, SessionsFinish
        <3> QED BY <3>3, <3>4
    <2> QED BY <1>5, <1>6, <2>4, <2>6, <2>7, <2>8, <2>10, <2>12, <2>13 DEF PlanetInv
<1> QED BY <1>7, <1>8

(* The blog is saved as it was read; what was edited meanwhile is put back.*)
LEMMA SaveBlogKeeps ==
    ASSUME PlanetAssumption, PlanetInv, SaveBlog PROVE PlanetInv'
<1>1. PICK b \in Blogs : b = items.blog
    BY DEF SaveBlog, PlanetInv, PlanetTypeOK, FeedItems
<1>2. PICK row : row = [items.row EXCEPT !.last_sync = now]
    OBVIOUS
<1>3. /\ items # Null /\ items.left = {} /\ work = Null
      /\ blog' = [blog EXCEPT ![b] = row]
      /\ undone' = IF blog[b].edit # items.row.edit THEN undone \union {b} ELSE undone
      /\ todo' = {t \in todo : t.id # b}
      /\ items' = Null /\ snap' = Null
      /\ UNCHANGED <<now, feed, entry, queued, work, meanwhile, late>>
    BY <1>1, <1>2 DEF SaveBlog, env
<1>4. items.row \in BlogRow /\ now \in 1..MaxTime
    BY <1>3 DEF PlanetInv, PlanetTypeOK, FeedItems
<1>5. row \in BlogRow /\ row.last_sync = now
    BY <1>2, <1>4 DEF BlogRow, PlanetAssumption
<1>6. /\ blog'[b] = row /\ (\A c \in Blogs \ {b} : blog'[c] = blog[c])
      /\ blog' \in [Blogs -> BlogRow]
    BY <1>3, <1>5 DEF PlanetInv, PlanetTypeOK
<1>7. PlanetTypeOK'
    BY <1>3, <1>6 DEF PlanetInv, PlanetTypeOK
<1>8. RowsRead'
    <2>1. ASSUME NEW t \in todo, t.id # b
          PROVE  /\ t.row.active /\ t.row.last_sync = blog'[t.id].last_sync
                 /\ t.row.edit # blog'[t.id].edit => t.id \in meanwhile
        <3>1. t.id \in Blogs
            BY DEF PlanetInv, PlanetTypeOK
        <3> QED BY <1>6, <2>1, <3>1 DEF PlanetInv, RowsRead
    <2> QED BY <1>3, <2>1 DEF PlanetInv, RowsRead
<1>9. ReadsTrue' /\ FetchedOnce'
    BY <1>3 DEF ReadsTrue, FetchedOnce
<1>11. UpdatesIndexed'
    BY <1>3 DEF PlanetInv, UpdatesIndexed
<1>12. UndoneByRunningJob'
    <2>1. blog[b].edit # items.row.edit => b \in meanwhile
        <3>1. [id |-> b, row |-> items.row] \in todo
            BY <1>1, <1>3 DEF PlanetInv, RowsRead
        <3> QED BY <3>1 DEF PlanetInv, RowsRead
    <2> QED BY <1>3, <2>1 DEF PlanetInv, UndoneByRunningJob
<1>13. SessionsFinish'
    <2> SUFFICES ASSUME NEW g \in Guids, feed[g] # Null, feed[g].complete
                 PROVE  Due(g, feed[g])'
        BY <1>3 DEF SessionsFinish
    <2>1. BlogOf[g] \in Blogs
        BY DEF PlanetAssumption
    <2>2. CASE BlogOf[g] = b
        <3>1. Finished(g, feed[g].version)
            BY <1>1, <1>3, <2>2 DEF PlanetInv, SessionsFinish
        <3> QED BY <1>3, <3>1 DEF Due, Finished
    <2>3. CASE BlogOf[g] # b
        <3>1. Due(g, feed[g])
            BY DEF PlanetInv, SessionsFinish
        <3>2. blog'[BlogOf[g]] = blog[BlogOf[g]]
            BY <1>6, <2>1, <2>3
        <3> QED BY <1>3, <3>1, <3>2 DEF Due, Finished
    <2> QED BY <2>2, <2>3
<1> QED BY <1>7, <1>8, <1>9, <1>11, <1>12, <1>13 DEF PlanetInv

LEMMA KilledKeeps ==
    ASSUME PlanetAssumption, PlanetInv, Killed PROVE PlanetInv'
<1>1. /\ todo' = {} /\ items' = Null /\ work' = Null /\ snap' = Null
      /\ UNCHANGED <<now, feed, blog, entry, queued, undone, meanwhile, late>>
    BY DEF Killed, env, tables
<1> QED BY <1>1 DEF PlanetInv, PlanetTypeOK, RowsRead, ReadsTrue, FetchedOnce, SessionsFinish,
                    Due, Finished, UndoneByRunningJob, UpdatesIndexed

(* Whatever authors, administrators and moderators do while the job runs   *)
(* or is killed: the rows it will save differ from the table's only by     *)
(* what was changed meanwhile, and a version whose date is not after the   *)
(* last session came late or was handed to the index (sync in              *)
(* scripts/planet_sync.py).                                                *)
THEOREM PlanetInvariant == PlanetAssumption /\ PlanetSpec => []PlanetInv
<1> SUFFICES ASSUME PlanetAssumption PROVE PlanetSpec => []PlanetInv
    OBVIOUS
<1>1. PlanetInit => PlanetInv
    BY PlanetStart
<1>2. PlanetInv /\ [PlanetNext]_planetVars => PlanetInv'
    <2> SUFFICES ASSUME PlanetInv, [PlanetNext]_planetVars PROVE PlanetInv'
        OBVIOUS
    <2>1. ASSUME JobStep PROVE PlanetInv'
        BY <2>1, StartKeeps, SaveEntryKeeps, SaveBlogKeeps, FetchKeeps, ReadEntryKeeps DEF JobStep
    <2>2. CASE Killed
        BY <2>2, KilledKeeps
    <2>3. CASE Tick
        BY <2>3, TickKeeps
    <2>4. ASSUME NEW g \in Guids, Publish(g) \/ HideEntry(g) PROVE PlanetInv'
        BY <2>4, PublishKeeps, HideEntryKeeps
    <2>5. ASSUME NEW b \in Blogs, EditBlog(b) PROVE PlanetInv'
        BY <2>5, EditBlogKeeps
    <2>6. CASE UNCHANGED planetVars
        <3>1. UNCHANGED <<env, tables, job>> /\ UNCHANGED <<undone, meanwhile, late>>
            BY <2>6 DEF planetVars
        <3>2. /\ UNCHANGED <<now, feed, blog, entry, queued>>
              /\ UNCHANGED <<todo, items, work, snap, undone, meanwhile, late>>
            BY <3>1 DEF env, tables, job
        <3>3. PlanetTypeOK' /\ RowsRead' /\ ReadsTrue'
            BY <3>2 DEF PlanetInv, PlanetTypeOK, RowsRead, ReadsTrue, SameHidden, JobRuns
        <3>4. FetchedOnce'
            BY <3>2 DEF PlanetInv, FetchedOnce, Fetched, Due, Finished, InHand
        <3>5. SessionsFinish'
            BY <3>2 DEF PlanetInv, SessionsFinish, Due, Finished, InHand
        <3>6. UndoneByRunningJob' /\ UpdatesIndexed'
            BY <3>2 DEF PlanetInv, UndoneByRunningJob, UpdatesIndexed
        <3> QED BY <3>3, <3>4, <3>5, <3>6 DEF PlanetInv
    <2> QED BY <2>1, <2>2, <2>3, <2>4, <2>5, <2>6 DEF PlanetNext
<1> QED BY <1>1, <1>2, PTL DEF PlanetSpec

(* The job puts back a decision on an entry or an edit of a blog only if   *)
(* it ran when that was made, and every stored version was handed to the   *)
(* index unless it came late, by its date or by being changed after the    *)
(* fetch: for any blogs, feeds with any dates and edits.                   *)
THEOREM PlanetFollowsHolds == PlanetAssumption /\ PlanetSpec => []PlanetFollowsPeople
<1>1. PlanetInv => PlanetFollowsPeople
    BY DEF PlanetInv, PlanetFollowsPeople
<1> SUFFICES ASSUME PlanetAssumption PROVE PlanetSpec => []PlanetFollowsPeople
    OBVIOUS
<1> QED BY <1>1, PlanetInvariant, PTL

-----------------------------------------------------------------------------
(* What waits for the team: reports, suggestions, events and the numbers   *)
(* of them in the headers.                                                 *)

TaskTypes ==
  /\ report \in [Topics -> Nat \union {Void}] /\ claim \in [Topics -> Team \union {Void}]
  /\ there \subseteq Topics /\ subscribers \subseteq Team
  /\ suggestion \in [Ids -> Team \union {NoOne, Void}]
  /\ event \in [Ids -> NamedEvent \union {Void}] /\ had \in [Ids -> SUBSET Nat]
  /\ count = [kind \in Kinds |-> count[kind]]
  /\ requests \in 0..MaxRequests
  /\ taskTx \in [1..MaxRequests -> Request \union {Void}]
  /\ \A n \in Running : taskTx[n].no = n /\ n <= requests

(* A report is committed, or topics are done, and the key is still there.  *)
Untold(kind) == \E n \in Running : At(taskTx[n], kind, {"report", "solve"}, "committed")

(* A header under way has the number of what waits and nobody is about to  *)
(* change it; whoever is has deleted the key.                              *)
CountMeant(kind) ==
  kind \notin overtaken =>
    /\ header # Void => header[kind] = Waiting(kind) /\ ~Changing(kind)
    /\ Changing(kind) => count[kind] = Void
    /\ count[kind] # Void /\ ~Untold(kind) => count[kind] = Waiting(kind)

(* Who is about to change the list has read it as it is.                   *)
SubscribersMeant ==
  /\ SubscribersKept
  /\ \A n \in Running : taskTx[n].kind = "team" => taskTx[n].row = subscribers \/ "team" \in overtaken

(* Numbers grow, and a number that is about to be stored belongs to no     *)
(* other event under that name and to no other request.                    *)
Pending == {n \in Running : taskTx[n].kind = "event" /\ taskTx[n].stage = "saved"}

NumberApart(id, row) ==
  \A j \in Used(event) : event[j].name = row.name =>
     IF j = id THEN event[j].number < row.number ELSE row.number \notin had[j]

PendingApart(m, n) ==
  /\ taskTx[m].id # taskTx[n].id
  /\ taskTx[m].row # Void /\ taskTx[n].row # Void /\ taskTx[m].row.name = taskTx[n].row.name
       => taskTx[m].row.number # taskTx[n].row.number

AddressesMeant ==
  /\ AddressesKept
  /\ \A i \in Used(event) : event[i].number \in had[i] /\ \A k \in had[i] : k <= event[i].number
  /\ \A n \in Pending : taskTx[n].row # Void => NumberApart(taskTx[n].id, taskTx[n].row)
  /\ \A m, n \in Pending : m # n => PendingApart(m, n)

TaskInv ==
  /\ TaskTypes
  /\ \A kind \in Kinds : CountMeant(kind)
  /\ ClaimsAreOfReports /\ SubscribersMeant /\ AddressesMeant
-----------------------------------------------------------------------------
(* The requests under way.                                                 *)

LEMMA RequestFields ==
    ASSUME NEW r \in Request
    PROVE  r = [no |-> r.no, kind |-> r.kind, op |-> r.op, id |-> r.id, row |-> r.row, stage |-> r.stage]
BY DEF Request, Requests

LEMMA RequestMoved ==
    ASSUME NEW r \in Request, NEW row, NEW stage
    PROVE  [[r EXCEPT !.row = row] EXCEPT !.stage = stage]
             = [no |-> r.no, kind |-> r.kind, op |-> r.op, id |-> r.id, row |-> row, stage |-> stage]
<1>1. PICK no, kind, op, id, was, at :
        r = [no |-> no, kind |-> kind, op |-> op, id |-> id, row |-> was, stage |-> at]
    BY RequestFields
<1>2. r.no = no /\ r.kind = kind /\ r.op = op /\ r.id = id
    BY <1>1
<1>3. [r EXCEPT !.row = row] = [no |-> no, kind |-> kind, op |-> op, id |-> id, row |-> row, stage |-> at]
    BY <1>1
<1>4. [[r EXCEPT !.row = row] EXCEPT !.stage = stage]
        = [no |-> no, kind |-> kind, op |-> op, id |-> id, row |-> row, stage |-> stage]
    <2>1. PICK s : s = [r EXCEPT !.row = row]
        OBVIOUS
    <2>2. s = [no |-> no, kind |-> kind, op |-> op, id |-> id, row |-> row, stage |-> at]
        BY <1>3, <2>1
    <2>3. [s EXCEPT !.stage = stage]
            = [no |-> no, kind |-> kind, op |-> op, id |-> id, row |-> row, stage |-> stage]
        BY <2>2
    <2> QED BY <2>1, <2>3, Zenon
<1> QED BY <1>2, <1>4

LEMMA StartedOne ==
    ASSUME TasksAssumption, TaskTypes, NEW kind, NEW op, NEW id, NEW row, NEW stage,
           Started(kind, op, id, row, stage),
           [no |-> requests', kind |-> kind, op |-> op, id |-> id, row |-> row, stage |-> stage]
             \in Request
    PROVE  LET n == requests' IN
           /\ n \in 1..MaxRequests /\ n = requests + 1 /\ n \notin Running
           /\ Running' = Running \union {n}
           /\ taskTx'[n] = [no |-> n, kind |-> kind, op |-> op, id |-> id, row |-> row, stage |-> stage]
           /\ \A m \in Running : taskTx'[m] = taskTx[m]
           /\ taskTx' \in [1..MaxRequests -> Request \union {Void}]
           /\ \A m \in Running' : taskTx'[m].no = m /\ m <= requests'
<1> DEFINE n == requests'
           r == [no |-> n, kind |-> kind, op |-> op, id |-> id, row |-> row, stage |-> stage]
<1>1. requests < MaxRequests /\ n = requests + 1 /\ taskTx' = [taskTx EXCEPT ![n] = r]
    BY DEF Started
<1>2. requests \in 0..MaxRequests /\ MaxRequests \in Nat
    BY DEF TaskTypes, TasksAssumption
<1>3. n \in 1..MaxRequests
    BY <1>1, <1>2
<1>4. n \notin Running
    BY <1>1, <1>2 DEF TaskTypes
<1>5. r \in Request /\ r # Void /\ r.no = n
    BY DEF TasksAssumption
<1> HIDE DEF r
<1>6. taskTx \in [1..MaxRequests -> Request \union {Void}]
    BY DEF TaskTypes
<1>7. /\ taskTx'[n] = r /\ \A m \in 1..MaxRequests \ {n} : taskTx'[m] = taskTx[m]
      /\ taskTx' \in [1..MaxRequests -> Request \union {Void}]
    BY <1>1, <1>3, <1>5, <1>6
<1>8. Running' = Running \union {n}
    BY <1>3, <1>5, <1>6, <1>7 DEF Running
<1>9. \A m \in Running : taskTx'[m] = taskTx[m]
    BY <1>4, <1>6, <1>7 DEF Running
<1>10. \A m \in Running : taskTx[m].no = m /\ m <= requests /\ m \in 1..MaxRequests
    BY <1>6 DEF TaskTypes, Running
<1>11. ASSUME NEW m \in Running' PROVE taskTx'[m].no = m /\ m <= n
    BY <1>1, <1>2, <1>3, <1>5, <1>7, <1>8, <1>9, <1>10
<1> QED BY <1>1, <1>3, <1>4, <1>7, <1>8, <1>9, <1>11 DEF r

LEMMA MovedOne ==
    ASSUME TasksAssumption, TaskTypes, NEW n \in Running, NEW row, NEW stage,
           Moved(taskTx[n], row, stage),
           [no |-> taskTx[n].no, kind |-> taskTx[n].kind, op |-> taskTx[n].op, id |-> taskTx[n].id,
            row |-> row, stage |-> stage] \in Request
    PROVE  /\ Running' = Running
           /\ taskTx'[n] = [no |-> n, kind |-> taskTx[n].kind, op |-> taskTx[n].op,
                            id |-> taskTx[n].id, row |-> row, stage |-> stage]
           /\ \A m \in Running \ {n} : taskTx'[m] = taskTx[m]
           /\ taskTx' \in [1..MaxRequests -> Request \union {Void}]
           /\ \A m \in Running' : taskTx'[m].no = m /\ m <= requests
<1> DEFINE r == taskTx[n]
           s == [no |-> n, kind |-> r.kind, op |-> r.op, id |-> r.id, row |-> row, stage |-> stage]
<1>1. taskTx \in [1..MaxRequests -> Request \union {Void}] /\ n \in 1..MaxRequests /\ r \in Request
      /\ r.no = n
    BY DEF TaskTypes, Running
<1>2. taskTx' = [taskTx EXCEPT ![n].row = row, ![n].stage = stage]
    BY <1>1 DEF Moved
<1>4. [[r EXCEPT !.row = row] EXCEPT !.stage = stage] = s
    BY <1>1, RequestMoved
<1>5. taskTx' = [taskTx EXCEPT ![n] = s]
    BY <1>1, <1>2, <1>4
<1>6. s \in Request /\ s # Void /\ s.no = n
    BY <1>1 DEF TasksAssumption
<1> HIDE DEF s
<1>7. /\ taskTx'[n] = s /\ \A m \in 1..MaxRequests \ {n} : taskTx'[m] = taskTx[m]
      /\ taskTx' \in [1..MaxRequests -> Request \union {Void}]
    BY <1>1, <1>5, <1>6
<1>8. Running' = Running
    BY <1>1, <1>6, <1>7 DEF Running
<1>9. \A m \in Running \ {n} : taskTx'[m] = taskTx[m]
    BY <1>1, <1>7 DEF Running
<1>10. \A m \in Running' : taskTx'[m].no = m /\ m <= requests
    BY <1>6, <1>7, <1>8, <1>9 DEF TaskTypes
<1> QED BY <1>7, <1>8, <1>9, <1>10 DEF s

LEMMA EndedOne ==
    ASSUME TasksAssumption, TaskTypes, NEW n \in Running, Ended(taskTx[n])
    PROVE  /\ Running' = Running \ {n}
           /\ \A m \in Running \ {n} : taskTx'[m] = taskTx[m]
           /\ taskTx' \in [1..MaxRequests -> Request \union {Void}]
           /\ \A m \in Running' : taskTx'[m].no = m /\ m <= requests
<1>1. taskTx \in [1..MaxRequests -> Request \union {Void}] /\ n \in 1..MaxRequests /\ taskTx[n].no = n
    BY DEF TaskTypes, Running
<1>2. taskTx' = [taskTx EXCEPT ![n] = Void]
    BY <1>1 DEF Ended
<1>3. /\ taskTx'[n] = Void /\ \A m \in 1..MaxRequests \ {n} : taskTx'[m] = taskTx[m]
      /\ taskTx' \in [1..MaxRequests -> Request \union {Void}]
    BY <1>1, <1>2
<1>4. Running' = Running \ {n} /\ \A m \in Running \ {n} : taskTx'[m] = taskTx[m]
    BY <1>1, <1>3 DEF Running
<1> QED BY <1>3, <1>4 DEF TaskTypes

-----------------------------------------------------------------------------
(* The parts of the invariant that a step leaves as they are.              *)

(* A count stays right if nothing it depends on changed, if its key was    *)
(* deleted while no header was under way, or if the new report is untold.  *)
LEMMA CountStays ==
    ASSUME NEW kind, CountMeant(kind),
           \/ kind \in overtaken'
           \/ /\ kind \notin overtaken /\ count'[kind] = count[kind] /\ header' = header
              /\ Waiting(kind)' = Waiting(kind)
              /\ Changing(kind)' => Changing(kind)
              /\ Untold(kind) => Untold(kind)'
           \/ header' = Void /\ count'[kind] = Void
           \/ /\ header' = Void /\ Untold(kind)'
              /\ kind \notin overtaken /\ count'[kind] = count[kind]
              /\ Changing(kind)' => Changing(kind)
    PROVE  CountMeant(kind)'
BY DEF CountMeant

LEMMA AddressesStay ==
    ASSUME AddressesMeant, UNCHANGED <<event, had>>,
           \A n \in Pending' : n \in Pending /\ taskTx'[n] = taskTx[n]
    PROVE  AddressesMeant'
<1>1. Used(event)' = Used(event)
    BY DEF Used, Ids
<1>2. AddressesKept'
    BY <1>1 DEF AddressesMeant, AddressesKept
<1>4. (\A n \in Pending : taskTx[n].row # Void => NumberApart(taskTx[n].id, taskTx[n].row))'
    BY <1>1 DEF AddressesMeant, NumberApart
<1>5. \A m, n \in Pending' : m # n => PendingApart(m, n)'
    BY DEF AddressesMeant, PendingApart
<1> QED BY <1>1, <1>2, <1>4, <1>5 DEF AddressesMeant

LEMMA SubscribersStay ==
    ASSUME SubscribersMeant, UNCHANGED <<subscribers, member>>,
           "team" \in overtaken => "team" \in overtaken',
           \A n \in Running' : taskTx'[n].kind = "team" =>
              taskTx'[n].row = subscribers \/ (n \in Running /\ taskTx'[n] = taskTx[n])
    PROVE  SubscribersMeant'
BY DEF SubscribersMeant, SubscribersKept

(* One request more, moved or ended, and what waits for it.                *)
LEMMA StartedWaits ==
    ASSUME TasksAssumption, TaskTypes, NEW kind, NEW op, NEW id, NEW row, NEW stage,
           Started(kind, op, id, row, stage),
           [no |-> requests', kind |-> kind, op |-> op, id |-> id, row |-> row, stage |-> stage]
             \in Request
    PROVE  /\ \A c : Changing(c)' => Changing(c) \/ (c = kind /\ stage = "saved")
           /\ \A c : Untold(c) => Untold(c)'
           /\ stage = "committed" /\ op \in {"report", "solve"} => Untold(kind)'
BY StartedOne DEF Changing, Untold, At

LEMMA MovedWaits ==
    ASSUME TasksAssumption, TaskTypes, NEW n \in Running, NEW row, NEW stage,
           Moved(taskTx[n], row, stage), taskTx[n].stage = "read",
           [no |-> taskTx[n].no, kind |-> taskTx[n].kind, op |-> taskTx[n].op, id |-> taskTx[n].id,
            row |-> row, stage |-> stage] \in Request
    PROVE  /\ \A c : Changing(c)' => Changing(c) \/ (c = taskTx[n].kind /\ stage = "saved")
           /\ \A c : Untold(c) => Untold(c)'
           /\ stage = "committed" /\ taskTx[n].op \in {"report", "solve"}
                => \A c : c = taskTx[n].kind => Untold(c)'
<1>1. /\ Running' = Running
      /\ taskTx'[n].kind = taskTx[n].kind /\ taskTx'[n].op = taskTx[n].op /\ taskTx'[n].stage = stage
      /\ \A m \in Running \ {n} : taskTx'[m] = taskTx[m]
    <2>1. taskTx'[n] = [no |-> n, kind |-> taskTx[n].kind, op |-> taskTx[n].op,
                        id |-> taskTx[n].id, row |-> row, stage |-> stage]
        BY MovedOne
    <2>2. Running' = Running /\ \A m \in Running \ {n} : taskTx'[m] = taskTx[m]
        BY MovedOne
    <2> QED BY <2>1, <2>2
<1>2. \A c : Changing(c)' => Changing(c) \/ (c = taskTx[n].kind /\ stage = "saved")
    BY <1>1 DEF Changing
<1>3. \A c : Untold(c) => Untold(c)'
    BY <1>1 DEF Untold, At
<1>4. stage = "committed" /\ taskTx[n].op \in {"report", "solve"}
        => \A c : c = taskTx[n].kind => Untold(c)'
    BY <1>1 DEF Untold, At
<1> QED BY <1>2, <1>3, <1>4

LEMMA EndedWaits ==
    ASSUME TasksAssumption, TaskTypes, NEW n \in Running, Ended(taskTx[n])
    PROVE  /\ \A c : Changing(c)' => Changing(c)
           /\ \A c : Untold(c) /\ (taskTx[n].stage = "committed" => c # taskTx[n].kind) => Untold(c)'
BY EndedOne DEF Changing, Untold, At

(* A deleted key, without a header under way.                              *)
LEMMA KeyGone ==
    ASSUME TasksAssumption, TaskTypes, NEW kind \in Kinds, KeyDeleted(kind)
    PROVE  /\ count' = [c \in Kinds |-> count'[c]]
           /\ \A c \in Kinds \ {kind} : count'[c] = count[c] /\ (c \in overtaken' <=> c \in overtaken)
           /\ header # Void => kind \in overtaken'
           /\ count'[kind] = Void
           /\ "team" \in overtaken => "team" \in overtaken'
           /\ \A t \in Topics : t \in overtaken' <=> t \in overtaken
<1>1. count' = [c \in Kinds |-> IF c = kind THEN Void ELSE count[c]]
    BY DEF KeyDeleted, Deleted, Uncounted, TaskTypes
<1>2. overtaken' = IF header = Void THEN overtaken \ {kind} ELSE overtaken \union {kind}
    BY DEF KeyDeleted
<1>3. "team" \notin Kinds
    BY DEF Kinds
<1> QED BY <1>1, <1>2, <1>3 DEF TasksAssumption

LEMMA KeyCount ==
    ASSUME TasksAssumption, TaskTypes, NEW kind \in Kinds, KeyDeleted(kind), header' = header,
           NEW c \in Kinds, CountMeant(c),
           c # kind => /\ Waiting(c)' = Waiting(c)
                       /\ (Changing(c)' => Changing(c)) /\ (Untold(c) => Untold(c)')
    PROVE  CountMeant(c)'
BY KeyGone, CountStays

LEMMA RequestKinds ==
    ASSUME NEW r \in Request
    PROVE  /\ r.kind \in Kinds \union {"team"} /\ r.no \in 1..MaxRequests
           /\ r.kind = "event" => r.id \in Ids /\ r.row \in NamedEvent \union {Void}
           /\ r.kind = "suggestion" => r.id \in Ids /\ r.row \in {Void, NoOne}
           /\ r.kind = "team" => r.id \in Team /\ r.row \in SUBSET Team
BY DEF Request, Requests, Kinds

LEMMA RunningTyped ==
    ASSUME TaskTypes, NEW n \in Running
    PROVE  taskTx[n] \in Request /\ taskTx[n].no = n
BY DEF TaskTypes, Running

LEMMA RowsSame ==
    ASSUME UNCHANGED <<report, there, suggestion, event>>, NEW c \in Kinds
    PROVE  Waiting(c)' = Waiting(c)
BY DEF Waiting, Used, Ids

-----------------------------------------------------------------------------
(* The header.                                                             *)

LEMMA OpenHeaderKeeps ==
    ASSUME TasksAssumption, TaskInv, OpenHeader PROVE TaskInv'
<1>1. /\ header' = [kind \in Kinds |-> Waiting(kind)]
      /\ overtaken' = overtaken \union {kind \in Kinds : Changing(kind)}
      /\ UNCHANGED <<report, claim, there, subscribers, suggestion, event, count, taskTx,
                     requests, had, member>>
    BY DEF OpenHeader
<1>2. Running' = Running /\ (\A c : Changing(c)' = Changing(c) /\ Untold(c)' = Untold(c))
    BY <1>1 DEF Running, Changing, Untold
<1>3. TaskTypes'
    BY <1>1, <1>2 DEF TaskInv, TaskTypes, Ids
<1>4. ASSUME NEW kind \in Kinds PROVE CountMeant(kind)'
    <2>1. Waiting(kind)' = Waiting(kind) /\ header'[kind] = Waiting(kind)
        BY <1>1, RowsSame
    <2>2. kind \notin overtaken' => kind \notin overtaken /\ ~Changing(kind)
        BY <1>1
    <2> QED BY <1>1, <1>2, <2>1, <2>2 DEF TaskInv, CountMeant
<1>5. ClaimsAreOfReports' /\ SubscribersMeant'
    BY <1>1, <1>2 DEF TaskInv, ClaimsAreOfReports, SubscribersMeant, SubscribersKept
<1>6. AddressesMeant'
    BY <1>1, <1>2, AddressesStay DEF TaskInv, Pending
<1> QED BY <1>3, <1>4, <1>5, <1>6 DEF TaskInv

LEMMA FillHeaderKeeps ==
    ASSUME TasksAssumption, TaskInv, FillHeader PROVE TaskInv'
<1>1. /\ header # Void /\ header' = Void
      /\ count' = [kind \in Kinds |-> IF count[kind] = Void THEN header[kind] ELSE count[kind]]
      /\ UNCHANGED <<report, claim, there, subscribers, suggestion, event, taskTx, requests, had,
                     member, overtaken>>
    BY DEF FillHeader
<1>2. Running' = Running /\ (\A c : Changing(c)' = Changing(c) /\ Untold(c)' = Untold(c))
    BY <1>1 DEF Running, Changing, Untold
<1>3. TaskTypes'
    BY <1>1, <1>2 DEF TaskInv, TaskTypes, Ids
<1>4. ASSUME NEW kind \in Kinds PROVE CountMeant(kind)'
    <2>1. Waiting(kind)' = Waiting(kind)
        BY <1>1, RowsSame
    <2> QED BY <1>1, <1>2, <2>1 DEF TaskInv, CountMeant
<1>5. ClaimsAreOfReports' /\ SubscribersMeant'
    BY <1>1, <1>2 DEF TaskInv, ClaimsAreOfReports, SubscribersMeant, SubscribersKept
<1>6. AddressesMeant'
    BY <1>1, <1>2, AddressesStay DEF TaskInv, Pending
<1> QED BY <1>3, <1>4, <1>5, <1>6 DEF TaskInv

-----------------------------------------------------------------------------
(* Requests that have only read.                                           *)

LEMMA BeginKeeps ==
    ASSUME TasksAssumption, TaskInv, NEW kind, NEW op, NEW id, NEW row, Begin(kind, op, id, row),
           [no |-> requests', kind |-> kind, op |-> op, id |-> id, row |-> row, stage |-> "read"]
             \in Request,
           kind = "team" => row = subscribers
    PROVE  TaskInv'
<1>1. /\ Started(kind, op, id, row, "read")
      /\ UNCHANGED <<report, claim, there, subscribers, suggestion, event, count, header, had,
                     member, overtaken>>
    BY DEF Begin
<1>2. TaskTypes
    BY DEF TaskInv
<1>3. PICK n : n = requests'
    OBVIOUS
<1>4. /\ n \in 1..MaxRequests /\ n \notin Running /\ Running' = Running \union {n}
      /\ taskTx'[n] = [no |-> n, kind |-> kind, op |-> op, id |-> id, row |-> row, stage |-> "read"]
      /\ \A m \in Running : taskTx'[m] = taskTx[m]
      /\ taskTx' \in [1..MaxRequests -> Request \union {Void}]
      /\ \A m \in Running' : taskTx'[m].no = m /\ m <= requests'
    BY <1>1, <1>2, <1>3, StartedOne
<1>5. taskTx'[n].kind = kind /\ taskTx'[n].row = row /\ taskTx'[n].stage = "read"
    BY <1>4
<1>6. TaskTypes'
    BY <1>1, <1>2, <1>3, <1>4 DEF TaskTypes, Ids, TasksAssumption
<1>7. ASSUME NEW c \in Kinds PROVE CountMeant(c)'
    <2>1. (Changing(c)' => Changing(c)) /\ (Untold(c) => Untold(c)')
        BY <1>1, <1>2, StartedWaits
    <2> QED BY <1>1, <2>1, CountStays, RowsSame DEF TaskInv
<1>8. ClaimsAreOfReports'
    BY <1>1 DEF TaskInv, ClaimsAreOfReports
<1>9. SubscribersMeant'
    BY <1>1, <1>4, <1>5, SubscribersStay DEF TaskInv
<1>10. AddressesMeant'
    <2>1. \A m \in Pending' : m \in Pending /\ taskTx'[m] = taskTx[m]
        BY <1>4, <1>5 DEF Pending
    <2> QED BY <1>1, <2>1, AddressesStay DEF TaskInv
<1> QED BY <1>6, <1>7, <1>8, <1>9, <1>10 DEF TaskInv

LEMMA NextNumberTyped ==
    ASSUME TasksAssumption, TaskTypes, NEW kind, NEW op, NEW id, NEW row, NEW stage,
           Started(kind, op, id, row, stage)
    PROVE  requests' \in 1..MaxRequests
BY DEF Started, TaskTypes, TasksAssumption

LEMMA BeginsKeep ==
    ASSUME TasksAssumption, TaskInv,
           \/ \E t \in Topics : BeginReport(t)
           \/ \E u \in Team, op \in {"subscribe", "unsubscribe"} : BeginSubscription(u, op)
           \/ \E i \in Ids, op \in {"assign", "delete"} : BeginSuggestion(i, op)
           \/ \E i \in Ids, op \in {"edit", "delete"} : BeginEvent(i, op)
    PROVE  TaskInv'
<1>0. TaskTypes /\ subscribers \in SUBSET Team
    BY DEF TaskInv, TaskTypes
<1>1. ASSUME NEW t \in Topics, BeginReport(t) PROVE TaskInv'
    <2>1. Begin("reported", "report", t, Void) /\ requests' \in 1..MaxRequests
        BY <1>0, <1>1, NextNumberTyped DEF BeginReport, Begin
    <2>2. [no |-> requests', kind |-> "reported", op |-> "report", id |-> t, row |-> Void,
           stage |-> "read"] \in Request
        BY <2>1 DEF Request, Requests
    <2> QED BY <2>1, <2>2, BeginKeeps
<1>2. ASSUME NEW u \in Team, NEW op \in {"subscribe", "unsubscribe"}, BeginSubscription(u, op)
      PROVE  TaskInv'
    <2>1. Begin("team", op, u, subscribers) /\ requests' \in 1..MaxRequests
        BY <1>0, <1>2, NextNumberTyped DEF BeginSubscription, Begin
    <2>2. [no |-> requests', kind |-> "team", op |-> op, id |-> u, row |-> subscribers,
           stage |-> "read"] \in Request
        BY <1>0, <2>1 DEF Request, Requests
    <2> QED BY <2>1, <2>2, BeginKeeps
<1>3. ASSUME NEW i \in Ids, NEW op \in {"assign", "delete"}, BeginSuggestion(i, op)
      PROVE  TaskInv'
    <2>1. Begin("suggestion", op, i, Void) /\ requests' \in 1..MaxRequests
        BY <1>0, <1>3, NextNumberTyped DEF BeginSuggestion, Begin
    <2>2. [no |-> requests', kind |-> "suggestion", op |-> op, id |-> i, row |-> Void,
           stage |-> "read"] \in Request
        BY <2>1 DEF Request, Requests
    <2> QED BY <2>1, <2>2, BeginKeeps
<1>4. ASSUME NEW i \in Ids, NEW op \in {"edit", "delete"}, BeginEvent(i, op)
      PROVE  TaskInv'
    <2>1. Begin("event", op, i, Void) /\ requests' \in 1..MaxRequests
        BY <1>0, <1>4, NextNumberTyped DEF BeginEvent, Begin
    <2>2. [no |-> requests', kind |-> "event", op |-> op, id |-> i, row |-> Void,
           stage |-> "read"] \in Request
        BY <2>1 DEF Request, Requests
    <2> QED BY <2>1, <2>2, BeginKeeps
<1> QED BY <1>1, <1>2, <1>3, <1>4

(* A request that ends and leaves nothing behind.                          *)
LEMMA EndedKeeps ==
    ASSUME TasksAssumption, TaskInv, NEW n \in Running, Ended(taskTx[n]),
           taskTx[n].stage = "read",
           UNCHANGED <<report, claim, there, subscribers, suggestion, event, count, header,
                       requests, had, member, overtaken>>
    PROVE  TaskInv'
<1>0. TaskTypes
    BY DEF TaskInv
<1>1. /\ Running' = Running \ {n} /\ \A m \in Running \ {n} : taskTx'[m] = taskTx[m]
      /\ taskTx' \in [1..MaxRequests -> Request \union {Void}]
      /\ \A m \in Running' : taskTx'[m].no = m /\ m <= requests
    BY <1>0, EndedOne
<1>2. TaskTypes'
    BY <1>0, <1>1 DEF TaskTypes, Ids
<1>3. ASSUME NEW c \in Kinds PROVE CountMeant(c)'
    <2>1. (Changing(c)' => Changing(c)) /\ (Untold(c) => Untold(c)')
        BY <1>0, EndedWaits
    <2> QED BY <2>1, CountStays, RowsSame DEF TaskInv
<1>4. ClaimsAreOfReports'
    BY DEF TaskInv, ClaimsAreOfReports
<1>5. SubscribersMeant'
    BY <1>1, SubscribersStay DEF TaskInv
<1>6. AddressesMeant'
    <2>1. \A m \in Pending' : m \in Pending /\ taskTx'[m] = taskTx[m]
        BY <1>1 DEF Pending
    <2> QED BY <2>1, AddressesStay DEF TaskInv
<1> QED BY <1>2, <1>3, <1>4, <1>5, <1>6 DEF TaskInv

-----------------------------------------------------------------------------
(* Reported topics.                                                        *)

LEMMA CommitReportKeeps ==
    ASSUME TasksAssumption, TaskInv, NEW n \in Running, CommitReport(taskTx[n]) PROVE TaskInv'
<1>0. TaskTypes
    BY DEF TaskInv
<1>1. PICK r : r = taskTx[n]
    OBVIOUS
<1>2. /\ r \in Request /\ r.no = n /\ r.kind = "reported" /\ r.op = "report" /\ r.stage = "read"
      /\ UNCHANGED <<claim, there, subscribers, suggestion, event, count, header, requests, had, member>>
    BY <1>0, <1>1, RunningTyped DEF CommitReport, At
<1>3. CASE r.id \in there
    <2>1. /\ report' = [report EXCEPT ![r.id] = r.no] /\ Moved(r, Void, "committed")
          /\ overtaken' = IF header = Void THEN overtaken ELSE overtaken \union {"reported"}
        BY <1>1, <1>3 DEF CommitReport, Disturbed
    <2>2. [no |-> r.no, kind |-> r.kind, op |-> r.op, id |-> r.id, row |-> Void,
           stage |-> "committed"] \in Request
        BY <1>2 DEF Request, Requests
    <2>3. /\ Running' = Running
          /\ taskTx'[n] = [no |-> n, kind |-> r.kind, op |-> r.op, id |-> r.id, row |-> Void,
                           stage |-> "committed"]
          /\ \A m \in Running \ {n} : taskTx'[m] = taskTx[m]
          /\ taskTx' \in [1..MaxRequests -> Request \union {Void}]
          /\ \A m \in Running' : taskTx'[m].no = m /\ m <= requests
        BY <1>0, <1>1, <2>1, <2>2, MovedOne
    <2>4. taskTx'[n].kind = "reported" /\ taskTx'[n].stage = "committed"
        BY <1>2, <2>3
    <2>5. /\ \A c : Changing(c)' => Changing(c)
          /\ \A c : Untold(c) => Untold(c)'
          /\ Untold("reported")'
        <3>1. Moved(taskTx[n], Void, "committed") /\ taskTx[n].stage = "read"
            BY <1>1, <1>2, <2>1
        <3>2. [no |-> taskTx[n].no, kind |-> taskTx[n].kind, op |-> taskTx[n].op,
               id |-> taskTx[n].id, row |-> Void, stage |-> "committed"] \in Request
            BY <1>1, <2>2
        <3>3. /\ \A c : Changing(c)' => Changing(c) \/ (c = taskTx[n].kind /\ "committed" = "saved")
              /\ \A c : Untold(c) => Untold(c)'
              /\ "committed" = "committed" /\ taskTx[n].op \in {"report", "solve"}
                   => \A c : c = taskTx[n].kind => Untold(c)'
            BY ONLY TasksAssumption, <1>0, <3>1, <3>2, MovedWaits
        <3>4. taskTx[n].kind = "reported" /\ taskTx[n].op = "report"
            BY <1>1, <1>2
        <3> QED BY <3>3, <3>4
    <2>6. n \in Nat /\ report' \in [Topics -> Nat \union {Void}]
        BY <1>0, <1>2, <1>3, <2>1 DEF TaskTypes, Running
    <2>7. TaskTypes'
        BY <1>0, <1>2, <2>3, <2>6 DEF TaskTypes, Ids
    <2>8. ASSUME NEW c \in Kinds PROVE CountMeant(c)'
        <3>1. CASE c = "reported"
            <4>1. c \in overtaken' \/ (header = Void /\ c \notin overtaken)
                BY <2>1, <3>1
            <4> QED BY <1>2, <2>5, <3>1, <4>1, CountStays DEF TaskInv
        <3>2. CASE c # "reported"
            <4>1. Waiting(c)' = Waiting(c)
                BY <1>2, <3>2 DEF Waiting, Used, Ids, Kinds
            <4>2. c \in overtaken' <=> c \in overtaken
                BY <2>1, <3>2
            <4> QED BY <1>2, <2>5, <4>1, <4>2, CountStays DEF TaskInv
        <3> QED BY <3>1, <3>2
    <2>9. ClaimsAreOfReports'
        <3>1. \A t \in there : report[t] # Void => report'[t] # Void
            BY <1>0, <1>2, <2>1, <2>6 DEF TaskTypes, TasksAssumption
        <3> QED BY <1>2, <2>1, <3>1 DEF TaskInv, ClaimsAreOfReports
    <2>10. SubscribersMeant'
        BY <1>2, <2>1, <2>3, <2>4, SubscribersStay DEF TaskInv
    <2>11. AddressesMeant'
        <3>1. \A m \in Pending' : m \in Pending /\ taskTx'[m] = taskTx[m]
            BY <2>3, <2>4 DEF Pending
        <3> QED BY <1>2, <3>1, AddressesStay DEF TaskInv
    <2> QED BY <2>7, <2>8, <2>9, <2>10, <2>11 DEF TaskInv
<1>4. CASE r.id \notin there
    <2>1. Ended(r) /\ UNCHANGED <<report, overtaken>>
        BY <1>1, <1>4 DEF CommitReport
    <2> QED BY <1>1, <1>2, <2>1, EndedKeeps
<1> QED BY <1>3, <1>4

(* A request that ends and deletes its key.                                *)
LEMMA EndedToldKeeps ==
    ASSUME TasksAssumption, TaskInv, NEW n \in Running, NEW kind \in Kinds,
           taskTx[n].kind = kind, Ended(taskTx[n]), KeyDeleted(kind),
           UNCHANGED <<report, claim, there, subscribers, suggestion, event, header, requests, had, member>>
    PROVE  TaskInv'
<1>0. TaskTypes
    BY DEF TaskInv
<1>1. /\ Running' = Running \ {n} /\ \A m \in Running \ {n} : taskTx'[m] = taskTx[m]
      /\ taskTx' \in [1..MaxRequests -> Request \union {Void}]
      /\ \A m \in Running' : taskTx'[m].no = m /\ m <= requests
    BY <1>0, EndedOne
<1>2. /\ count' = [c \in Kinds |-> count'[c]]
      /\ "team" \in overtaken => "team" \in overtaken'
      /\ \A t \in Topics : t \in overtaken' <=> t \in overtaken
    BY <1>0, KeyGone
<1>3. TaskTypes'
    BY <1>0, <1>1, <1>2 DEF TaskTypes, Ids
<1>4. ASSUME NEW c \in Kinds PROVE CountMeant(c)'
    <2>1. (Changing(c)' => Changing(c)) /\ (c # kind /\ Untold(c) => Untold(c)')
        BY <1>0, EndedWaits
    <2>2. CountMeant(c)
        BY DEF TaskInv
    <2>3. Waiting(c)' = Waiting(c)
        BY RowsSame
    <2> QED BY <1>0, <2>1, <2>2, <2>3, KeyCount
<1>5. ClaimsAreOfReports'
    BY <1>0, <1>2 DEF TaskInv, TaskTypes, ClaimsAreOfReports
<1>6. SubscribersMeant'
    BY <1>1, <1>2, SubscribersStay DEF TaskInv
<1>7. AddressesMeant'
    <2>1. \A m \in Pending' : m \in Pending /\ taskTx'[m] = taskTx[m]
        BY <1>1 DEF Pending
    <2> QED BY <2>1, AddressesStay DEF TaskInv
<1> QED BY <1>3, <1>4, <1>5, <1>6, <1>7 DEF TaskInv

LEMMA TellKeeps ==
    ASSUME TasksAssumption, TaskInv, NEW n \in Running, Tell(taskTx[n]) PROVE TaskInv'
BY EndedToldKeeps DEF Tell, At, Kinds

LEMMA AssignKeeps ==
    ASSUME TasksAssumption, TaskInv, NEW t \in Topics, NEW u \in Team, Assign(u, t) PROVE TaskInv'
<1>0. TaskTypes
    BY DEF TaskInv
<1>1. /\ claim' = [claim EXCEPT ![t] = u]
      /\ overtaken' = IF report[t] = Void THEN overtaken \union {t} ELSE overtaken
      /\ requests < MaxRequests /\ requests' = requests + 1
      /\ UNCHANGED <<report, there, subscribers, suggestion, event, count, header, taskTx, had, member>>
    BY DEF Assign
<1>2. Running' = Running /\ (\A c : Changing(c)' = Changing(c) /\ Untold(c)' = Untold(c))
    BY <1>1 DEF Running, Changing, Untold
<1>3. TaskTypes'
    <2>1. requests' \in 0..MaxRequests
        BY <1>0, <1>1 DEF TaskTypes, TasksAssumption
    <2>2. \A m \in Running : m \in Nat /\ m <= requests'
        BY <1>0, <1>1 DEF TaskTypes, Running, TasksAssumption
    <2>3. claim' \in [Topics -> Team \union {Void}]
        BY <1>0, <1>1 DEF TaskTypes
    <2> QED BY <1>0, <1>1, <1>2, <2>1, <2>2, <2>3 DEF TaskTypes, Ids
<1>4. ASSUME NEW c \in Kinds PROVE CountMeant(c)'
    <2>1. c \in overtaken' <=> c \in overtaken
        BY <1>1 DEF TasksAssumption
    <2> QED BY <1>1, <1>2, <2>1, RowsSame, CountStays DEF TaskInv
<1>5. ClaimsAreOfReports'
    BY <1>0, <1>1 DEF TaskInv, TaskTypes, ClaimsAreOfReports
<1>6. SubscribersMeant'
    BY <1>1, <1>2, SubscribersStay DEF TaskInv
<1>7. AddressesMeant'
    BY <1>1, <1>2, AddressesStay DEF TaskInv, Pending
<1> QED BY <1>3, <1>4, <1>5, <1>6, <1>7 DEF TaskInv

LEMMA SolveKeeps ==
    ASSUME TasksAssumption, TaskInv, NEW done \in SUBSET Topics, Solve(done) PROVE TaskInv'
<1>0. TaskTypes
    BY DEF TaskInv
<1>1. /\ report' = [t \in Topics |-> IF t \in done THEN Void ELSE report[t]]
      /\ claim' = [t \in Topics |-> IF t \in done THEN Void ELSE claim[t]]
      /\ overtaken' = (IF header = Void THEN overtaken ELSE overtaken \union {"reported"}) \ done
      /\ Started("reported", "solve", Void, Void, "committed")
      /\ UNCHANGED <<there, subscribers, suggestion, event, count, header, had, member>>
    BY DEF Solve, ClaimsAfter, Unclaimed
<1>2. PICK n : n = requests'
    OBVIOUS
<1>3. [no |-> n, kind |-> "reported", op |-> "solve", id |-> Void, row |-> Void,
       stage |-> "committed"] \in Request
    BY <1>0, <1>1, <1>2, NextNumberTyped DEF Request, Requests
<1>4. /\ n \in 1..MaxRequests /\ n \notin Running /\ Running' = Running \union {n}
      /\ taskTx'[n] = [no |-> n, kind |-> "reported", op |-> "solve", id |-> Void, row |-> Void,
                       stage |-> "committed"]
      /\ \A m \in Running : taskTx'[m] = taskTx[m]
      /\ taskTx' \in [1..MaxRequests -> Request \union {Void}]
      /\ \A m \in Running' : taskTx'[m].no = m /\ m <= requests'
    BY <1>0, <1>1, <1>2, <1>3, StartedOne
<1>5. taskTx'[n].kind = "reported" /\ taskTx'[n].stage = "committed"
    BY <1>4
<1>6. TaskTypes'
    <2>1. report' \in [Topics -> Nat \union {Void}] /\ claim' \in [Topics -> Team \union {Void}]
        BY <1>0, <1>1 DEF TaskTypes
    <2> QED BY <1>0, <1>1, <1>2, <1>4, <2>1 DEF TaskTypes, Ids, TasksAssumption
<1>7. ASSUME NEW c \in Kinds PROVE CountMeant(c)'
    <2>1. /\ Changing(c)' => Changing(c)
          /\ Untold(c) => Untold(c)'
          /\ Untold("reported")'
        BY <1>0, <1>1, <1>2, <1>3, StartedWaits
    <2>2. c \notin done
        BY DEF TasksAssumption
    <2>3. CASE c = "reported"
        <3>1. c \in overtaken' \/ (header = Void /\ c \notin overtaken)
            BY <1>1, <2>2, <2>3
        <3> QED BY <1>1, <2>1, <2>3, <3>1, CountStays DEF TaskInv
    <2>4. CASE c # "reported"
        <3>1. Waiting(c)' = Waiting(c)
            BY <1>1, <2>4 DEF Waiting, Used, Ids, Kinds
        <3>2. c \in overtaken' <=> c \in overtaken
            BY <1>1, <2>2, <2>4
        <3> QED BY <1>1, <2>1, <3>1, <3>2, CountStays DEF TaskInv
    <2> QED BY <2>3, <2>4
<1>8. ClaimsAreOfReports'
    BY <1>0, <1>1 DEF TaskInv, TaskTypes, ClaimsAreOfReports
<1>9. SubscribersMeant'
    <2>1. "team" \in overtaken => "team" \in overtaken'
        BY <1>1 DEF TasksAssumption
    <2> QED BY <1>1, <1>4, <1>5, <2>1, SubscribersStay DEF TaskInv
<1>10. AddressesMeant'
    <2>1. \A m \in Pending' : m \in Pending /\ taskTx'[m] = taskTx[m]
        BY <1>4, <1>5 DEF Pending
    <2> QED BY <1>1, <2>1, AddressesStay DEF TaskInv
<1> QED BY <1>6, <1>7, <1>8, <1>9, <1>10 DEF TaskInv

(* A row is deleted or made together with its key, before the commit.      *)
LEMMA StartSavedKeeps ==
    ASSUME TasksAssumption, TaskInv, NEW kind \in Kinds, NEW op, NEW id, NEW row,
           Started(kind, op, id, row, "saved"), KeyDeleted(kind),
           [no |-> requests', kind |-> kind, op |-> op, id |-> id, row |-> row, stage |-> "saved"]
             \in Request,
           UNCHANGED <<report, claim, there, subscribers, suggestion, event, header, had, member>>,
           kind = "event" => AddressesMeant'
    PROVE  TaskInv'
<1>0. TaskTypes /\ kind # "team"
    BY DEF TaskInv, Kinds
<1>1. PICK n : n = requests'
    OBVIOUS
<1>2. /\ n \in 1..MaxRequests /\ n \notin Running /\ Running' = Running \union {n}
      /\ taskTx'[n] = [no |-> n, kind |-> kind, op |-> op, id |-> id, row |-> row, stage |-> "saved"]
      /\ \A m \in Running : taskTx'[m] = taskTx[m]
      /\ taskTx' \in [1..MaxRequests -> Request \union {Void}]
      /\ \A m \in Running' : taskTx'[m].no = m /\ m <= requests'
    BY <1>0, <1>1, StartedOne
<1>3. taskTx'[n].kind = kind
    BY <1>2
<1>4. /\ count' = [c \in Kinds |-> count'[c]]
      /\ "team" \in overtaken => "team" \in overtaken'
      /\ \A t \in Topics : t \in overtaken' <=> t \in overtaken
    BY <1>0, KeyGone
<1>5. TaskTypes'
    BY <1>0, <1>1, <1>2, <1>4 DEF TaskTypes, Ids, TasksAssumption
<1>6. ASSUME NEW c \in Kinds PROVE CountMeant(c)'
    <2>1. (c # kind /\ Changing(c)' => Changing(c)) /\ (Untold(c) => Untold(c)')
        BY <1>0, StartedWaits
    <2>2. CountMeant(c)
        BY DEF TaskInv
    <2>3. Waiting(c)' = Waiting(c)
        BY RowsSame
    <2> QED BY <1>0, <2>1, <2>2, <2>3, KeyCount
<1>7. ClaimsAreOfReports'
    BY <1>0, <1>4 DEF TaskInv, TaskTypes, ClaimsAreOfReports
<1>8. SubscribersMeant'
    BY <1>0, <1>2, <1>3, <1>4, SubscribersStay DEF TaskInv
<1>9. AddressesMeant'
    <2> SUFFICES ASSUME kind # "event" PROVE AddressesMeant'
        OBVIOUS
    <2>1. \A m \in Pending' : m \in Pending /\ taskTx'[m] = taskTx[m]
        BY <1>2, <1>3 DEF Pending
    <2> QED BY <2>1, AddressesStay DEF TaskInv
<1> QED BY <1>5, <1>6, <1>7, <1>8, <1>9 DEF TaskInv

LEMMA RemoveTopicKeeps ==
    ASSUME TasksAssumption, TaskInv, NEW t \in Topics, RemoveTopic(t) PROVE TaskInv'
<1>1. Started("reported", "remove", t, Void, "saved") /\ KeyDeleted("reported")
    BY DEF RemoveTopic
<1>2. requests' \in 1..MaxRequests
    BY <1>1, NextNumberTyped DEF TaskInv
<1>3. [no |-> requests', kind |-> "reported", op |-> "remove", id |-> t, row |-> Void,
       stage |-> "saved"] \in Request
    BY <1>2 DEF Request, Requests
<1> QED BY <1>1, <1>3, StartSavedKeeps DEF RemoveTopic, Kinds

LEMMA WriteSubscriptionKeeps ==
    ASSUME TasksAssumption, TaskInv, NEW n \in Running, WriteSubscription(taskTx[n]) PROVE TaskInv'
<1>0. TaskTypes
    BY DEF TaskInv
<1>1. PICK r : r = taskTx[n]
    OBVIOUS
<1>2. /\ r \in Request /\ r.no = n /\ r.kind = "team" /\ r.stage = "read" /\ Ended(taskTx[n])
      /\ subscribers' = With(r)
      /\ member' = IF r.op = "subscribe" THEN member \union {r.id} ELSE member \ {r.id}
      /\ overtaken' = IF \E m \in Running \ {r.no} : taskTx[m].kind = "team"
                      THEN overtaken \union {"team"} ELSE overtaken
      /\ UNCHANGED <<report, claim, there, suggestion, event, count, header, requests, had>>
    BY <1>0, <1>1, RunningTyped DEF WriteSubscription, At
<1>3. /\ Running' = Running \ {n} /\ \A m \in Running \ {n} : taskTx'[m] = taskTx[m]
      /\ taskTx' \in [1..MaxRequests -> Request \union {Void}]
      /\ \A m \in Running' : taskTx'[m].no = m /\ m <= requests
    BY <1>0, <1>2, EndedOne
<1>4. TaskTypes'
    <2>1. subscribers' \subseteq Team
        BY <1>2, RequestKinds DEF With
    <2> QED BY <1>0, <1>2, <1>3, <2>1 DEF TaskTypes, Ids
<1>5. ASSUME NEW c \in Kinds PROVE CountMeant(c)'
    <2>1. (Changing(c)' => Changing(c)) /\ (Untold(c) => Untold(c)')
        BY <1>0, <1>1, <1>2, EndedWaits
    <2>2. c \in overtaken' <=> c \in overtaken
        BY <1>2 DEF Kinds
    <2> QED BY <1>2, <2>1, <2>2, RowsSame, CountStays DEF TaskInv
<1>6. ClaimsAreOfReports'
    BY <1>0, <1>2 DEF TaskInv, TaskTypes, ClaimsAreOfReports, TasksAssumption
<1>7. SubscribersMeant'
    <2>1. r.row = subscribers \/ "team" \in overtaken
        BY <1>1, <1>2 DEF TaskInv, SubscribersMeant
    <2>2. SubscribersKept'
        BY <1>2, <2>1 DEF TaskInv, SubscribersMeant, SubscribersKept, With
    <2>3. ASSUME NEW m \in Running', taskTx'[m].kind = "team" PROVE "team" \in overtaken'
        BY <1>2, <1>3, <2>3
    <2> QED BY <2>2, <2>3 DEF SubscribersMeant
<1>8. AddressesMeant'
    <2>1. \A m \in Pending' : m \in Pending /\ taskTx'[m] = taskTx[m]
        BY <1>3 DEF Pending
    <2> QED BY <1>2, <2>1, AddressesStay DEF TaskInv
<1> QED BY <1>4, <1>5, <1>6, <1>7, <1>8 DEF TaskInv

(* A request moves on: it has written its row and deleted the key.         *)
LEMMA MovedSavedKeeps ==
    ASSUME TasksAssumption, TaskInv, NEW n \in Running, NEW kind \in Kinds, NEW row,
           taskTx[n].kind = kind, taskTx[n].stage = "read",
           Moved(taskTx[n], row, "saved"), KeyDeleted(kind),
           [no |-> taskTx[n].no, kind |-> taskTx[n].kind, op |-> taskTx[n].op, id |-> taskTx[n].id,
            row |-> row, stage |-> "saved"] \in Request,
           UNCHANGED <<report, claim, there, subscribers, suggestion, event, header, requests, had,
                       member>>,
           kind = "event" => AddressesMeant'
    PROVE  TaskInv'
<1>0. TaskTypes /\ kind # "team"
    BY DEF TaskInv, Kinds
<1>1. /\ Running' = Running
      /\ taskTx'[n] = [no |-> n, kind |-> taskTx[n].kind, op |-> taskTx[n].op,
                       id |-> taskTx[n].id, row |-> row, stage |-> "saved"]
      /\ \A m \in Running \ {n} : taskTx'[m] = taskTx[m]
      /\ taskTx' \in [1..MaxRequests -> Request \union {Void}]
      /\ \A m \in Running' : taskTx'[m].no = m /\ m <= requests
    BY <1>0, MovedOne
<1>2. taskTx'[n].kind = kind
    BY <1>1
<1>3. /\ count' = [c \in Kinds |-> count'[c]]
      /\ "team" \in overtaken => "team" \in overtaken'
      /\ \A t \in Topics : t \in overtaken' <=> t \in overtaken
    BY <1>0, KeyGone
<1>4. TaskTypes'
    BY <1>0, <1>1, <1>3 DEF TaskTypes, Ids
<1>5. ASSUME NEW c \in Kinds PROVE CountMeant(c)'
    <2>1. (c # kind /\ Changing(c)' => Changing(c)) /\ (Untold(c) => Untold(c)')
        BY <1>0, MovedWaits
    <2>2. CountMeant(c)
        BY DEF TaskInv
    <2>3. Waiting(c)' = Waiting(c)
        BY RowsSame
    <2> QED BY <2>1, <2>2, <2>3, <1>0, KeyCount
<1>6. ClaimsAreOfReports'
    BY <1>0, <1>3 DEF TaskInv, TaskTypes, ClaimsAreOfReports
<1>7. SubscribersMeant'
    BY <1>0, <1>1, <1>2, <1>3, SubscribersStay DEF TaskInv
<1>8. AddressesMeant'
    <2> SUFFICES ASSUME kind # "event" PROVE AddressesMeant'
        OBVIOUS
    <2>1. \A m \in Pending' : m \in Pending /\ taskTx'[m] = taskTx[m]
        BY <1>1, <1>2 DEF Pending
    <2> QED BY <2>1, AddressesStay DEF TaskInv
<1> QED BY <1>4, <1>5, <1>6, <1>7, <1>8 DEF TaskInv

-----------------------------------------------------------------------------
(* Suggested articles.                                                     *)

LEMMA SuggestKeeps ==
    ASSUME TasksAssumption, TaskInv, Suggest PROVE TaskInv'
<1>1. PICK i \in Ids : Started("suggestion", "new", i, NoOne, "saved") /\ KeyDeleted("suggestion")
    BY DEF Suggest, FreeIds
<1>2. requests' \in 1..MaxRequests
    BY <1>1, NextNumberTyped DEF TaskInv
<1>3. [no |-> requests', kind |-> "suggestion", op |-> "new", id |-> i, row |-> NoOne,
       stage |-> "saved"] \in Request
    BY <1>2 DEF Request, Requests
<1>4. UNCHANGED <<report, claim, there, subscribers, suggestion, event, header, had, member>>
    BY DEF Suggest
<1> QED BY <1>1, <1>3, <1>4, StartSavedKeeps DEF Kinds

LEMMA DeleteSuggestionKeeps ==
    ASSUME TasksAssumption, TaskInv, NEW n \in Running, DeleteSuggestion(taskTx[n]) PROVE TaskInv'
<1>1. /\ taskTx[n].kind = "suggestion" /\ taskTx[n].stage = "read" /\ taskTx[n].op = "delete"
      /\ Moved(taskTx[n], Void, "saved") /\ KeyDeleted("suggestion")
      /\ UNCHANGED <<report, claim, there, subscribers, suggestion, event, header, requests, had, member>>
    BY DEF DeleteSuggestion, At
<1>2. taskTx[n] \in Request
    BY RunningTyped DEF TaskInv
<1>3. [no |-> taskTx[n].no, kind |-> taskTx[n].kind, op |-> taskTx[n].op, id |-> taskTx[n].id,
       row |-> Void, stage |-> "saved"] \in Request
    BY <1>1, <1>2, RequestKinds DEF Request, Requests
<1> QED BY <1>1, <1>3, MovedSavedKeeps DEF Kinds

(* The owner changes, or a row that is gone is put back past the key.      *)
LEMMA AssignSuggestionKeeps ==
    ASSUME TasksAssumption, TaskInv, NEW n \in Running, NEW owner \in Team \union {NoOne},
           AssignSuggestion(taskTx[n], owner)
    PROVE  TaskInv'
<1>0. TaskTypes
    BY DEF TaskInv
<1>1. PICK i : i = taskTx[n].id
    OBVIOUS
<1>2. /\ taskTx[n].kind = "suggestion" /\ taskTx[n].stage = "read" /\ Ended(taskTx[n])
      /\ UNCHANGED <<report, claim, there, subscribers, event, count, header, requests, had, member>>
      /\ \/ /\ suggestion[i] # Void
            /\ suggestion' = [suggestion EXCEPT ![i] = owner] /\ overtaken' = overtaken
         \/ /\ suggestion' = [suggestion EXCEPT ![i] = owner]
            /\ overtaken' = overtaken \union {"suggestion"}
         \/ suggestion' = suggestion /\ overtaken' = overtaken
    BY <1>1 DEF AssignSuggestion, At
<1>3. i \in Ids
    BY <1>0, <1>1, <1>2, RunningTyped, RequestKinds
<1>4. /\ Running' = Running \ {n} /\ \A m \in Running \ {n} : taskTx'[m] = taskTx[m]
      /\ taskTx' \in [1..MaxRequests -> Request \union {Void}]
      /\ \A m \in Running' : taskTx'[m].no = m /\ m <= requests
    BY <1>0, <1>2, EndedOne
<1>5. suggestion \in [Ids -> Team \union {NoOne, Void}] /\ suggestion' \in [Ids -> Team \union {NoOne, Void}]
    BY <1>0, <1>2 DEF TaskTypes
<1>6. TaskTypes'
    BY <1>0, <1>2, <1>4, <1>5 DEF TaskTypes, Ids
<1>7. ASSUME NEW c \in Kinds PROVE CountMeant(c)'
    <2>1. (Changing(c)' => Changing(c)) /\ (Untold(c) => Untold(c)')
        BY <1>0, <1>2, EndedWaits
    <2>2. c \in overtaken' \/ (Waiting(c)' = Waiting(c) /\ c \notin overtaken)
        <3>1. CASE c # "suggestion"
            <4>1. Waiting(c)' = Waiting(c)
                BY <1>2, <3>1 DEF Waiting, Used, Ids, Kinds
            <4> QED BY <1>2, <4>1
        <3>2. CASE c = "suggestion"
            <4>1. SUFFICES ASSUME c \notin overtaken'
                           PROVE  Waiting(c)' = Waiting(c) /\ c \notin overtaken
                OBVIOUS
            <4>2. CASE suggestion[i] # Void /\ suggestion' = [suggestion EXCEPT ![i] = owner]
                <5>1. Used(suggestion)' = Used(suggestion)
                    BY <1>3, <1>5, <4>2 DEF Used, Ids, TasksAssumption
                <5> QED BY <1>2, <3>2, <4>1, <5>1 DEF Waiting
            <4>3. CASE suggestion' = suggestion
                <5>1. Used(suggestion)' = Used(suggestion)
                    BY <4>3 DEF Used, Ids
                <5> QED BY <1>2, <3>2, <4>1, <5>1 DEF Waiting
            <4> QED BY <1>2, <3>2, <4>1, <4>2, <4>3
        <3> QED BY <3>1, <3>2
    <2> QED BY <1>2, <2>1, <2>2, CountStays DEF TaskInv
<1>8. ClaimsAreOfReports'
    BY <1>2 DEF TaskInv, ClaimsAreOfReports
<1>9. SubscribersMeant'
    BY <1>2, <1>4, SubscribersStay DEF TaskInv
<1>10. AddressesMeant'
    <2>1. \A m \in Pending' : m \in Pending /\ taskTx'[m] = taskTx[m]
        BY <1>4 DEF Pending
    <2> QED BY <1>2, <2>1, AddressesStay DEF TaskInv
<1> QED BY <1>6, <1>7, <1>8, <1>9, <1>10 DEF TaskInv

-----------------------------------------------------------------------------
(* Events.                                                                 *)

(* The numbers of the slugs in a table of ids are bounded.                 *)
LEMMA NumbersBounded ==
    ASSUME TasksAssumption, TaskTypes
    PROVE  \E top \in Nat : \A i \in Used(event) : event[i].number <= top
<1> DEFINE Below(k, top) == \A i \in Used(event) : i <= k => event[i].number <= top
           Unbounded == {k \in 0..MaxIds : ~\E top \in Nat : Below(k, top)}
<1>0. /\ MaxIds \in Nat /\ Used(event) \subseteq 1..MaxIds
      /\ \A i \in Used(event) : event[i].number \in Nat
    BY DEF TasksAssumption, TaskTypes, Used, Ids, NamedEvent
<1>1. Unbounded = {}
    <2>1. SUFFICES ASSUME Unbounded # {} PROVE FALSE
        OBVIOUS
    <2>2. Unbounded \in SUBSET Nat
        BY <1>0
    <2>3. PICK k \in Unbounded : \A l \in Unbounded : k <= l
        <3> HIDE DEF Unbounded
        <3> QED BY <2>1, <2>2, LeastNatural
    <2>4. k # 0
        <3>1. Below(0, 0)
            BY <1>0
        <3> QED BY <3>1
    <2>5. k \in 1..MaxIds /\ k - 1 \in 0..MaxIds /\ k - 1 \notin Unbounded
        BY <1>0, <2>3, <2>4
    <2>6. PICK top \in Nat : Below(k - 1, top)
        BY <2>5
    <2>7. CASE k \notin Used(event)
        <3>1. ASSUME NEW i \in Used(event), i <= k PROVE event[i].number <= top
            <4>1. i \in Nat /\ k \in Nat /\ i # k
                BY <1>0, <2>5, <2>7
            <4>2. i <= k - 1
                BY <3>1, <4>1
            <4> QED BY <2>6, <4>2
        <3> QED BY <2>3, <3>1
    <2>8. CASE k \in Used(event)
        <3>1. PICK more : more = IF top <= event[k].number THEN event[k].number ELSE top
            OBVIOUS
        <3>2. event[k].number \in Nat
            BY <1>0, <2>8
        <3>3. more \in Nat /\ top <= more /\ event[k].number <= more
            BY <3>1, <3>2
        <3>4. ASSUME NEW i \in Used(event), i <= k PROVE event[i].number <= more
            <4>1. i = k \/ i <= k - 1
                <5>1. i \in Nat
                    BY <1>0
                <5>2. k \in Nat
                    BY <2>5
                <5> QED BY <3>4, <5>1, <5>2
            <4>2. event[i].number \in Nat /\ (i <= k - 1 => event[i].number <= top)
                BY <1>0, <2>6
            <4> QED BY <3>3, <4>1, <4>2
        <3> QED BY <2>3, <3>3, <3>4
    <2> QED BY <2>7, <2>8
<1>2. PICK top \in Nat : Below(MaxIds, top)
    <2>1. MaxIds \in 0..MaxIds
        BY <1>0
    <2>2. MaxIds \notin Unbounded
        <3> HIDE DEF Unbounded
        <3> QED BY <1>1
    <2> QED BY <2>1, <2>2
<1> QED BY <1>0, <1>2

(* Event.save: the number it takes is beyond every number of the name.     *)
LEMMA NumberIsNew ==
    ASSUME TasksAssumption, TaskTypes, AddressesMeant, NEW name
    PROVE  /\ Number(name) \in Nat \ {0}
           /\ \A j \in Used(event) : event[j].name = name =>
                 event[j].number < Number(name) /\ Number(name) \notin had[j]
<1> DEFINE S == NumbersOf(name)
<1>0. /\ \A j \in Used(event) : event[j].number \in Nat \ {0} /\ had[j] \in SUBSET Nat
      /\ \A j \in Used(event) : \A k \in had[j] : k <= event[j].number
    BY DEF TaskTypes, Used, Ids, NamedEvent, AddressesMeant
<1>1. \A x : x \in S <=> \E j \in Used(event) : event[j].name = name /\ x = event[j].number
    BY DEF NumbersOf
<1>2. CASE S = {}
    <2>1. Number(name) = 1
        BY <1>2 DEF Number, NextNumber
    <2> QED BY <1>1, <1>2, <2>1
<1>3. CASE S # {}
    <2>1. PICK top \in Nat : \A i \in Used(event) : event[i].number <= top
        BY NumbersBounded
    <2>2. S \in SUBSET (1..top)
        BY <1>0, <1>1, <2>1
    <2>3. \E p \in S : \A q \in S : q <= p
        <3> HIDE DEF S
        <3> QED BY <1>3, <2>2, GreatestNatural
    <2>4. Max(S) \in S /\ \A q \in S : Max(S) >= q
        <3>1. \E p \in S : \A q \in S : p >= q
            BY <2>2, <2>3
        <3> QED BY <3>1 DEF Max
    <2>5. Number(name) = Max(S) + 1
        BY <1>3 DEF Number, NextNumber
    <2> HIDE DEF S
    <2>6. Max(S) \in Nat
        <3>1. S \subseteq Nat
            BY <2>2
        <3> QED BY <2>4, <3>1
    <2>7. ASSUME NEW j \in Used(event), event[j].name = name
          PROVE  event[j].number < Number(name) /\ Number(name) \notin had[j]
        <3>1. event[j].number <= Max(S)
            BY <1>0, <1>1, <2>4, <2>6, <2>7
        <3> QED BY <1>0, <2>5, <2>6, <3>1
    <2> QED BY <2>5, <2>6, <2>7
<1> QED BY <1>2, <1>3

LEMMA EventRowTyped ==
    ASSUME TasksAssumption, TaskTypes, AddressesMeant, NEW name \in Names, NEW visible \in BOOLEAN,
           NEW id
    PROVE  LET row == EventRow(name, visible) IN
           row \in NamedEvent /\ row # Void /\ NumberApart(id, row)
<1>1. PICK row : row = EventRow(name, visible)
    OBVIOUS
<1>2. row = [name |-> name, number |-> Number(name), visible |-> visible]
    BY <1>1 DEF EventRow
<1>3. row \in NamedEvent /\ row.name = name /\ row.number = Number(name)
    BY <1>2, NumberIsNew DEF NamedEvent
<1>4. NumberApart(id, row)
    BY <1>3, NumberIsNew DEF NumberApart
<1> QED BY <1>1, <1>3, <1>4 DEF TasksAssumption

(* One more request is about to store an event.                            *)
LEMMA PendingMore ==
    ASSUME AddressesMeant, UNCHANGED <<event, had>>, NEW n, NEW id, NEW row,
           \A m \in Pending' : m = n \/ (m \in Pending /\ m # n /\ taskTx'[m] = taskTx[m]),
           n \in Pending' => taskTx'[n].id = id /\ taskTx'[n].row = row,
           row # Void => NumberApart(id, row) /\ FreeSlug(row),
           \A m \in Pending : taskTx[m].id # id
    PROVE  AddressesMeant'
<1>1. Used(event)' = Used(event)
    BY DEF Used, Ids
<1>2. /\ AddressesKept'
      /\ (\A i \in Used(event) : event[i].number \in had[i] /\ \A k \in had[i] : k <= event[i].number)'
    BY <1>1 DEF AddressesMeant, AddressesKept
<1>3. (\A m \in Pending : taskTx[m].row # Void => NumberApart(taskTx[m].id, taskTx[m].row))'
    BY <1>1 DEF AddressesMeant, NumberApart
<1>4. \A m \in Pending : row # Void /\ taskTx[m].row # Void /\ taskTx[m].row.name = row.name
        => taskTx[m].row.number # row.number
    BY DEF FreeSlug, Pending
<1>5. (\A m, l \in Pending : m # l => PendingApart(m, l))'
    BY <1>4 DEF AddressesMeant, PendingApart
<1> QED BY <1>2, <1>3, <1>5 DEF AddressesMeant

LEMMA NewEventKeeps ==
    ASSUME TasksAssumption, TaskInv, NEW name \in Names, NEW visible \in BOOLEAN,
           NewEvent(name, visible)
    PROVE  TaskInv'
<1>0. TaskTypes /\ AddressesMeant
    BY DEF TaskInv
<1>1. PICK row : row = EventRow(name, visible)
    OBVIOUS
<1>2. PICK i \in FreeIds("event", event) :
        FreeSlug(row) /\ Started("event", "new", i, row, "saved") /\ KeyDeleted("event")
    BY <1>1 DEF NewEvent
<1>3. UNCHANGED <<report, claim, there, subscribers, suggestion, event, header, had, member>>
    BY DEF NewEvent
<1>4. PICK n : n = requests'
    OBVIOUS
<1>5. i \in Ids /\ row \in NamedEvent /\ NumberApart(i, row) /\ n \in 1..MaxRequests
    BY <1>0, <1>1, <1>2, <1>4, EventRowTyped, NextNumberTyped DEF FreeIds
<1>6. [no |-> n, kind |-> "event", op |-> "new", id |-> i, row |-> row, stage |-> "saved"] \in Request
    BY <1>5 DEF Request, Requests
<1>7. /\ n \notin Running /\ Running' = Running \union {n}
      /\ taskTx'[n] = [no |-> n, kind |-> "event", op |-> "new", id |-> i, row |-> row, stage |-> "saved"]
      /\ \A m \in Running : taskTx'[m] = taskTx[m]
    BY <1>0, <1>2, <1>4, <1>6, StartedOne
<1>8. AddressesMeant'
    <2>1. taskTx'[n].id = i /\ taskTx'[n].row = row
        BY <1>7
    <2>2. \A m \in Pending' : m = n \/ (m \in Pending /\ m # n /\ taskTx'[m] = taskTx[m])
        BY <1>7 DEF Pending
    <2>3. \A m \in Pending : taskTx[m].id # i
        BY DEF Pending, FreeIds
    <2> QED BY <1>0, <1>2, <1>3, <1>5, <2>1, <2>2, <2>3, PendingMore
<1> QED BY <1>2, <1>3, <1>4, <1>6, <1>8, StartSavedKeeps DEF Kinds

(* An event that is changed or deleted, as long as no one else does.       *)
LEMMA MovedEventKeeps ==
    ASSUME TasksAssumption, TaskInv, NEW n \in Running, NEW row \in NamedEvent \union {Void},
           taskTx[n].kind = "event", taskTx[n].stage = "read", taskTx[n].op \in {"edit", "delete"},
           ~RowLocked("event", taskTx[n].id),
           row # Void => NumberApart(taskTx[n].id, row) /\ FreeSlug(row),
           Moved(taskTx[n], row, "saved"), KeyDeleted("event"),
           UNCHANGED <<report, claim, there, subscribers, suggestion, event, header, requests, had,
                       member>>
    PROVE  TaskInv'
<1>0. TaskTypes /\ AddressesMeant /\ taskTx[n] \in Request
    BY RunningTyped DEF TaskInv
<1>1. PICK r : r = taskTx[n]
    OBVIOUS
<1>2. [no |-> r.no, kind |-> r.kind, op |-> r.op, id |-> r.id, row |-> row, stage |-> "saved"] \in Request
    <2>1. r.no \in 1..MaxRequests /\ r.id \in Ids
        BY <1>0, <1>1, RequestKinds
    <2> QED BY <1>1, <2>1 DEF Request, Requests
<1>3. /\ Running' = Running
      /\ taskTx'[n] = [no |-> n, kind |-> r.kind, op |-> r.op, id |-> r.id, row |-> row,
                       stage |-> "saved"]
      /\ \A m \in Running \ {n} : taskTx'[m] = taskTx[m]
    BY <1>0, <1>1, <1>2, MovedOne
<1>4. AddressesMeant'
    <2>1. taskTx'[n].id = r.id /\ taskTx'[n].row = row
        BY <1>3
    <2>2. \A m \in Pending' : m = n \/ (m \in Pending /\ m # n /\ taskTx'[m] = taskTx[m])
        BY <1>3 DEF Pending
    <2>3. \A m \in Pending : taskTx[m].id # r.id
        BY <1>1 DEF Pending, RowLocked
    <2>4. row # Void => NumberApart(r.id, row) /\ FreeSlug(row)
        BY <1>1
    <2> QED BY <1>0, <2>1, <2>2, <2>3, <2>4, PendingMore
<1> QED BY <1>1, <1>2, <1>4, MovedSavedKeeps DEF Kinds

LEMMA EditEventKeeps ==
    ASSUME TasksAssumption, TaskInv, NEW n \in Running, NEW name \in Names, NEW visible \in BOOLEAN,
           EditEvent(taskTx[n], name, visible)
    PROVE  TaskInv'
<1>0. TaskTypes /\ AddressesMeant
    BY DEF TaskInv
<1>1. PICK row : row = EventRow(name, visible)
    OBVIOUS
<1>2. row \in NamedEvent /\ NumberApart(taskTx[n].id, row)
    BY <1>0, <1>1, EventRowTyped
<1>3. /\ taskTx[n].kind = "event" /\ taskTx[n].stage = "read" /\ taskTx[n].op = "edit"
      /\ ~RowLocked("event", taskTx[n].id) /\ FreeSlug(row) /\ KeyDeleted("event")
      /\ UNCHANGED <<report, claim, there, subscribers, suggestion, event, header, requests, had, member>>
      /\ Moved(taskTx[n], row, "saved") \/ Ended(taskTx[n])
    BY <1>1 DEF EditEvent, At
<1>4. CASE Moved(taskTx[n], row, "saved")
    BY <1>2, <1>3, <1>4, MovedEventKeeps
<1>5. CASE Ended(taskTx[n])
    BY <1>3, <1>5, EndedToldKeeps DEF Kinds
<1> QED BY <1>3, <1>4, <1>5

LEMMA DeleteEventKeeps ==
    ASSUME TasksAssumption, TaskInv, NEW n \in Running, DeleteEvent(taskTx[n]) PROVE TaskInv'
BY MovedEventKeeps DEF DeleteEvent, At

-----------------------------------------------------------------------------
(* The end of a transaction.                                               *)

(* An event gets the row that was written for it.                          *)
LEMMA CommitEventKeeps ==
    ASSUME TasksAssumption, TaskTypes, AddressesMeant, NEW n \in Pending, NEW i, NEW row,
           i = taskTx[n].id, row = taskTx[n].row,
           Running' = Running \ {n}, \A m \in Running \ {n} : taskTx'[m] = taskTx[m],
           event' = [event EXCEPT ![i] = row],
           had' = [had EXCEPT ![i] =
                     IF row = Void THEN {}
                     ELSE IF event[i] # Void /\ event[i].name = row.name
                          THEN had[i] \union {row.number} ELSE {row.number}]
    PROVE  /\ AddressesMeant'
           /\ event' \in [Ids -> NamedEvent \union {Void}] /\ had' \in [Ids -> SUBSET Nat]
<1>0. /\ event \in [Ids -> NamedEvent \union {Void}] /\ had \in [Ids -> SUBSET Nat]
      /\ i \in Ids /\ row \in NamedEvent \union {Void}
    BY RunningTyped, RequestKinds DEF TaskTypes, Pending
<1>1. /\ event' \in [Ids -> NamedEvent \union {Void}] /\ event'[i] = row
      /\ \A j \in Ids \ {i} : event'[j] = event[j]
    BY <1>0
<1>2. /\ had' \in [Ids -> SUBSET Nat] /\ \A j \in Ids \ {i} : had'[j] = had[j]
      /\ row # Void => had'[i] = IF event[i] # Void /\ event[i].name = row.name
                                 THEN had[i] \union {row.number} ELSE {row.number}
    <2>1. PICK new : new = IF row = Void THEN {}
                           ELSE IF event[i] # Void /\ event[i].name = row.name
                                THEN had[i] \union {row.number} ELSE {row.number}
        OBVIOUS
    <2>2. new \in SUBSET Nat
        BY <1>0, <2>1 DEF NamedEvent
    <2>3. had' = [had EXCEPT ![i] = new]
        BY <2>1
    <2> QED BY <1>0, <2>1, <2>2, <2>3
<1>3. Used(event)' = (Used(event) \ {i}) \union (IF row = Void THEN {} ELSE {i})
    BY <1>0, <1>1 DEF Used, Ids
<1>4. /\ \A j, k \in Used(event) : j # k /\ event[j].name = event[k].name => event[k].number \notin had[j]
      /\ \A j \in Used(event) : event[j].number \in had[j] /\ \A k \in had[j] : k <= event[j].number
    BY DEF AddressesMeant, AddressesKept
<1>5. row # Void => NumberApart(i, row)
    BY DEF AddressesMeant
<1>6. \A j \in Used(event) : j \in Ids /\ event[j] \in NamedEvent /\ event[j].number \in Nat
    BY <1>0 DEF Used, NamedEvent
<1>7. AddressesKept'
    <2>1. ASSUME NEW j \in Used(event)', NEW k \in Used(event)', j # k, event'[j].name = event'[k].name
          PROVE  event'[k].number \notin had'[j]
        <3>1. CASE j # i /\ k # i
            BY <1>1, <1>2, <1>3, <1>4, <1>6, <2>1, <3>1
        <3>2. CASE k = i
            <4>1. row # Void /\ j \in Used(event) /\ j # i /\ event[j].name = row.name
                BY <1>1, <1>3, <1>6, <2>1, <3>2
            <4>2. row.number \notin had[j]
                BY <1>5, <4>1 DEF NumberApart
            <4> QED BY <1>1, <1>2, <1>6, <3>2, <4>1, <4>2
        <3>3. CASE j = i
            <4>1. row # Void /\ k \in Used(event) /\ k # i /\ event[k].name = row.name
                BY <1>1, <1>3, <1>6, <2>1, <3>3
            <4>2. row.number # event[k].number
                BY <1>4, <1>5, <4>1 DEF NumberApart
            <4>3. event[i] # Void /\ event[i].name = row.name => event[k].number \notin had[i]
                BY <1>0, <1>4, <4>1 DEF Used
            <4> QED BY <1>1, <1>2, <1>6, <3>3, <4>1, <4>2, <4>3
        <3> QED BY <2>1, <3>1, <3>2, <3>3
    <2> QED BY <2>1 DEF AddressesKept
<1>8. ASSUME NEW j \in Used(event)'
      PROVE  event'[j].number \in had'[j] /\ \A k \in had'[j] : k <= event'[j].number
    <2>1. CASE j # i
        BY <1>1, <1>2, <1>3, <1>4, <1>6, <2>1
    <2>2. CASE j = i
        <3>1. row # Void /\ event'[j] = row /\ row.number \in Nat
            BY <1>0, <1>1, <1>3, <2>2 DEF NamedEvent
        <3>2. event[i] # Void /\ event[i].name = row.name
                => i \in Used(event) /\ event[i].number < row.number
            BY <1>0, <1>5, <3>1 DEF NumberApart, Used
        <3>3. had[i] \in SUBSET Nat
            BY <1>0
        <3>4. event[i] # Void /\ event[i].name = row.name => \A k \in had[i] : k <= row.number
            BY <1>4, <1>6, <3>1, <3>2, <3>3
        <3> QED BY <1>2, <2>2, <3>1, <3>4
    <2> QED BY <2>1, <2>2
<1>9. Pending' = Pending \ {n} /\ \A m \in Pending \ {n} : taskTx'[m] = taskTx[m]
    BY DEF Pending
<1>10. ASSUME NEW m \in Pending', taskTx'[m].row # Void
       PROVE  NumberApart(taskTx[m].id, taskTx[m].row)'
    <2>1. PICK id, new : id = taskTx[m].id /\ new = taskTx[m].row
        OBVIOUS
    <2>2. /\ m \in Pending \ {n} /\ id # i /\ new # Void /\ NumberApart(id, new)
          /\ taskTx'[m].id = id /\ taskTx'[m].row = new
          /\ row # Void /\ new.name = row.name => new.number # row.number
        BY <1>9, <1>10, <2>1 DEF AddressesMeant, PendingApart
    <2>3. ASSUME NEW j \in Used(event)', event'[j].name = new.name
          PROVE  IF j = id THEN event'[j].number < new.number ELSE new.number \notin had'[j]
        <3>1. CASE j # i
            BY <1>1, <1>2, <1>3, <1>6, <2>2, <2>3, <3>1 DEF NumberApart
        <3>2. CASE j = i
            <4>1. row # Void /\ new.name = row.name /\ new.number # row.number /\ j # id
                BY <1>1, <1>3, <2>2, <2>3, <3>2
            <4>2. event[i] # Void /\ event[i].name = row.name => new.number \notin had[i]
                BY <1>0, <2>2, <3>2, <4>1 DEF NumberApart, Used
            <4> QED BY <1>2, <3>2, <4>1, <4>2
        <3> QED BY <3>1, <3>2
    <2> QED BY <2>2, <2>3 DEF NumberApart
<1>11. (\A m, l \in Pending : m # l => PendingApart(m, l))'
    BY <1>9 DEF AddressesMeant, PendingApart
<1> QED BY <1>1, <1>2, <1>7, <1>8, <1>10, <1>11 DEF AddressesMeant

LEMMA CommitTaskKeeps ==
    ASSUME TasksAssumption, TaskInv, NEW n \in Running, CommitTask(taskTx[n]) PROVE TaskInv'
<1>0. TaskTypes
    BY DEF TaskInv
<1>1. PICK r : r = taskTx[n]
    OBVIOUS
<1>2. /\ r \in Request /\ r.no = n /\ r.stage = "saved" /\ Ended(taskTx[n])
      /\ there' = IF r.kind = "reported" THEN there \ {r.id} ELSE there
      /\ suggestion' = IF r.kind = "suggestion" THEN [suggestion EXCEPT ![r.id] = r.row] ELSE suggestion
      /\ event' = IF r.kind = "event" THEN [event EXCEPT ![r.id] = r.row] ELSE event
      /\ had' = IF r.kind # "event" THEN had
                ELSE [had EXCEPT ![r.id] =
                        IF r.row = Void THEN {}
                        ELSE IF event[r.id] # Void /\ event[r.id].name = r.row.name
                             THEN had[r.id] \union {r.row.number} ELSE {r.row.number}]
      /\ overtaken' = IF header = Void THEN overtaken ELSE overtaken \union {r.kind}
      /\ UNCHANGED <<report, claim, subscribers, count, header, requests, member>>
    BY <1>0, <1>1, RunningTyped DEF CommitTask, Disturbed
<1>3. /\ Running' = Running \ {n} /\ \A m \in Running \ {n} : taskTx'[m] = taskTx[m]
      /\ taskTx' \in [1..MaxRequests -> Request \union {Void}]
      /\ \A m \in Running' : taskTx'[m].no = m /\ m <= requests
    BY <1>0, <1>2, EndedOne
<1>4. /\ AddressesMeant'
      /\ event' \in [Ids -> NamedEvent \union {Void}] /\ had' \in [Ids -> SUBSET Nat]
    <2>1. CASE r.kind = "event"
        <3>1. n \in Pending
            BY <1>1, <1>2, <2>1 DEF Pending
        <3>2. AddressesMeant
            BY DEF TaskInv
        <3> QED BY <1>0, <1>1, <1>2, <1>3, <2>1, <3>1, <3>2, CommitEventKeeps
    <2>2. CASE r.kind # "event"
        <3>1. \A m \in Pending' : m \in Pending /\ taskTx'[m] = taskTx[m]
            BY <1>3 DEF Pending
        <3> QED BY <1>0, <1>2, <2>2, <3>1, AddressesStay DEF TaskInv, TaskTypes, Ids
    <2> QED BY <2>1, <2>2
<1>5. TaskTypes'
    <2>1. suggestion' \in [Ids -> Team \union {NoOne, Void}]
        <3>1. suggestion \in [Ids -> Team \union {NoOne, Void}]
            BY <1>0 DEF TaskTypes
        <3>2. r.kind = "suggestion" => r.row \in {NoOne, Void}
            BY <1>2, RequestKinds
        <3> QED BY <1>2, <3>1, <3>2
    <2>2. there' \subseteq Topics
        BY <1>0, <1>2 DEF TaskTypes
    <2> QED BY <1>0, <1>2, <1>3, <1>4, <2>1, <2>2 DEF TaskTypes, Ids
<1>6. ASSUME NEW c \in Kinds PROVE CountMeant(c)'
    <2>1. (Changing(c)' => Changing(c)) /\ (Untold(c) => Untold(c)')
        BY <1>0, <1>1, <1>2, EndedWaits
    <2>2. CountMeant(c)
        BY DEF TaskInv
    <2>3. CASE c # r.kind
        <3>1. Waiting(c)' = Waiting(c)
            BY <1>2, <2>3 DEF Waiting, Used, Ids, Kinds
        <3> QED BY <1>2, <2>1, <2>2, <2>3, <3>1, CountStays
    <2>4. CASE c = r.kind
        <3>1. Changing(c)
            BY <1>1, <1>2, <2>4 DEF Changing
        <3>2. c \in overtaken' \/ (header' = Void /\ count'[c] = Void)
            BY <1>2, <2>2, <2>4, <3>1 DEF CountMeant
        <3> QED BY <2>2, <3>2, CountStays
    <2> QED BY <2>3, <2>4
<1>7. ClaimsAreOfReports'
    BY <1>2 DEF TaskInv, ClaimsAreOfReports
<1>8. SubscribersMeant'
    BY <1>2, <1>3, SubscribersStay DEF TaskInv
<1> QED BY <1>4, <1>5, <1>6, <1>7, <1>8 DEF TaskInv

-----------------------------------------------------------------------------
LEMMA TaskStart == ASSUME TasksAssumption, TasksInit PROVE TaskInv
<1>1. /\ report = [t \in Topics |-> Void] /\ claim = [t \in Topics |-> Void] /\ there = Topics
      /\ subscribers = {} /\ member = {} /\ requests = 0 /\ overtaken = {} /\ header = Void
      /\ suggestion = [i \in Ids |-> Void] /\ event = [i \in Ids |-> Void]
      /\ count = [kind \in Kinds |-> Void]
      /\ taskTx = [n \in 1..MaxRequests |-> Void] /\ had = [i \in Ids |-> {}]
    BY DEF TasksInit
<1>2. Running = {} /\ Used(event) = {}
    BY <1>1 DEF Running, Used
<1>3. TaskTypes
    BY <1>1, <1>2 DEF TaskTypes, TasksAssumption
<1>4. \A kind \in Kinds : CountMeant(kind)
    BY <1>1, <1>2 DEF CountMeant, Changing
<1>5. ClaimsAreOfReports /\ SubscribersMeant
    BY <1>1, <1>2 DEF ClaimsAreOfReports, SubscribersMeant, SubscribersKept
<1>6. AddressesMeant
    BY <1>2 DEF AddressesMeant, AddressesKept, Pending
<1> QED BY <1>3, <1>4, <1>5, <1>6 DEF TaskInv

(* Reports, suggestions and events of any number of people, whatever       *)
(* header is under way: the cached numbers, the claims, the subscribers    *)
(* and the addresses of the events are what the parts of TaskInv say.      *)
THEOREM TasksInvariant == TasksAssumption /\ TasksSpec => []TaskInv
<1> SUFFICES ASSUME TasksAssumption PROVE TasksSpec => []TaskInv
    OBVIOUS
<1>1. TasksInit => TaskInv
    BY TaskStart
<1>2. TaskInv /\ [TasksNext]_taskVars => TaskInv'
    <2> SUFFICES ASSUME TaskInv, [TasksNext]_taskVars PROVE TaskInv'
        OBVIOUS
    <2>1. CASE Reports
        BY <2>1, BeginsKeep, RemoveTopicKeeps, AssignKeeps, SolveKeeps, CommitReportKeeps,
           TellKeeps, WriteSubscriptionKeeps, Zenon DEF Reports
    <2>2. CASE Suggestions
        BY <2>2, BeginsKeep, SuggestKeeps, DeleteSuggestionKeeps, AssignSuggestionKeeps, Zenon
           DEF Suggestions
    <2>3. CASE Events
        BY <2>3, BeginsKeep, NewEventKeeps, EditEventKeeps, DeleteEventKeeps, Zenon DEF Events
    <2>4. CASE OpenHeader \/ FillHeader
        BY <2>4, OpenHeaderKeeps, FillHeaderKeeps
    <2>5. CASE \E n \in Running : CommitTask(taskTx[n])
        BY <2>5, CommitTaskKeeps
    <2>6. CASE UNCHANGED taskVars
        <3>1. UNCHANGED <<report, claim, there, subscribers, suggestion, event, count, header,
                          taskTx, requests, had, member, overtaken>>
            BY <2>6 DEF taskVars
        <3>2. /\ Running' = Running /\ Used(event)' = Used(event)
              /\ \A c : Changing(c)' = Changing(c) /\ Untold(c)' = Untold(c)
            BY <3>1 DEF Running, Changing, Untold, Used, Ids
        <3>3. TaskTypes'
            BY <3>1, <3>2 DEF TaskInv, TaskTypes, Ids
        <3>4. \A c \in Kinds : CountMeant(c)'
            BY <3>1, <3>2, RowsSame DEF TaskInv, CountMeant
        <3>5. ClaimsAreOfReports' /\ SubscribersMeant'
            BY <3>1, <3>2 DEF TaskInv, ClaimsAreOfReports, SubscribersMeant, SubscribersKept
        <3>6. AddressesMeant'
            BY <3>1, <3>2, AddressesStay DEF TaskInv, Pending
        <3> QED BY <3>3, <3>4, <3>5, <3>6 DEF TaskInv
    <2> QED BY <2>1, <2>2, <2>3, <2>4, <2>5, <2>6 DEF TasksNext
<1> QED BY <1>1, <1>2, PTL DEF TasksSpec

(* The team sees in the header what waits for it, a claim belongs to a     *)
(* report, subscribers are told, and the address of an event does not lead *)
(* to another one: for any people, topics and events (forum, ikhaya and    *)
(* portal views, Event.save, populate_context_defaults).                   *)
THEOREM TeamSeesHolds == TasksAssumption /\ TasksSpec => []TeamSeesWhatWaits
<1>1. TaskInv => TeamSeesWhatWaits
    <2>1. TaskInv => CountsAreTrue
        BY DEF TaskInv, CountMeant, CountsAreTrue, Untold
    <2> QED BY <2>1 DEF TaskInv, TeamSeesWhatWaits, SubscribersMeant, AddressesMeant
<1> QED BY <1>1, TasksInvariant, PTL
=============================================================================
