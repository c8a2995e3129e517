------------------------------- MODULE Search -------------------------------
(***************************************************************************)
(* A search of the portal (utils/search.py, the search view and its form): *)
(* the documents of an index that is behind the tables, who may find them, *)
(* what is fetched for them, and the index that is written meanwhile.      *)
(*                                                                         *)
(* A document is [component, id, topic]: a post "f", a page of the wiki    *)
(* "w", an article "i" or an entry of the planet "p".  Documents have a    *)
(* date, in the tables and as it was indexed, and a weight for the one     *)
(* query that is asked.  The user may read the documents that are open.    *)
(***************************************************************************)
EXTENDS Naturals, Sequences, FiniteSets, SequencesExt

CONSTANTS Docs, Date(_), Weight(_),   \* distinct numbers: the dates at first
          Dates,       \* those an edit may choose from
          Excluded,    \* those of the categories left out when nothing is chosen
          PerPage,
          None,
          MaxChanges,  \* bound: changes of tables
          MaxFlushes   \* bound: of the index

VARIABLES table,    \* the documents there are
          open,     \* those the user may read now
          date,     \* document -> the date of its row
          index,    \* document -> "open", "closed" or None: as it was indexed
          dated,    \* document -> its date as it was indexed
          flushes,  \* the revision of the index
          request,  \* the search under way, or None
          results,  \* what it gave: <<>>, or <<its entries>>, or <<None>>
          changes   \* spent of MaxChanges

searchVars == <<table, open, date, index, dated, flushes, request, results, changes>>

Areas == {"forum", "all"}
Sorts == {"date", "relevance"}
Attempts == 4

-----------------------------------------------------------------------------
(* The index                                                                *)

\* store() of the adapters: a post that is gone stays, the id of an entry that is
\* deleted is not handed on; a page or an article that is gone is deleted.
Stored(d) == IF d \in table THEN IF d \in open THEN "open" ELSE "closed"
             ELSE IF d.component \in {"f", "p"} THEN index[d] ELSE None

Component(area) == IF area = "forum" THEN {"f"} ELSE {"f", "w", "i", "p"}

\* The deciders: posts and articles by what was indexed, pages by the rules of today,
\* entries by nothing.
MayFind(d) == CASE d.component \in {"f", "i"} -> index[d] = "open"
                [] d.component = "w" -> d \in open
                [] OTHER -> TRUE

Found(area) == {d \in Docs \ Excluded : /\ index[d] # None /\ d.component \in Component(area)
                                        /\ MayFind(d)}

Ranked(sort, d, e) == IF sort = "date" THEN dated[d] > dated[e] ELSE Weight(d) > Weight(e)

\* Of the posts of a topic only the first is a match.
Collapsed(sort, found) ==
  {d \in found : d.component = "f" =>
     ~\E e \in found : e.component = "f" /\ e.topic = d.topic /\ Ranked(sort, e, d)}

Matches(sort, area) == SetToSortSeq(Collapsed(sort, Found(area)), LAMBDA d, e : Ranked(sort, d, e))
Page(matches, page) == LET from == (page - 1) * PerPage
                       IN SubSeq(matches, from + 1, IF from + PerPage < Len(matches)
                                                    THEN from + PerPage ELSE Len(matches))

-----------------------------------------------------------------------------
(* The results                                                              *)

OfComponent(ds, c) == SelectSeq(ds, LAMBDA d : d.component = c)

\* recv_multi: the rows there are, in the order of their dates of today.  Only the query
\* for posts has no order.
Rows(mset, c) ==
  LET rows == {d \in Range(mset) : d.component = c} \intersect table IN
  IF c = "f" THEN SetToSeqs(rows)
  ELSE {SetToSortSeq(rows, LAMBDA d, e : date[d] > date[e])}

\* The n-th row of a component is taken for the n-th match of it.  A match without a row
\* stays what it is.
Shown(mset, rows) ==
  [i \in DOMAIN mset |->
     LET c == mset[i].component
         n == Len(OfComponent(SubSeq(mset, 1, i), c))
     IN [match |-> mset[i], shows |-> IF n <= Len(rows[c]) THEN rows[c][n] ELSE None]]
ShownById(mset, rows) ==
  [i \in DOMAIN mset |->
     [match |-> mset[i], shows |-> IF i <= Len(rows["f"]) THEN rows["f"][i] ELSE None]]
SearchResult(mset, rows) == Shown(mset, rows)

Fetched(mset) ==
  {SearchResult(mset, [f |-> f, w |-> w, i |-> i, p |-> p]) :
     f \in Rows(mset, "f"), w \in Rows(mset, "w"), i \in Rows(mset, "i"), p \in Rows(mset, "p")}

-----------------------------------------------------------------------------

Init == /\ table = Docs /\ open = Docs
        /\ date = [d \in Docs |-> Date(d)] /\ dated = date
        /\ index = [d \in Docs |-> "open"]
        /\ flushes = 0 /\ changes = 0
        /\ request = None /\ results = <<>>

\* The model ends with the answer.
Ongoing == results = <<>>

Delete(d) == /\ Ongoing /\ changes < MaxChanges /\ d \in table
             /\ table' = table \ {d} /\ changes' = changes + 1
             /\ UNCHANGED <<open, date, index, dated, flushes, request, results>>

\* It is hidden, or moved to where the user may not read.
Close(d) == /\ Ongoing /\ changes < MaxChanges /\ d \in table \intersect open
            /\ open' = open \ {d} /\ changes' = changes + 1
            /\ UNCHANGED <<table, date, index, dated, flushes, request, results>>

\* A new revision of a page is its newest.  The date of an article or of an entry is what
\* its form or its feed says.
Edit(d) == /\ Ongoing /\ changes < MaxChanges /\ d \in table /\ d.component # "f"
           /\ \E new \in Dates \ {n[e] : n \in {date, dated}, e \in Docs} :
                /\ d.component = "w" => \A e \in table : date[e] < new
                /\ date' = [date EXCEPT ![d] = new]
           /\ changes' = changes + 1
           /\ UNCHANGED <<table, open, index, dated, flushes, request, results>>

\* The changed documents are stored again, but for the entries of the planet that were
\* saved with an old date and not queued (see PlanetSync).
NotQueued == {d \in table : d.component = "p" /\ dated[d] # date[d]}
Flush == /\ Ongoing /\ flushes < MaxFlushes
         /\ \E passed \in SUBSET NotQueued :
              /\ index' = [d \in Docs |-> IF d \in passed THEN index[d] ELSE Stored(d)]
              /\ dated' = [d \in Docs |-> IF d \in table \ passed THEN date[d] ELSE dated[d]]
         /\ flushes' = flushes + 1
         /\ UNCHANGED <<table, open, date, request, results, changes>>

\* began is history.
Begin(sort, area, page) ==
  /\ request = None
  /\ request' = [sort |-> sort, area |-> area, page |-> page, attempts |-> 0,
                 opened |-> None, began |-> flushes]
  /\ UNCHANGED <<table, open, date, index, dated, flushes, results, changes>>

\* Every attempt opens the newest revision.
Open == /\ request # None /\ request.opened = None
        /\ request' = [request EXCEPT !.opened = flushes]
        /\ UNCHANGED <<table, open, date, index, dated, flushes, results, changes>>

\* A revision is readable until two newer ones have been written.
Discarded == flushes - request.opened >= 2

GetMset == /\ Ongoing /\ request # None /\ request.opened # None /\ ~Discarded
           /\ \E shown \in Fetched(Page(Matches(request.sort, request.area), request.page)) :
                results' = <<shown>>
           /\ UNCHANGED <<table, open, date, index, dated, flushes, request, changes>>

\* DatabaseModifiedError.  After the last attempt there is no result at all.
Retry == /\ Ongoing /\ request # None /\ request.opened # None /\ Discarded
         /\ IF request.attempts + 1 < Attempts
            THEN /\ request' = [request EXCEPT !.attempts = @ + 1, !.opened = None]
                 /\ UNCHANGED results
            ELSE results' = <<None>> /\ UNCHANGED request
         /\ UNCHANGED <<table, open, date, index, dated, flushes, changes>>

Next == \/ \E d \in Docs : Delete(d) \/ Close(d) \/ Edit(d)
        \/ Flush
        \/ \E sort \in Sorts, area \in Areas, page \in 1..2 : Begin(sort, area, page)
        \/ Open \/ GetMset \/ Retry

Spec == Init /\ [][Next]_searchVars

-----------------------------------------------------------------------------

Answer == results'[1]
ShownAt(is) == {Answer[i].shows : i \in is}
Places(c) == {i \in DOMAIN Answer : Answer[i].match.component = c}
AnyGone(c) == \E i \in Places(c) : Answer[i].match \notin table
AnyMoved(c) == \E i \in Places(c) : date[Answer[i].match] # dated[Answer[i].match]

\* What is found is shown, each document once, with the documents that are gone leaving
\* an entry without contents at the end of their component.
EachShownOnce ==
  /\ \A i, j \in DOMAIN Answer : i # j /\ Answer[i].shows # None => Answer[i].shows # Answer[j].shows
  /\ ShownAt(DOMAIN Answer) \ {None} = {Answer[i].match : i \in DOMAIN Answer} \intersect table
  /\ \A i, j \in DOMAIN Answer :
       /\ Answer[i].match.component = Answer[j].match.component /\ i < j
       /\ Answer[i].shows = None
       => Answer[j].shows = None

\* Sorted by date, everything but posts stands at its own place, as long as nothing of its
\* component is gone, or has another date than when it was indexed: the rows are taken for
\* the matches by their position.
ShownInPlace ==
  \A c \in {"w", "i", "p"} :
    request.sort = "date" /\ ~AnyGone(c) /\ ~AnyMoved(c) =>
      \A i \in Places(c) : Answer[i].shows = Answer[i].match

\* A document that the user may no longer read is shown only while the index is behind.
ShownIfReadable ==
  \A i \in DOMAIN Answer :
    LET d == Answer[i].shows IN
    d # None /\ d \notin open => d.component = "p" \/ index[d] # Stored(d)

\* A search gives results that fit, or fails because the index was written anew twice
\* in each of its four attempts.
SearchAnswers ==
  [][results' # results =>
       IF Answer = None THEN flushes - request.began >= 2 * Attempts
       ELSE EachShownOnce /\ ShownInPlace /\ ShownIfReadable]_searchVars
=============================================================================
