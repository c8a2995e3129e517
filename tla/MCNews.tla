------------------------------- MODULE MCNews -------------------------------
(***************************************************************************)
(* What is published: the news blog, the planet, the pages of the wiki     *)
(* under their names, the lists and the changes that the wiki shows of     *)
(* them, and what waits for the team.  They share nothing that is          *)
(* modelled, so an initial state picks the one that moves; the others stay *)
(* put.                                                                    *)
(***************************************************************************)
EXTENDS Ikhaya, PlanetSync, OpenTasks, WikiSite, TLC

ASSUME IkhayaAssumption
ASSUME PlanetAssumption
ASSUME TasksAssumption
ASSUME SiteAssumption

VARIABLES part,
          text, meta, compiled, edits, behind, outdated,
          clock, revisions, keptChanges, made

\* All feeds are of one blog.
OneBlog == [g \in Guids |-> CHOOSE b \in Blogs : TRUE]

\* Pages that link to each other, name themselves with tags and keys, take a template and
\* become redirects.
Source(links, metaRows, template) == [links |-> links, rows |-> metaRows, template |-> template]
RedirectTo(name) == Source({}, {<<"X-Redirect", name>>}, {})
Only(included) == [inc |-> included, exc |-> {}]
N == INSTANCE WikiLists WITH
       Names <- {"M", "A", "T"}, MainPage <- "M", Templates <- {"T"},
       Texts <- {Source({"A"}, {<<"tag", "x">>}, {}),
                 Source({"M", "A"}, {<<"tag", "x">>, <<"tag", "y">>, <<"k", "m">>}, {}),
                 Source({}, {<<"k", "n">>}, {"T"})},
       Redirect <- RedirectTo,
       Filters <- {[k |-> Only({"m"})], [k |-> [inc |-> {"m"}, exc |-> {"n"}]],
                   [k |-> Only({"m"}), tag |-> Only({"x"})]},
       Similar <- {<<"M", "A">>}, MaxPages <- 3, MaxEdits <- 3, page <- text,
       Pages <- {"p", "q"}, Zones <- {0, 1}, PerPages <- {2, 3}, Spans <- {1, 2},
       DayLength <- 3, MaxTime <- 6, MaxKept <- 1, now <- clock, kept <- keptChanges

listVars == <<text, meta, compiled, edits, behind, outdated>>
changeVars == <<clock, revisions, keptChanges, made>>
wikiVars == <<siteVars, listVars, changeVars>>

NewsInit ==
        /\ part \in {"ikhaya", "told", "planet", "long", "wiki", "rules", "lists", "changes", "tasks"}
        /\ Init
        /\ PlanetInit
        /\ SiteInit
        /\ N!Init
        /\ N!ChangesInit
        /\ TasksInit

\* Bounds: articles are edited while nobody subscribes and have one comment at most, or have
\* a subscriber and two comments while their text stays; a blog has one entry and is edited
\* over several sessions, or has two, one of them with a guid that is too long, and is not
\* edited, and its entries not hidden, the other not changed and none of them dated ahead.
OneComment == \A a \in Articles : Len(comments[a]) <= 1
TextStays == \A t \in tx : t.row.text = art[t.a].text
OneEntry == \A g \in LongGuids : feed[g] = Null
NotEdited == /\ now <= 2 /\ \A b \in Blogs : blog[b].edit = 0
             /\ \A g \in Guids : entry[g] # Null => ~entry[g].hidden
             /\ \A g \in Guids : feed[g] # Null => /\ feed[g].updated <= 2
                                                   /\ g \in LongGuids \/ feed[g].version = 1
IkhayaStep == /\ \/ part = "ikhaya" /\ Next /\ subs' = subs /\ OneComment'
                 \/ part = "told" /\ Next /\ TextStays'
              /\ UNCHANGED <<part, planetVars, wikiVars, taskVars>>

PlanetStep == /\ \/ part = "planet" /\ PlanetNext /\ OneEntry'
                 \/ part = "long" /\ PlanetNext /\ NotEdited'
              /\ UNCHANGED <<part, vars, wikiVars, taskVars>>

\* Bounds: three pages without rules, and nobody asks for them; two with, and nobody asks
\* for the list.
NoRules == rules = Nil /\ \A i \in Stored : page[i].text \notin Rules
TwoPages == nextId <= 3 /\ list = Nil
WikiStep == /\ \/ part = "wiki" /\ SiteNext /\ NoRules'
               \/ part = "rules" /\ SiteNext /\ TwoPages'
            /\ UNCHANGED <<part, vars, planetVars, listVars, changeVars, taskVars>>

ListStep == part = "lists" /\ N!Next
            /\ UNCHANGED <<part, vars, planetVars, siteVars, changeVars, taskVars>>
ChangeStep == part = "changes" /\ N!ChangesNext
              /\ UNCHANGED <<part, vars, planetVars, siteVars, listVars, taskVars>>
TaskStep == part = "tasks" /\ TasksNext
            /\ UNCHANGED <<part, vars, planetVars, wikiVars>>

NewsNext == IkhayaStep \/ PlanetStep \/ WikiStep \/ ListStep \/ ChangeStep \/ TaskStep

NewsSpec == NewsInit /\ [][NewsNext]_<<part, vars, planetVars, wikiVars, taskVars>>

\* The lists that pages show of the wiki, and its recent changes, are those of its pages.
WikiShownTrue == CASE part = "lists" -> N!ListsAreTrue
                   [] part = "changes" -> N!EveryChangeOnce
                   [] OTHER -> TRUE

Symmetry == Permutations(Sites)
=============================================================================
