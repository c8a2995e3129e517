----------------------------- MODULE PageAccess -----------------------------
(***************************************************************************)
(* What the rules of the wiki allow a user to do with a page: how the      *)
(* texts of the pages that hold rules are read (AccessControlList in       *)
(* wiki/storage.py), how the rules decide (wiki/acl.py), and the test the  *)
(* search uses for many pages.                                             *)
(*                                                                         *)
(* A line is a record: a section names pages, a rule has subjects and      *)
(* words; "*" in a section stands for every page.  Lines of comments, and  *)
(* those that are neither, are left out.                                   *)
(***************************************************************************)
EXTENDS Naturals, Sequences, FiniteSets, SequencesExt

CONSTANTS User, UserGroups,   \* a user, his groups as subjects: "@" and the name
          Pages,              \* the pages asked about
          Owned,              \* functions from pages to what their X-Owner may name
          Words,              \* sets of words of a rule
          MaxLines            \* bound: lines of all texts

VARIABLES owners,   \* page -> its owners
          texts     \* the texts of the pages with rules, in the order of their names

accessVars == <<owners, texts>>

Privs == {"read", "edit", "manage"}

Section(pages) == [kind |-> "section", pages |-> pages, subjects |-> {}, words |-> {}]
Rule(subjects, words) == [kind |-> "rule", pages |-> {}, subjects |-> subjects, words |-> words]
Subjects == {User, "@owner"} \union UserGroups
Lines == {Section({p}) : p \in Pages \union {"*"}}
         \union {Rule({s}, w) : s \in Subjects, w \in Words}

-----------------------------------------------------------------------------
(* The words of a rule                                                      *)

Adds(words) == IF words \intersect {"all", "-none"} # {} THEN Privs ELSE words \intersect Privs
Denial == [read |-> "-read", edit |-> "-edit", manage |-> "-manage"]
Removes(words) == IF words \intersect {"-all", "none"} # {} THEN Privs
                  ELSE {p \in Privs : Denial[p] \in words}

\* A section is in force until the next one, and at most to the end of its text.
ReadLine(state, line) ==
  IF line.kind = "section" THEN [state EXCEPT !.pages = line.pages]
  ELSE [state EXCEPT !.rules = Append(@, [pages |-> state.pages, subjects |-> line.subjects,
                                          adds |-> Adds(line.words),
                                          removes |-> Removes(line.words)])]
ExtractData(text) == FoldLeft(ReadLine, [pages |-> {"*"}, rules |-> <<>>], text).rules
Acl == FlattenSeq([i \in DOMAIN texts |-> ExtractData(texts[i])])
AclOfOneText == ExtractData(FlattenSeq(texts))
Rules == Acl

-----------------------------------------------------------------------------

\* GroupContainer: the groups, and "@owner" if the user or one of them owns the page.
Groups(page) ==
  UserGroups \union (IF owners[page] \intersect ({User} \union UserGroups) # {}
                     THEN {"@owner"} ELSE {})

\* MultiPrivilegeTest compares the names of pages with rows of one column, so that no
\* page is among those it takes for owned.
GroupsInSearch(page) == UserGroups

Matches(rule, page, groups) ==
  /\ rule.subjects \intersect ({User} \union groups) # {}
  /\ rule.pages \intersect {page, "*"} # {}

\* All that apply, in their order; without any rule everybody may do everything.
ApplyRule(flags, rule) == (flags \union rule.adds) \ rule.removes
Apply(flags, rule) == ApplyRule(flags, rule)

PrivilegeFlags(page, groups) ==
  IF Rules = <<>> THEN Privs
  ELSE FoldLeft(Apply, {}, SelectSeq(Rules, LAMBDA rule : Matches(rule, page, groups)))

-----------------------------------------------------------------------------

Init == /\ owners \in Owned
        /\ texts = <<>>

Count == Len(FlattenSeq(texts))

NewText(line) == /\ Count < MaxLines
                 /\ texts' = Append(texts, <<line>>)
                 /\ UNCHANGED owners

NewLine(line) == /\ Count < MaxLines /\ texts # <<>>
                 /\ texts' = Append(Front(texts), Append(Last(texts), line))
                 /\ UNCHANGED owners

Next == \E line \in Lines : NewText(line) \/ NewLine(line)
Spec == Init /\ [][Next]_accessVars

-----------------------------------------------------------------------------
(* What the rules mean, line by line.  A line is <<text, number>>.          *)

All == UNION {{<<t, n>> : n \in DOMAIN texts[t]} : t \in DOMAIN texts}
LineAt(x) == texts[x[1]][x[2]]
Before(x, y) == x[1] < y[1] \/ (x[1] = y[1] /\ x[2] < y[2])
RuleLines == {x \in All : LineAt(x).kind = "rule"}

InForce(x) ==
  LET above == {y \in All : y[1] = x[1] /\ y[2] < x[2] /\ LineAt(y).kind = "section"} IN
  IF above = {} THEN {"*"}
  ELSE LineAt(CHOOSE y \in above : \A z \in above : z[2] <= y[2]).pages

Applies(x, page) ==
  /\ InForce(x) \intersect {page, "*"} # {}
  /\ \/ LineAt(x).subjects \intersect ({User} \union UserGroups) # {}
     \/ "@owner" \in LineAt(x).subjects /\ owners[page] \intersect ({User} \union UserGroups) # {}

\* A user has a privilege on a page if a rule that applies gives it, and neither this
\* rule nor a later one that applies takes it.
RulesDecide ==
  \A page \in Pages, p \in Privs :
    p \in PrivilegeFlags(page, Groups(page)) <=>
      \/ RuleLines = {}
      \/ \E x \in RuleLines :
           /\ Applies(x, page) /\ p \in Adds(LineAt(x).words)
           /\ \A y \in RuleLines : Applies(y, page) /\ p \in Removes(LineAt(y).words) => Before(y, x)

\* The search decides as the page itself does, but for the rules for owners.
SearchDecidesAlike ==
  \A page \in Pages :
    \/ PrivilegeFlags(page, GroupsInSearch(page)) = PrivilegeFlags(page, Groups(page))
    \/ \E x \in RuleLines : "@owner" \in LineAt(x).subjects /\ Applies(x, page)

AccessDecided == RulesDecide /\ SearchDecidesAlike
=============================================================================
