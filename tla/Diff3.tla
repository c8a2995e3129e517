------------------------------- MODULE Diff3 -------------------------------
(***************************************************************************)
(* The three-way merge that an edit of a wiki page goes through when the   *)
(* page has changed since its form was opened: stream_merge, one iteration *)
(* of its loops per step.  A text is a sequence of lines; a line is a      *)
(* number.  Positions count from 1.                                        *)
(***************************************************************************)
EXTENDS Integers, Sequences, FiniteSets

CONSTANT Merges   \* the texts that are merged: <<old, other, new>>

\* Any three texts may be.
Diff3Assumption == \A m \in Merges : m \in Seq(Nat) \X Seq(Nat) \X Seq(Nat)

VARIABLES
    old, other, new,                        \* the arguments
    old_lineno, other_lineno, new_lineno,
    out,                                    \* the lines yielded
    theirs, mine,                           \* other_match, new_match
    pc,                                     \* "scan", "decide", "triple" or "done"
    shifted  \* history: lines of other were taken where they have other numbers than in old

args == <<old, other, new>>
linenos == <<old_lineno, other_lineno, new_lineno>>
mergeVars == <<args, linenos, out, theirs, mine, pc, shifted>>

Left == -1      \* the markers
Middle == -2
Right == -3
Markers == {Left, Middle, Right}

-----------------------------------------------------------------------------
(* match and find_match.                                                   *)

(* n lines of a from p on are those of b from q on.                        *)
Equal(a, b, p, q, n) ==
    /\ p + n <= Len(a) + 1
    /\ q + n <= Len(b) + 1
    /\ \A m \in 0..(n - 1) : a[p + m] = b[q + m]

(* The number of equal lines from p and q on, at most max; any number of   *)
(* them unless max is positive.                                            *)
Match(a, b, p, q, max) ==
    CHOOSE n \in 0..Len(a) :
        /\ Equal(a, b, p, q, n)
        /\ max > 0 => n <= max
        /\ (max > 0 /\ n = max) \/ ~Equal(a, b, p, q, n + 1)

MinCount == 3
Larger(x, y) == IF x > y THEN x ELSE y
Least(S) == CHOOSE x \in S : \A y \in S : x <= y

(* The nearest place from p and q on where MinCount lines are equal.  The  *)
(* search widens by one line of each text at a time; with the last line of *)
(* b it meets a first.                                                     *)
FindMatch(a, b, p, q) ==
    LET hits == {h \in (p..Len(a)) \X (q..Len(b)) :
                    Equal(a, b, h[1], h[2], MinCount)}
        nearest == Least({Larger(h[1] - p, h[2] - q) : h \in hits})
        along == {h[1] : h \in {g \in hits : /\ g[2] = q + nearest
                                             /\ g[1] <= p + nearest}}
        across == {h[2] : h \in {g \in hits : /\ g[1] = p + nearest
                                              /\ g[2] < q + nearest}}
    IN  IF hits = {} THEN <<Len(a) + 1, Len(b) + 1>>
        ELSE IF along # {} THEN <<Least(along), q + nearest>>
        ELSE <<p + nearest, Least(across)>>

-----------------------------------------------------------------------------
(* stream_merge.                                                           *)

MergeInit ==
    /\ \E m \in Merges : old = m[1] /\ other = m[2] /\ new = m[3]
    /\ old_lineno = 1 /\ other_lineno = 1 /\ new_lineno = 1
    /\ out = <<>>
    /\ theirs = <<1, 1>> /\ mine = <<1, 1>>
    /\ pc = "scan" /\ shifted = FALSE

Scanning ==
    /\ pc = "scan"
    /\ old_lineno <= Len(old) /\ other_lineno <= Len(other) /\ new_lineno <= Len(new)

Agree == old[old_lineno] = other[other_lineno] /\ old[old_lineno] = new[new_lineno]

(* Mutant: the last of the changed lines is left out.                      *)
ChangedShort(s, p, q) == SubSeq(s, p, q - 2)

(* The changed lines of a side.                                            *)
Changed(s, p, q) == SubSeq(s, p, q - 1)

KeepLine ==
    /\ Scanning /\ Agree
    /\ out' = Append(out, old[old_lineno])
    /\ old_lineno' = old_lineno + 1
    /\ other_lineno' = other_lineno + 1
    /\ new_lineno' = new_lineno + 1
    /\ UNCHANGED <<args, theirs, mine, pc, shifted>>

(* Where the other two texts match the old one again.                      *)
FindMatches ==
    /\ Scanning /\ ~Agree
    /\ theirs' = FindMatch(old, other, old_lineno, other_lineno)
    /\ mine' = FindMatch(old, new, old_lineno, new_lineno)
    /\ pc' = "decide"
    /\ UNCHANGED <<args, linenos, out, shifted>>

NewChanged == mine # <<old_lineno, new_lineno>>

(* Mutant: what is changed is counted from the position in new.            *)
ChangedInNew == mine[1] - new_lineno

NewChangedLines == mine[1] - old_lineno
(* What the code takes for the number of old lines that other replaces: it *)
(* counts from the position in other.                                      *)
OtherChangedLines == theirs[1] - other_lineno

OnlyNewChanged ==
    /\ NewChanged
    /\ Match(old, other, old_lineno, other_lineno, NewChangedLines) = NewChangedLines
OnlyOtherChanged ==
    /\ ~NewChanged
    /\ Match(old, new, old_lineno, new_lineno, OtherChangedLines) = OtherChangedLines

TakeNew ==
    /\ pc = "decide" /\ OnlyNewChanged
    /\ out' = out \o Changed(new, new_lineno, mine[2])
    /\ old_lineno' = mine[1] /\ new_lineno' = mine[2]
    /\ other_lineno' = other_lineno + NewChangedLines
    /\ pc' = "scan"
    /\ UNCHANGED <<args, theirs, mine, shifted>>

TakeOther ==
    /\ pc = "decide" /\ OnlyOtherChanged
    /\ out' = out \o Changed(other, other_lineno, theirs[2])
    /\ old_lineno' = theirs[1] /\ other_lineno' = theirs[2]
    /\ new_lineno' = new_lineno + OtherChangedLines
    /\ pc' = "scan"
    /\ shifted' = (shifted \/ old_lineno # other_lineno)
    /\ UNCHANGED <<args, theirs, mine>>

(* "Both changed, conflict!"                                               *)
FindConflict ==
    /\ pc = "decide" /\ ~OnlyNewChanged /\ ~OnlyOtherChanged
    /\ pc' = "triple"
    /\ UNCHANGED <<args, linenos, out, theirs, mine, shifted>>

Conflicting(x, y) == <<Left>> \o x \o <<Middle>> \o y \o <<Right>>

(* tripple_match returns the positions p, q and r.                         *)
YieldConflict(p, q, r) ==
    /\ out' = out \o Conflicting(Changed(other, other_lineno, q), Changed(new, new_lineno, r))
    /\ old_lineno' = p /\ other_lineno' = q /\ new_lineno' = r
    /\ pc' = "scan"
    /\ UNCHANGED <<args, theirs, mine, shifted>>

Ahead == mine[1] - theirs[1]

(* "New changed more lines".                                               *)
TripleNew ==
    /\ pc = "triple" /\ Ahead > 0
    /\ LET n == Match(old, other, theirs[1], theirs[2], Ahead) IN
        IF n = Ahead
        THEN YieldConflict(mine[1], theirs[2] + Ahead, mine[2])
        ELSE /\ theirs' = FindMatch(old, other, theirs[1] + n, theirs[2] + n)
             /\ UNCHANGED <<args, linenos, out, mine, pc, shifted>>

(* "Other changed more lines".                                             *)
TripleOther ==
    /\ pc = "triple" /\ Ahead < 0
    /\ LET n == Match(old, new, mine[1], mine[2], -Ahead) IN
        IF n = -Ahead
        THEN YieldConflict(theirs[1], theirs[2], mine[2] - Ahead)
        ELSE /\ mine' = FindMatch(old, new, mine[1] + n, mine[2] + n)
             /\ UNCHANGED <<args, linenos, out, theirs, pc, shifted>>

TripleBoth ==
    /\ pc = "triple" /\ Ahead = 0
    /\ YieldConflict(mine[1], theirs[2], mine[2])

(* The lines of s that are left from p on are the last ones of old.        *)
SameRest(s, p) ==
    LET left == Len(old) + 1 - old_lineno IN
    /\ left = Len(s) + 1 - p
    /\ Match(old, s, old_lineno, p, left) = left

(* What is left when one of the texts has ended.                           *)
Rest ==
    LET restOther == Changed(other, other_lineno, Len(other) + 1)
        restNew == Changed(new, new_lineno, Len(new) + 1)
        oldEnded == old_lineno > Len(old)
        otherEnded == other_lineno > Len(other)
        newEnded == new_lineno > Len(new)
    IN  CASE oldEnded /\ otherEnded /\ newEnded -> <<>>
          [] oldEnded /\ otherEnded /\ ~newEnded -> restNew
          [] oldEnded /\ newEnded /\ ~otherEnded -> restOther
          [] OTHER ->
                IF /\ newEnded /\ SameRest(other, other_lineno)
                   /\ otherEnded /\ SameRest(new, new_lineno)
                THEN <<>>
                ELSE IF new = other THEN restNew
                ELSE Conflicting(restOther, restNew)

Finish ==
    /\ pc = "scan" /\ ~Scanning
    /\ out' = out \o Rest
    /\ pc' = "done"
    /\ UNCHANGED <<args, linenos, theirs, mine, shifted>>

MergeNext ==
    \/ KeepLine \/ FindMatches \/ TakeNew \/ TakeOther \/ FindConflict
    \/ TripleNew \/ TripleOther \/ TripleBoth
    \/ Finish

MergeSpec == MergeInit /\ [][MergeNext]_mergeVars

-----------------------------------------------------------------------------
(* Properties.                                                             *)

Done == pc = "done"
Conflict == \E n \in DOMAIN out : out[n] \in Markers
LinesOf(s) == {s[n] : n \in DOMAIN s}

(* How often a text has a line, up to position p.                          *)
CountUpTo(s, line, p) == Cardinality({n \in 1..p : s[n] = line})
Count(s, line) == CountUpTo(s, line, Len(s))

(* No line that a user has added is lost, at any point of the merge, as    *)
(* often as he has it, and whatever else the two have changed.             *)
AddedLinesKept ==
    \A line \in (LinesOf(other) \union LinesOf(new)) \ LinesOf(old) :
        /\ Count(out, line) >= CountUpTo(other, line, other_lineno - 1)
        /\ Count(out, line) >= CountUpTo(new, line, new_lineno - 1)
        /\ Done => /\ Count(out, line) >= Count(other, line)
                   /\ Count(out, line) >= Count(new, line)

(* A merge without conflicts keeps a line of the old text exactly if both  *)
(* users have kept it, and every line that one of them has added: on sets  *)
(* of lines it is the Merge of WikiPage.  This is so for a text whose lines *)
(* all differ (where they repeat, the match that is found may be another), *)
(* and unless lines of the other text were taken at a shifted position,    *)
(* after which the merge goes on at places that do not belong together.    *)
CleanMergeIsThreeWay ==
    Done /\ ~Conflict /\ ~shifted /\ (\A m, n \in DOMAIN old : old[m] = old[n] => m = n) =>
        LinesOf(out) = (LinesOf(old) \intersect LinesOf(other) \intersect LinesOf(new))
                        \union (LinesOf(other) \ LinesOf(old))
                        \union (LinesOf(new) \ LinesOf(old))

(* Where the merge takes over what other has changed, "new is unchanged":  *)
(* it has the old lines that are replaced, and the merge goes on behind    *)
(* them.                                                                   *)
OtherTakenUnchanged ==
    [][TakeOther =>
         LET replaced == old_lineno' - old_lineno IN
         /\ new_lineno' = new_lineno + replaced
         /\ Equal(old, new, old_lineno, new_lineno, replaced)]_mergeVars

(* The merge of any two edits ends.                                        *)
Terminates == <>Done
=============================================================================
