----------------------------- MODULE Privileges -----------------------------
(***************************************************************************)
(* The privileges of one visitor in one forum (forum/acl.py): rows that    *)
(* grant and deny bits, of the visitor and of the groups he is in, how     *)
(* they are joined, and the copy of the rows that is kept for the          *)
(* anonymous user.  Rows are written by the forms for users and groups.    *)
(*                                                                         *)
(* A mask is a set of bits; the privileges are a number, as they are       *)
(* computed by addition and subtraction.                                   *)
(***************************************************************************)
EXTENDS Integers, FiniteSets, FiniteSetsExt

CONSTANTS Bits,       \* the bits of the privileges: powers of two
          FormBits,   \* those that the forms are filled in with
          Groups,     \* the groups of the visitor
          Anonymous,  \* whether he is the anonymous user
          None,
          MaxEdits    \* bound: forms sent

VARIABLES rows,    \* subject -> its row
          cached,  \* 'forum/acls/anonymous': the rows, or None
          form,    \* a form that is flushed and not committed: [subject, row], or None
          edits,   \* spent of MaxEdits
          raced    \* history: the copy was filled while a form on the user's own row was
                   \* flushed and not committed

privilegeVars == <<rows, cached, form, edits, raced>>

Subjects == Groups \union {"user"}
Row(p, n) == [positive |-> p, negative |-> n]
NoRow == Row({}, {})
Rows == {row \in {Row(p, n) : p, n \in SUBSET FormBits} : row.positive \intersect row.negative = {}}

-----------------------------------------------------------------------------
(* Joining the rows                                                         *)

\* The bits of a number, which may be negative.
SplitBits(mask) == {bit \in Bits : (mask \div bit) % 2 = 1}
JoinFlags(flags) == SumSet(flags)

\* |= with the bits of a positive mask.
Join(result, p) == result + JoinFlags(p \ SplitBits(result))

\* A denied mask is subtracted if any of it is granted.
Subtract(result, n) == IF n \intersect SplitBits(result) # {} THEN result - JoinFlags(n) ELSE result

\* The masks are in a set of numbers, without an order.
RECURSIVE SubtractAll(_, _)
SubtractAll(result, masks) ==
  IF masks = {} THEN {result}
  ELSE UNION {SubtractAll(Subtract(result, n), masks \ {n}) : n \in masks}

\* All rows of some subjects: what may come out.
JoinBits(result, seen, subjects) ==
  SubtractAll(Join(result, UNION {seen[s].positive : s \in subjects}),
              {seen[s].negative : s \in subjects})

\* The rows of the groups first, then that of the user.
GetPrivileges(seen) == UNION {JoinBits(r, seen, {"user"}) : r \in JoinBits(0, seen, Groups)}
HasPrivilege(result, bit) == bit \in SplitBits(result)

\* The rows a question is answered from.
PrivilegeMap == IF Anonymous /\ cached # None THEN cached ELSE rows

-----------------------------------------------------------------------------

Init == /\ rows = [s \in Subjects |-> NoRow]
        /\ cached = None /\ form = None /\ edits = 0 /\ raced = FALSE

\* The mapper knows the anonymous user by the row's user.
Erases(s) == s = "user" /\ Anonymous
CacheErased(s) == Erases(s)

\* user_edit_privileges and group_edit: the row is written and the copy erased.
Flush(s, row) ==
  /\ form = None /\ edits < MaxEdits /\ row # rows[s]
  /\ form' = [subject |-> s, row |-> row]
  /\ edits' = edits + 1
  /\ IF CacheErased(s) THEN cached' = None /\ raced' = FALSE
     ELSE UNCHANGED <<cached, raced>>
  /\ UNCHANGED rows

Commit ==
  /\ form # None
  /\ rows' = [rows EXCEPT ![form.subject] = form.row]
  /\ form' = None
  /\ UNCHANGED <<cached, edits, raced>>

\* The anonymous user asks: the rows are kept for a day.
Ask == /\ Anonymous /\ cached = None
       /\ cached' = rows
       /\ raced' = (form # None /\ form.subject = "user")
       /\ UNCHANGED <<rows, form, edits>>

Expire == /\ cached # None
          /\ cached' = None /\ raced' = FALSE
          /\ UNCHANGED <<rows, form, edits>>

Next == \/ \E s \in Subjects, row \in Rows : Flush(s, row)
        \/ Commit \/ Ask \/ Expire

Spec == Init /\ [][Next]_privilegeVars

-----------------------------------------------------------------------------

Granted(s) == PrivilegeMap[s].positive
Denied(s) == PrivilegeMap[s].negative
ByGroups == UNION {Granted(g) : g \in Groups}
Kept == ByGroups \ UNION {Denied(g) : g \in Groups}

\* Every denied mask is granted as a whole or not at all, and no two of them overlap.
Whole(mask, granted) == mask \subseteq granted \/ mask \intersect granted = {}
MasksAreWhole ==
  /\ \A g \in Groups : Whole(Denied(g), ByGroups)
  /\ \A g, h \in Groups : Denied(g) # Denied(h) => Denied(g) \intersect Denied(h) = {}
  /\ Whole(Denied("user"), Kept \union Granted("user"))

\* As far as denied masks are whole, the groups grant what one of them grants and none
\* denies, and the user's own row overrides them, bit by bit.
PrivilegesFollowRows ==
  MasksAreWhole =>
    \A r \in GetPrivileges(PrivilegeMap) : \A bit \in Bits :
      HasPrivilege(r, bit) <=> bit \in (Kept \union Granted("user")) \ Denied("user")

\* The copy holds the anonymous user's own row as it is, unless it was filled before the
\* change that had erased it was committed.  Of his groups' rows it may miss every change.
CopyHasOwnRow == cached # None /\ cached["user"] # rows["user"] => form # None \/ raced

\* Denied bits only take away: nobody has a privilege that no row grants him.
NegativesOnlyTakeAway ==
  \A r \in GetPrivileges(PrivilegeMap) : \A bit \in Bits :
    HasPrivilege(r, bit) => \E s \in Subjects : bit \in Granted(s)
=============================================================================
