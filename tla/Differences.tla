----------------------------- MODULE Differences -----------------------------
(***************************************************************************)
(* The page that shows what changed between two revisions (do_diff, Diff   *)
(* in wiki/models.py): a unified diff of the two texts, which DiffRenderer *)
(* (utils/diff3.py) reads again to number the lines and to mark what       *)
(* differs within a line.                                                  *)
(*                                                                         *)
(* A script is the list of the lines of both texts in the order in which   *)
(* a diff shows them; script grows by a line per step, and every script is *)
(* rendered.  A line is a sequence of characters.                          *)
(***************************************************************************)
EXTENDS Integers, Sequences, SequencesExt, FiniteSetsExt

CONSTANTS Texts,        \* lines of short scripts
          Plain(_),     \* the line of a command in the others
          Escaped(_),   \* a character as the page's HTML has it
          Context,      \* context_lines
          None,
          MaxLines, MaxTexts   \* bounds: of any script, of a short one

VARIABLE script         \* of <<command, text>>, the command " ", "-" or "+"

-----------------------------------------------------------------------------
(* unified_diff of the standard library                                     *)

Changed(i) == script[i][1] # " "
InHunk(i) == \E j \in DOMAIN script : Changed(j) /\ i - j \in (-Context)..Context

\* The lines before place i of the old and of the new text.
OldBefore(i) == Cardinality({j \in 1..(i - 1) : script[j][1] # "+"})
NewBefore(i) == Cardinality({j \in 1..(i - 1) : script[j][1] # "-"})

Starts == {i \in DOMAIN script : InHunk(i) /\ (i = 1 \/ ~InHunk(i - 1))}
EndOf(i) == CHOOSE e \in i..Len(script) : /\ \A j \in i..e : InHunk(j)
                                          /\ e = Len(script) \/ ~InHunk(e + 1)

\* The length 1 is left out; an empty range starts at the line before it.
From(before, length) == IF length = 0 THEN before ELSE before + 1
Length(length) == IF length = 1 THEN None ELSE length

Header(i) ==
  LET old == OldBefore(EndOf(i) + 1) - OldBefore(i)
      new == NewBefore(EndOf(i) + 1) - NewBefore(i)
  IN [first |-> "@", rest |-> <<From(OldBefore(i), old), Length(old),
                               From(NewBefore(i), new), Length(new)>>]

EscapedLine(text) == FlattenSeq([i \in DOMAIN text |-> Escaped(text[i])])

Title(first) == [first |-> first, rest |-> "title"]

\* The lines of the diff, none if the texts are equal, escaped as DiffRenderer does first.
GenerateUdiff ==
  IF \A i \in DOMAIN script : ~Changed(i) THEN <<>>
  ELSE <<Title("-"), Title("+")>> \o
       FlattenSeq([n \in 1..Cardinality(Starts) |->
         LET i == CHOOSE s \in Starts : Cardinality({t \in Starts : t < s}) = n - 1 IN
         <<Header(i)>> \o [k \in 1..(EndOf(i) - i + 1) |->
            [first |-> script[i + k - 1][1], rest |-> EscapedLine(script[i + k - 1][2])]]])

-----------------------------------------------------------------------------
(* _parse_udiff                                                             *)

\* The reader is at the "file", i.e. before a title, at the "revision" behind its first line,
\* between the "chunks", in the "lines" of one.
OrOne(x) == IF x = None THEN 1 ELSE x

EitherLeft(r) == r.old < r.oldEnd \/ r.new < r.newEnd
BothLeft(r) == r.old < r.oldEnd /\ r.new < r.newEnd
MoreLines(r) == EitherLeft(r)

BeginChunk(r, rest) ==
  [r EXCEPT !.old = rest[1] - 1, !.oldEnd = OrOne(rest[2]) + rest[1] - 1,
            !.new = rest[3] - 1, !.newEnd = OrOne(rest[4]) + rest[3] - 1,
            !.chunks = Append(@, <<>>), !.in = "lines"]

Action(first) == CASE first = "+" -> "add" [] first = "-" -> "del" [] first = " " -> "unmod"

TakeLine(r, line) ==
  LET old == r.old + (IF line.first # "+" THEN 1 ELSE 0)
      new == r.new + (IF line.first # "-" THEN 1 ELSE 0)
      row == [old |-> IF line.first # "+" THEN old ELSE None,
              new |-> IF line.first # "-" THEN new ELSE None,
              action |-> Action(line.first), line |-> line.rest, mark |-> None]
  IN [r EXCEPT !.old = old, !.new = new, !.chunks[Len(r.chunks)] = Append(@, row)]

Behind(r, line) ==
  CASE r.in = "file"     -> IF line = Title("-") THEN [r EXCEPT !.in = "revision"] ELSE r
    [] r.in = "revision" -> [r EXCEPT !.in = "chunks"]
    [] r.in = "chunks"   -> IF line.first = "@" THEN BeginChunk(r, line.rest) ELSE [r EXCEPT !.in = "file"]

ReadLine(r, line) ==
  IF r.in # "lines" THEN Behind(r, line)
  ELSE IF MoreLines(r) THEN TakeLine(r, line) ELSE Behind([r EXCEPT !.in = "chunks"], line)

ParseUdiff(lines) ==
  FoldLeft(ReadLine, [in |-> "file", chunks |-> <<>>, old |-> 0, oldEnd |-> 0, new |-> 0, newEnd |-> 0],
           lines).chunks

-----------------------------------------------------------------------------
(* The marks within lines                                                   *)

CommonStart(a, b) ==
  Max({n \in 0..Min({Len(a), Len(b)}) : \A i \in 1..n : a[i] = b[i]})
CommonEnd(a, b, limit) ==
  Max({n \in 0..limit : \A i \in 0..(n - 1) : a[Len(a) - i] = b[Len(b) - i]})

\* What is left of the shorter line behind the common start.
Remaining(a, b, start) == Min({Len(a), Len(b)}) - start
Limit(a, b, start) == Remaining(a, b, start)

\* _highlight_line: the tag encloses what is behind the one place and up to the other.
HighlightLine(chunk, i) ==
  LET a == chunk[i].line  b == chunk[i + 1].line
      start == CommonStart(a, b)
      end == CommonEnd(a, b, Limit(a, b, start))
  IN IF start = 0 /\ end = 0 THEN chunk
     ELSE [chunk EXCEPT ![i].mark = <<start, Len(a) - end>>, ![i + 1].mark = <<start, Len(b) - end>>]

\* Lines are taken in pairs from each changed one on; a pair of a removed and an added line
\* is marked.
Highlight(chunk) ==
  FoldLeft(LAMBDA done, i :
             IF i < done.next \/ chunk[i].action = "unmod" THEN done
             ELSE IF i = Len(chunk) \/ chunk[i + 1].action \in {"unmod", chunk[i].action}
                  THEN [done EXCEPT !.next = i + 2]
                  ELSE [next |-> i + 2, chunk |-> HighlightLine(done.chunk, i)],
           [next |-> 1, chunk |-> chunk], [i \in DOMAIN chunk |-> i]).chunk

TemplateDiff == LET chunks == ParseUdiff(GenerateUdiff) IN
                [n \in DOMAIN chunks |-> Highlight(chunks[n])]

-----------------------------------------------------------------------------

Init == script = <<>>

\* A diff shows what was removed before what was added.
Next == \E command \in {" ", "-", "+"} : \E text \in Texts \union {Plain(command)} :
          LET new == Append(script, <<command, text>>) IN
          /\ script' = new
          /\ command = "-" /\ script # <<>> => Last(script)[1] # "+"
          /\ Len(new) <= (IF \A i \in DOMAIN new : new[i][2] = Plain(new[i][1]) THEN MaxLines ELSE MaxTexts)

Spec == Init /\ [][Next]_script

-----------------------------------------------------------------------------

Expected == SelectSeq([i \in DOMAIN script |-> i], InHunk)

\* Every changed line is shown once, with the lines around it, each under its number in the
\* texts it is in, whatever it looks like.
LinesShown(shown, places) ==
  /\ Len(shown) = Len(places)
  /\ \A n \in DOMAIN places :
       LET i == places[n]  row == shown[n] IN
       /\ row.old = (IF script[i][1] = "+" THEN None ELSE OldBefore(i) + 1)
       /\ row.new = (IF script[i][1] = "-" THEN None ELSE NewBefore(i) + 1)
       /\ row.action = Action(script[i][1]) /\ row.line = EscapedLine(script[i][2])

Outside(row) == SubSeq(row.line, 1, row.mark[1]) \o SubSeq(row.line, row.mark[2] + 1, Len(row.line))
Inside(row) == SubSeq(row.line, row.mark[1] + 1, row.mark[2])
Special(text) == {c \in Range(text) : Len(Escaped(c)) > 1}
Boundaries(text) == {Len(EscapedLine(SubSeq(text, 1, k))) : k \in 0..Len(text)}

\* A mark stands in a removed line and the added one below it, around what differs and
\* no more; without the tag the line is what it was.  No tag falls into an escaped
\* character, unless the lines have different ones: these have characters in common.
MarksTrue(shown, places) ==
  \A n \in DOMAIN shown :
    LET row == shown[n]  next == shown[n + 1] IN
    row.mark # None /\ row.action = "del" =>
      /\ n < Len(shown) /\ next.action = "add" /\ next.mark # None
      /\ Outside(row) = Outside(next)
      /\ SubSeq(row.line, 1, row.mark[1]) \o Inside(row) \o SubSeq(row.line, row.mark[2] + 1, Len(row.line))
         = row.line
      /\ Inside(row) # <<>> /\ Inside(next) # <<>> =>
           Inside(row)[1] # Inside(next)[1] /\ Last(Inside(row)) # Last(Inside(next))
      /\ Cardinality(Special(script[places[n]][2]) \union Special(script[places[n + 1]][2])) <= 1 =>
           \A k \in {n, n + 1}, side \in {1, 2} : shown[k].mark[side] \in Boundaries(script[places[k]][2])

DiffIsTrue ==
  \A chunks \in {TemplateDiff}, places \in {Expected} :
    /\ Len(chunks) = Cardinality(Starts)
    /\ LinesShown(FlattenSeq(chunks), places) /\ MarksTrue(FlattenSeq(chunks), places)
=============================================================================
