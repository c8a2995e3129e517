----------------------------- MODULE Documents -----------------------------
(***************************************************************************)
(* From the nodes the wiki parser has made of a text to the document: the  *)
(* transformers that run over the whole tree one after another             *)
(* (wiki/parser/transformers.py), and the table of contents, which is put  *)
(* in when they are done (wiki/macros.py).                                 *)
(*                                                                         *)
(* A tree is built node by node, every tree the grammar allows; closing    *)
(* the last node starts the transformers.                                  *)
(***************************************************************************)
EXTENDS Naturals, Sequences, FiniteSets, SequencesExt

CONSTANTS Inner,    \* the kinds of nodes with children that texts have here
          Shapes,   \* what their texts are: sequences of "word", "break" and "smile"
          Levels, Titles,   \* the levels and the titles of their headlines
          Depths,   \* the depths of their tables of contents
          Keys,     \* whether there are spans of the class key
          MaxNodes  \* bound: nodes of a text

VARIABLES open,     \* the nodes under construction, outermost first
          size,     \* nodes so far
          doc       \* what the transformers made of the text

docVars == <<open, size, doc>>

-----------------------------------------------------------------------------
(* Nodes                                                                    *)

\* "text" is a sequence of atoms; "n" is the level of a headline or a section,
\* the id of a footnote and the depth of a table of contents; "id" is the title a
\* headline's id is made of, and then the suffixes it got.
Node(kind, kids, text, n, id) == [kind |-> kind, kids |-> kids, text |-> text, n |-> n, id |-> id]
Element(kind, kids) == Node(kind, kids, <<>>, 0, <<>>)
Text(atoms) == Node("text", <<>>, atoms, 0, <<>>)

Break == <<"break", 0>>      \* a blank line
Smile == <<"smile", 0>>
Word(n) == <<"word", n>>

\* cell is a table of one cell, bullets a list of one item and definition a list of
\* one; keybox is a box of the class key; key is the span of that class that templates
\* for keys make.
Blocks == {"quote", "moderated", "edited", "box", "keybox", "layer", "error", "definition",
           "bullets", "cell", "pre", "headline", "paragraph", "list", "item", "toc",
           "ruler", "conflict", "listing"}
WithParagraphs == {"document", "quote", "moderated", "edited", "box", "keybox", "layer",
                   "error", "definition", "bullets", "item"}
Containers == Inner \union {"document", "paragraph", "list", "item", "section"}
Raw == {"pre", "code"}
KeyClass == {"key", "keybox"}

Transformed(x) == x.kind \in Containers \ Raw

\* An element without a say of its own is a block if it holds one.
RECURSIVE IsBlock(_)
IsBlock(x) == x.kind \in Blocks \/ \E k \in Range(x.kids) : IsBlock(k)

\* Query.all: the node and everything below it, in the order of the text.
RECURSIVE All(_)
All(x) == <<x>> \o FlattenSeq([i \in DOMAIN x.kids |-> All(x.kids[i])])
ByKind(x, kind) == SelectSeq(All(x), LAMBDA y : y.kind = kind)

-----------------------------------------------------------------------------
(* AutomaticParagraphs: joins texts, cuts them at blank lines, and wraps    *)
(* what stands between two blocks.                                          *)

Wrapped(inline) == IF inline = <<>> THEN <<>> ELSE <<Element("paragraph", inline)>>

PutAtom(acc, a) ==
  LET n == Len(acc.inline) IN
  IF a = Break THEN [done |-> acc.done \o Wrapped(acc.inline), inline |-> <<>>]
  ELSE IF n > 0 /\ acc.inline[n].kind = "text"
       THEN [acc EXCEPT !.inline[n].text = Append(@, a)]
       ELSE [acc EXCEPT !.inline = Append(@, Text(<<a>>))]

EndsParagraphStatic(x) == x.kind \in Blocks
EndsParagraph(x) == IsBlock(x)

PutNode(acc, x) ==
  CASE x.kind = "text" -> FoldLeft(PutAtom, acc, x.text)
    [] x.kind # "text" /\ EndsParagraph(x) ->
         [done |-> acc.done \o Wrapped(acc.inline) \o <<x>>, inline |-> <<>>]
    [] OTHER -> [acc EXCEPT !.inline = Append(@, x)]

RECURSIVE AutomaticParagraphs(_)
AutomaticParagraphs(x) ==
  LET kids == [i \in DOMAIN x.kids |-> IF Transformed(x.kids[i]) THEN AutomaticParagraphs(x.kids[i])
                                       ELSE x.kids[i]]
      put == FoldLeft(PutNode, [done |-> <<>>, inline |-> <<>>], kids)
  IN IF x.kind \in WithParagraphs
     THEN [x EXCEPT !.kids = put.done \o Wrapped(put.inline)]
     ELSE [x EXCEPT !.kids = kids]

-----------------------------------------------------------------------------
(* SmileyInjector: a code in a text becomes an image with that code as its  *)
(* alternative text; texts that are empty then are dropped.                 *)

Image == Node("image", <<>>, <<Smile>>, 0, <<>>)

CutSmile(acc, a) ==
  LET n == Len(acc) IN
  CASE a = Smile -> Append(acc, Image)
    [] a # Smile /\ n > 0 /\ acc[n].kind = "text" -> [acc EXCEPT ![n].text = Append(@, a)]
    [] OTHER -> Append(acc, Text(<<a>>))

RECURSIVE SmileyInjector(_)
SmileyInjector(x) ==
  [x EXCEPT !.kids = FlattenSeq([i \in DOMAIN x.kids |->
     CASE x.kids[i].kind = "text" -> FoldLeft(CutSmile, <<>>, x.kids[i].text)
       [] x.kids[i].kind # "text" /\ Transformed(x.kids[i]) -> <<SmileyInjector(x.kids[i])>>
       [] OTHER -> <<x.kids[i]>>])]

-----------------------------------------------------------------------------
(* FootnoteSupport and HeadlineProcessor: nodes are told apart by their     *)
(* place in the order of the text.                                          *)

\* "from" footnotes come before x.
RECURSIVE Numbered(_, _)
Numbered(x, from) ==
  LET own == IF x.kind = "footnote" THEN 1 ELSE 0
      Before(i) == from + own + Len(FlattenSeq([j \in 1..(i - 1) |-> ByKind(x.kids[j], "footnote")]))
  IN [x EXCEPT !.n = IF own = 1 THEN from + 1 ELSE @,
               !.kids = [i \in DOMAIN x.kids |-> Numbered(x.kids[i], Before(i))]]

\* Footnotes keep their children, which are also those of the items of the list.
FootnoteSupport(tree) ==
  LET numbered == Numbered(tree, 0)
      notes == ByKind(numbered, "footnote")
      Item(i) == Node("item", <<Element("backlink", <<>>)>> \o notes[i].kids, <<>>, notes[i].n, <<>>)
  IN IF notes = <<>> THEN tree
     ELSE [numbered EXCEPT !.kids = Append(@, Element("list", [i \in DOMAIN notes |-> Item(i)]))]

\* An id that is taken gets the number of times it was asked for as a suffix, until
\* it is free.
RECURSIVE FreeId(_, _)
FreeId(id, taken) ==
  IF id \notin DOMAIN taken
  THEN [id |-> id, taken |-> [i \in DOMAIN taken \union {id} |-> IF i = id THEN 1 ELSE taken[i]]]
  ELSE FreeId(Append(id, taken[id] + 1), [taken EXCEPT ![id] = @ + 1])

TheId(id, taken) == FreeId(id, taken)

\* The headlines in footnotes are visited in the text and again in the list: they are
\* the same objects there, so the id they are given last counts in both places.
Visited(acc, h) ==
  LET had == IF h.nr \in DOMAIN acc.ids THEN acc.ids[h.nr]
             ELSE IF h.id = <<>> THEN <<"empty">> ELSE h.id
      free == TheId(had, acc.taken) IN
  [ids |-> [k \in DOMAIN acc.ids \union {h.nr} |-> IF k = h.nr THEN free.id ELSE acc.ids[k]],
   taken |-> free.taken]

RECURSIVE WithIds(_, _)
WithIds(x, ids) ==
  [x EXCEPT !.id = IF x.kind = "headline" THEN ids[x.text[1][2]] ELSE @,
            !.kids = [i \in DOMAIN x.kids |-> WithIds(x.kids[i], ids)]]

HeadlineProcessor(tree) ==
  LET heads == ByKind(tree, "headline")
      visits == FoldLeft(Visited, [ids |-> <<>>, taken |-> <<>>],
                         [i \in DOMAIN heads |-> [nr |-> heads[i].text[1][2], id |-> heads[i].id]])
  IN WithIds(tree, visits.ids)

-----------------------------------------------------------------------------
(* AutomaticStructure: sections for the headlines of the outermost node.    *)

\* "path" holds the open sections, the document first, each with what it has so far.
RECURSIVE ClosedTo(_, _)
ClosedTo(path, n) ==
  IF Len(path) <= n THEN path
  ELSE LET last == path[Len(path)]  up == Front(path) IN
       ClosedTo([up EXCEPT ![Len(up)].kids = Append(@, last)], n)

RECURSIVE OpenedTo(_, _)
OpenedTo(path, n) ==
  IF Len(path) >= n THEN path
  ELSE OpenedTo(Append(path, Node("section", <<>>, <<>>, Len(path), <<>>)), n)

Structured(path, x) ==
  LET at == IF x.kind = "headline" THEN OpenedTo(ClosedTo(path, x.n), x.n + 1) ELSE path
  IN [at EXCEPT ![Len(at)].kids = Append(@, x)]

AutomaticStructure(tree) ==
  ClosedTo(FoldLeft(Structured, <<[tree EXCEPT !.kids = <<>>]>>, tree.kids), 1)[1]

-----------------------------------------------------------------------------
(* KeyHandler: a node with a key among its children gives them to the node  *)
(* it stands in, whatever it is.                                            *)

FirstKey(x) == LET keys == {i \in DOMAIN x.kids : x.kids[i].kind \in KeyClass}
               IN IF keys = {} THEN 0 ELSE CHOOSE i \in keys : \A j \in keys : i <= j

RECURSIVE KeyHandler(_)
KeyHandler(x) ==
  LET first == FirstKey(x)
      Done(i) == IF Transformed(x.kids[i]) THEN KeyHandler(x.kids[i])
                 ELSE [node |-> x.kids[i], key |-> FALSE]
  IN IF first > 0
     THEN [node |-> [x EXCEPT !.kids = [i \in DOMAIN x.kids |->
                                          IF i < first THEN Done(i).node ELSE x.kids[i]]],
           key |-> TRUE]
     ELSE [node |-> [x EXCEPT !.kids = FlattenSeq([i \in DOMAIN x.kids |->
                                          LET d == Done(i) IN
                                          IF d.key THEN d.node.kids ELSE <<d.node>>])],
           key |-> FALSE]

-----------------------------------------------------------------------------
(* Parser.parse: the transformers in their order, then the macros that wait *)
(* for the whole tree.                                                      *)

\* TableOfContents.build_node.  "lists" are the lists it makes, as sequences of items
\* [id, sub]; "stack" are those it is in.  A list below one without items goes to the
\* end of the outermost one.
RECURSIVE Deeper(_, _)
Deeper(toc, n) ==
  LET top == toc.stack[Len(toc.stack)]
      new == Len(toc.lists) + 1
      items == toc.lists[top]
      lists == IF items # <<>>
               THEN [toc.lists EXCEPT ![top][Len(items)].sub = Append(@, new)]
               ELSE [toc.lists EXCEPT ![1] = Append(@, [id |-> <<>>, sub |-> <<new>>])]
  IN IF Len(toc.stack) >= n THEN toc
     ELSE Deeper([lists |-> Append(lists, <<>>), stack |-> Append(toc.stack, new)], n)

PutHeadline(toc, h) ==
  LET at == IF h.n > Len(toc.stack) THEN Deeper(toc, h.n)
            ELSE [toc EXCEPT !.stack = SubSeq(@, 1, h.n)]
  IN [at EXCEPT !.lists[at.stack[h.n]] = Append(@, [id |-> h.id, sub |-> <<>>])]

WithinDepth(heads, depth) == SelectSeq(heads, LAMBDA h : h.n <= depth)

RECURSIVE Shown(_, _)
Shown(lists, l) ==
  FlattenSeq([i \in DOMAIN lists[l] |->
     (IF lists[l][i].id = <<>> THEN <<>> ELSE <<lists[l][i].id>>)
     \o FlattenSeq([j \in DOMAIN lists[l][i].sub |-> Shown(lists, lists[l][i].sub[j])])])

\* The ids its links name, from top to bottom.
TableOfContents(tree, depth) ==
  LET toc == FoldLeft(PutHeadline, [lists |-> << <<>> >>, stack |-> <<1>>],
                      WithinDepth(ByKind(tree, "headline"), depth))
  IN Shown(toc.lists, 1)

\* A key that stands in the document itself makes a pair of it, and the parser fails.
Parsed(tree) ==
  LET done == KeyHandler(AutomaticStructure(HeadlineProcessor(FootnoteSupport(
                SmileyInjector(AutomaticParagraphs(tree))))))
  IN [tree |-> done.node, failed |-> done.key]

-----------------------------------------------------------------------------
(* The texts                                                                *)

Top == open[Len(open)]
Within(kind) == \E i \in DOMAIN open : open[i].kind = kind

\* What the grammar allows in the innermost open node: inline nodes hold inline nodes,
\* and footnotes and quotes.
Anything == Top.kind \in {"document", "footnote", "cell"} \union WithParagraphs
Inline == Top.kind \notin Raw

Add(x) == /\ doc = <<>> /\ size < MaxNodes
          /\ open' = [open EXCEPT ![Len(open)].kids = Append(@, x)]
          /\ size' = size + 1
          /\ UNCHANGED doc

AddText == \E shape \in Shapes :
             Add(Text([i \in DOMAIN shape |-> CASE shape[i] = "break" -> Break
                                                [] shape[i] = "smile" -> Smile
                                                [] OTHER -> Word(size + 1)]))

AddHeadline == /\ Anything
               /\ \E level \in Levels, title \in Titles :
                    Add(Node("headline", <<>>, <<Word(size + 1)>>, level, title))

\* Nodes in footnotes are handled twice; keys in them are left out.
AddKey == Keys /\ Inline /\ ~Within("footnote") /\ Add(Node("key", <<>>, <<Word(size + 1)>>, 0, <<>>))

AddContents == Inline /\ \E depth \in Depths : Add(Node("toc", <<>>, <<>>, depth, <<>>))

OpenNode(kind) ==
  /\ doc = <<>> /\ size < MaxNodes
  /\ Anything \/ (Inline /\ (kind \notin Blocks \/ kind = "quote"))
  /\ kind = "keybox" => ~Within("footnote")
  /\ open' = Append(open, Element(kind, <<>>))
  /\ size' = size + 1
  /\ UNCHANGED doc

CloseNode == /\ doc = <<>> /\ Len(open) > 1
             /\ open' = [Front(open) EXCEPT ![Len(open) - 1].kids = Append(@, Top)]
             /\ UNCHANGED <<size, doc>>

\* The end of the text.
Parse == /\ doc = <<>> /\ Len(open) = 1
         /\ doc' = <<Parsed(open[1])>>
         /\ UNCHANGED <<open, size>>

Init == open = <<Element("document", <<>>)>> /\ size = 0 /\ doc = <<>>

Next == \/ AddText \/ AddHeadline \/ AddKey \/ AddContents
        \/ \E kind \in Inner : OpenNode(kind)
        \/ CloseNode \/ Parse

Spec == Init /\ [][Next]_docVars

-----------------------------------------------------------------------------

Source == open[1]
Finished == doc # <<>>
Document == doc[1].tree
Failed == doc[1].failed

\* What a reader reads: a footnote shows its number where it stands.
Words(atoms) == SelectSeq(atoms, LAMBDA a : a # Break)
RECURSIVE Read(_)
Read(x) == Words(x.text) \o
  FlattenSeq([i \in DOMAIN x.kids |-> IF x.kids[i].kind = "footnote" THEN <<>> ELSE Read(x.kids[i])])

\* Nothing of a text is lost, doubled or moved, but for the footnotes, which stand at
\* the end in the order they are numbered in.
TextsInOrder ==
  Finished => LET notes == ByKind(Source, "footnote") IN
    Read(Document) = Read(Source) \o FlattenSeq([i \in DOMAIN notes |-> Read(notes[i])])

\* Headlines can be told apart by their ids, and so can footnotes.
IdsUnique ==
  Finished =>
    LET heads == ByKind(Document, "headline") IN
    /\ \A i, j \in DOMAIN heads : heads[i].id = heads[j].id => heads[i].text = heads[j].text
    /\ \A i \in DOMAIN heads : heads[i].id # <<>>

\* Paragraphs hold no blocks and none is empty.
ParagraphsHoldInline ==
  Finished => \A p \in Range(ByKind(Document, "paragraph")) :
                p.kids # <<>> /\ \A k \in Range(p.kids) : ~IsBlock(k)

\* Every headline outside of other nodes begins the section of its level, within those
\* of the levels above.
RECURSIVE SectionsFrom(_, _)
SectionsFrom(x, n) ==
  \A i \in DOMAIN x.kids :
    CASE x.kids[i].kind = "section" -> x.kids[i].n = n + 1 /\ SectionsFrom(x.kids[i], n + 1)
      [] x.kids[i].kind = "headline" -> i = 1 /\ x.kids[i].n = n /\ n > 0
      [] OTHER -> TRUE
SectionsNested == Finished => SectionsFrom(Document, 0)

\* A table of contents links to the headlines of its depth in the order of the text,
\* unless a headline skips a level.
Skips(heads) == \E i \in DOMAIN heads :
                  heads[i].n > 1 + (IF i = 1 THEN 1 ELSE heads[i - 1].n)
ContentsInOrder ==
  Finished => \A toc \in Range(ByKind(Document, "toc")) :
    LET heads == WithinDepth(ByKind(Document, "headline"), toc.n) IN
    ~Skips(heads) => TableOfContents(Document, toc.n) = [i \in DOMAIN heads |-> heads[i].id]

\* The parser only fails on a box of the class key in front of all headlines.
FailsOnKeyBox ==
  Finished /\ Failed => \E x \in Range(Source.kids) : x.kind = "keybox"

DocumentsWhole == /\ TextsInOrder /\ IdsUnique /\ ParagraphsHoldInline
                  /\ SectionsNested /\ ContentsInOrder /\ FailsOnKeyBox
=============================================================================
