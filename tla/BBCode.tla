------------------------------- MODULE BBCode -------------------------------
(***************************************************************************)
(* The texts of the old forum on their way into the wiki's markup: the     *)
(* parser of BBCode (wiki/bbcode.py), the paragraphs, and the writer that  *)
(* makes markup of the nodes (wiki/parser/machine.py and generate_markup   *)
(* in wiki/parser/nodes.py).                                               *)
(*                                                                         *)
(* A text is a sequence of tokens; the word of a token is its position.    *)
(***************************************************************************)
EXTENDS Documents

CONSTANTS TokenNames,   \* "text", "address", "nl", tags as "b", "/b" and, with a value, "mod="
          MaxTokens     \* bound: tokens of a text

VARIABLES tokens, markup   \* markup is <<>>, or <<what was made of the tokens>>

bbVars == <<open, size, doc, tokens, markup>>

-----------------------------------------------------------------------------
(* The parser                                                               *)

\* Tags whose content is one node; valued tags are text without a value.
Plain == [b |-> "strong", mark |-> "highlighted"]
WithValue == [x \in {"mod=", "font=", "url="} |->
                CASE x = "mod=" -> "moderated" [] x = "font=" -> "font" [] x = "url=" -> "link"]
End(tag) == CASE tag \in {"b"} -> "/b" [] tag = "mark" -> "/mark" [] tag = "mod=" -> "/mod"
              [] tag = "font=" -> "/font" [] tag \in {"url", "url="} -> "/url"
              [] tag \in {"quote", "quote="} -> "/quote" [] tag = "code" -> "/code"

IsText(p) == tokens[p] \in {"text", "address"}
AtEnd(p) == p > Len(tokens)
At(p, names) == ~AtEnd(p) /\ tokens[p] \in names
TextOf(p) == Text(<<Word(p)>>)
TextsBetween(p, q) == [i \in 1..(q - p) |-> Word(p + i - 1)]
NextOf(p, names) == CHOOSE q \in p..(Len(tokens) + 1) :
                      /\ AtEnd(q) \/ tokens[q] \in names
                      /\ \A r \in p..(q - 1) : tokens[r] \notin names

Result(node, pos) == [node |-> node, pos |-> pos]
Crash == Element("crash", <<>>)

\* parse_code: marks are ended by their own tag or by that of the code, which then does
\* not end the code; one without either runs into the end of the text.
RECURSIVE CodeFrom(_)
CodeFrom(p) ==
  LET q == NextOf(p, {"/code", "mark"})
      before == IF p = q THEN <<>> ELSE <<Text(TextsBetween(p, q))>>
      r == NextOf(q + 1, {"/mark", "/code"})
      marked == Element("highlighted", <<Text(TextsBetween(q + 1, r))>>)
      after == CodeFrom(r + 1)
  IN IF At(q, {"mark"})
     THEN IF AtEnd(r) THEN [kids |-> <<Crash>>, pos |-> r]
          ELSE [after EXCEPT !.kids = before \o <<marked>> \o @]
     ELSE [kids |-> before, pos |-> q + 1]

IsEmptyNode(x) == x.kind = "newline"

\* The texts between the item tags of a list, each as an item if there is something in it.
ItemOf(kids) == IF \A i \in DOMAIN kids : IsEmptyNode(kids[i]) THEN <<>>
                ELSE <<Element("item", kids)>>

RECURSIVE ParseNode(_), ParseUntil(_, _), ItemsFrom(_)
ParseUntil(p, names) ==
  IF AtEnd(p) \/ At(p, names) THEN [kids |-> <<>>, pos |-> p]
  ELSE LET first == ParseNode(p)
           rest == ParseUntil(first.pos, names)
       IN [kids |-> <<first.node>> \o rest.kids, pos |-> rest.pos]

ItemsFrom(p) ==
  LET item == ParseUntil(p, {"*", "/list"})
      rest == ItemsFrom(item.pos + 1)
  IN IF At(item.pos, {"*"}) THEN [rest EXCEPT !.kids = ItemOf(item.kids) \o @]
     ELSE [kids |-> ItemOf(item.kids), pos |-> item.pos + 1]

ParseNode(p) ==
  LET tag == tokens[p]
      inner == ParseUntil(p + 1, {End(tag)})
      items == ItemsFrom(p + 1)
      code == CodeFrom(p + 1)
      target == NextOf(p + 1, {"/url"})
  IN CASE tag = "nl" -> Result(Element("newline", <<>>), p + 1)
       [] tag \in DOMAIN Plain -> Result(Element(Plain[tag], inner.kids), inner.pos + 1)
       [] tag \in DOMAIN WithValue -> Result(Element(WithValue[tag], inner.kids), inner.pos + 1)
       [] tag = "quote" -> Result(Element("quote", inner.kids), inner.pos + 1)
       [] tag = "quote=" -> Result(Element("element", <<Element("quote", inner.kids)>>),
                                   inner.pos + 1)
       [] tag = "list" -> Result(Element("list", items.kids), items.pos)
       [] tag = "code" -> Result(Element("pre", code.kids), code.pos)
       [] tag = "url" -> Result(Element(IF \E q \in (p + 1)..(target - 1) : tokens[q] = "address"
                                        THEN "freelink" ELSE "link",
                                        <<Text(TextsBetween(p + 1, target))>>),
                                target + 1)
       [] OTHER -> Result(TextOf(p), p + 1)

ParsedTree == AutomaticParagraphs(Element("document", ParseUntil(1, {}).kids))

-----------------------------------------------------------------------------
(* The writer.  It writes <<"text", word, escapes>>, <<"free", word>>,      *)
(* <<"begin", kind>>, <<"end", kind>>, <<"item">>, <<"space">>, and         *)
(* <<"line", indentation>> or <<"break", indentation>> for the end of a     *)
(* line and how the next one begins.                                        *)

Writer == [out |-> <<>>, indents |-> <<>>, blocks |-> <<>>, lists |-> <<>>, escapes |-> <<>>,
           nl |-> FALSE, para |-> FALSE, brk |-> FALSE, failed |-> FALSE]

IsRaw(w) == w.indents # <<>> /\ w.indents[Len(w.indents)] = "raw"
IsOneline(w) == w.blocks # <<>> /\ ~IsRaw(w)

Indentation(w) == LET raws == {i \in DOMAIN w.indents : w.indents[i] = "raw"}
                      from == IF raws = {} THEN 1
                              ELSE 1 + CHOOSE i \in raws : \A j \in raws : j <= i
                  IN SubSeq(w.indents, from, Len(w.indents))

Flush(w) ==
  LET ind == Indentation(w)
      ends == CASE w.brk -> <<<<"break", ind>>>>
                [] ~w.brk /\ w.para -> <<<<"line", ind>>, <<"line", ind>>>>
                [] ~w.brk /\ ~w.para /\ w.nl -> <<<<"line", ind>>>>
                [] OTHER -> <<>>
  IN [w EXCEPT !.out = @ \o ends, !.nl = FALSE, !.para = FALSE, !.brk = FALSE]

Write(w, piece) == LET f == Flush(w) IN [f EXCEPT !.out = Append(@, piece)]
WriteText(w, atoms) ==
  FoldLeft(LAMBDA v, a : Write(v, <<"text", a[2], Range(w.escapes)>>), w, atoms)
Space(w) == Write(w, <<"space">>)

Newline(w) == IF IsOneline(w) THEN Space(w) ELSE [w EXCEPT !.nl = TRUE]
Paragraph(w) == IF IsOneline(w) THEN Space(w) ELSE [w EXCEPT !.para = TRUE]
BreakLine(w) == IF IsOneline(w) THEN Space(w)
                ELSE IF w.brk THEN [w EXCEPT !.brk = FALSE, !.para = TRUE]
                ELSE [w EXCEPT !.brk = TRUE]

Indent(w, t) == [w EXCEPT !.indents = Append(@, t)]
Outdent(w) == [w EXCEPT !.indents = Front(@)]
StartEscaping(w, kind) == [w EXCEPT !.escapes = Append(@, kind)]
StopEscaping(w) == [w EXCEPT !.escapes = Front(@)]
StartList(w) == Indent([w EXCEPT !.nl = TRUE, !.lists = Append(@, "list")], "indent")
EndList(w) == Outdent([w EXCEPT !.lists = Front(@)])
StartItem(w) == Write([w EXCEPT !.blocks = Append(@, "oneline")], <<"item">>)
EndItem(w) == [w EXCEPT !.blocks = Front(@), !.nl = TRUE]
EndItemInline(w) == [w EXCEPT !.blocks = Front(@)]
ItemEnded(w) == EndItem(w)

Marked == {"strong", "highlighted", "moderated", "link"}

\* Font has no value to write.
RECURSIVE Generate(_, _)
Generate(w, x) ==
  LET Kids(v) == FoldLeft(Generate, v, x.kids) IN
  CASE x.kind = "text" -> WriteText(w, x.text)
    [] x.kind = "newline" -> BreakLine(w)
    [] x.kind = "paragraph" -> Paragraph(Kids(w))
    [] x.kind = "quote" -> Outdent(Kids(Indent(Newline(w), "quote")))
    [] x.kind \in Marked ->
         Write(StopEscaping(Kids(StartEscaping(Write(w, <<"begin", x.kind>>), x.kind))),
               <<"end", x.kind>>)
    [] x.kind = "freelink" ->
         FoldLeft(LAMBDA v, a : Write(v, <<"free", a[2]>>), w, x.kids[1].text)
    [] x.kind = "pre" ->
         Write(Outdent(StopEscaping(Kids(StartEscaping(Indent(Write(w, <<"begin", "pre">>),
                                                              "raw"), "pre")))),
               <<"end", "pre">>)
    [] x.kind = "list" -> EndList(Kids(StartList(w)))
    [] x.kind = "item" -> ItemEnded(Kids(StartItem(w)))
    [] x.kind \in {"font", "crash"} -> [w EXCEPT !.failed = TRUE]
    [] OTHER -> Kids(w)

ToMarkup(tree) == Generate(Writer, tree)

-----------------------------------------------------------------------------

BBInit == Init /\ tokens = <<>> /\ markup = <<>>

Type == /\ markup = <<>> /\ Len(tokens) < MaxTokens
        /\ \E name \in TokenNames : tokens' = Append(tokens, name)
        /\ UNCHANGED <<open, size, doc, markup>>

\* convert_bbcode
Convert == /\ markup = <<>>
           /\ markup' = <<ToMarkup(ParsedTree)>>
           /\ UNCHANGED <<open, size, doc, tokens>>

BBNext == Type \/ Convert
BBSpec == BBInit /\ [][BBNext]_bbVars

-----------------------------------------------------------------------------

Done == markup # <<>> /\ ~markup[1].failed
Out == markup[1].out

\* Every word of a text is written, once and in its order.
WordsWritten ==
  Done => LET words == SelectSeq(Out, LAMBDA t : t[1] \in {"text", "free"}) IN
          /\ \A i \in 2..Len(words) : words[i - 1][2] < words[i][2]
          /\ {p \in DOMAIN tokens : IsText(p)} \subseteq {words[i][2] : i \in DOMAIN words}

\* Marks are paired, every text is escaped for all that it stands in, and the writer
\* leaves nothing open.
Pair(stack, piece) ==
  CASE piece[1] = "begin" -> Append(stack, piece[2])
    [] piece[1] = "end" -> IF stack # <<>> /\ stack[Len(stack)] = piece[2] THEN Front(stack)
                           ELSE Append(stack, "wrong")
    [] OTHER -> stack
OpenAt(i) == FoldLeft(Pair, <<>>, SubSeq(Out, 1, i))
MarksPaired ==
  Done => /\ OpenAt(Len(Out)) = <<>>
          /\ \A i \in DOMAIN Out : Out[i][1] = "text" => Out[i][3] = Range(OpenAt(i))
          /\ \A part \in {markup[1].indents, markup[1].blocks, markup[1].lists,
                          markup[1].escapes} : part = <<>>

\* An item begins a line, and a line of a list begins an item, unless the list or
\* another block stands in front of something else in an item.
ItemsOnLines ==
  Done => \A i \in DOMAIN Out :
    /\ Out[i][1] = "item" => i > 1 /\ Out[i - 1][1] \in {"line", "break"}
    /\ Out[i][1] \in {"line", "break"} /\ "indent" \in Range(Out[i][2]) /\ i < Len(Out) =>
         \/ Out[i + 1][1] \in {"item", "line"}
         \/ \E x \in Range(ByKind(ParsedTree, "item")) : \E k \in DOMAIN x.kids :
              /\ \E y \in Range(All(x.kids[k])) : y.kind \in {"list", "pre"}
              /\ k < Len(x.kids) \/ x.kids[k].kind \notin {"list", "pre"}

\* Two words with an even number of newlines between them are in two paragraphs.
BlankLinesKept ==
  Done => \A p, q \in DOMAIN tokens :
    /\ p < q /\ IsText(p) /\ IsText(q) /\ q - p > 1 /\ (q - p) % 2 = 1
    /\ \A r \in DOMAIN tokens : ~IsText(r) => tokens[r] = "nl"
    /\ \A r \in (p + 1)..(q - 1) : tokens[r] = "nl"
    => \E i \in DOMAIN Out : i > 1 /\ i + 2 <= Len(Out)
         /\ Out[i][1] = "line" /\ Out[i + 1][1] = "line"
         /\ Out[i - 1][1] = "text" /\ Out[i - 1][2] = p
         /\ Out[i + 2][1] = "text" /\ Out[i + 2][2] = q

\* The conversion fails for fonts and for a mark in code that nothing ends only.
FailsOnFontOrMark ==
  markup # <<>> /\ markup[1].failed =>
    \/ \E p \in DOMAIN tokens : tokens[p] = "font="
    \/ \E p, q \in DOMAIN tokens :
         p < q /\ tokens[p] = "code" /\ tokens[q] = "mark"
         /\ \A r \in (q + 1)..Len(tokens) : tokens[r] \notin {"/mark", "/code"}

ConvertedWhole == /\ WordsWritten /\ MarksPaired /\ ItemsOnLines /\ BlankLinesKept
                  /\ FailsOnFontOrMark
=============================================================================
