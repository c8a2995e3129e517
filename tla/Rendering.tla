----------------------------- MODULE Rendering -----------------------------
(***************************************************************************)
(* A document written as HTML and as docbook: what each kind of node       *)
(* yields (wiki/parser/nodes.py), and how that is stored and rendered      *)
(* later, when some of it has to be computed for each request              *)
(* (wiki/parser/machine.py).                                               *)
(*                                                                         *)
(* The output is a sequence of items: <<"open", language, tag>>,           *)
(* <<"close", language, tag>>, <<"text", atom>> and <<"macro", atom>> for  *)
(* a macro that shows that word.  Attributes are left out.                 *)
(***************************************************************************)
EXTENDS Documents

CONSTANT Leaves     \* the kinds of nodes without children that texts have here

OpenTags(lang, tags) == [i \in DOMAIN tags |-> <<"open", lang, tags[i]>>]
CloseTags(lang, tags) == Reverse([i \in DOMAIN tags |-> <<"close", lang, tags[i]>>])
Tagged(lang, tags, items) == OpenTags(lang, tags) \o items \o CloseTags(lang, tags)
Atoms(atoms) == [i \in DOMAIN atoms |-> <<"text", atoms[i]>>]

\* The tags around a node's children.  "mixed" nodes write their children as HTML into
\* docbook, too.
Tags(html, docbook) == [html |-> html, docbook |-> docbook, mixed |-> FALSE]
Mixed(html, docbook) == [html |-> html, docbook |-> docbook, mixed |-> TRUE]

-----------------------------------------------------------------------------
(* The nodes                                                                *)

LinkNodes == [span |-> Tags(<<"span">>, <<>>),
              internal_link |-> Tags(<<"a">>, <<"ulink">>),
              interwiki_link |-> Tags(<<"a">>, <<>>),
              unknown_wiki_link |-> Tags(<<>>, <<>>)]
ExternalLink == Tags(<<"a">>, <<"ulink">>)

StructureNodes == [section |-> Tags(<<"div">>, <<"sect">>),
                   paragraph |-> Tags(<<"p">>, <<"para">>),
                   error |-> Tags(<<"div">>, <<>>),
                   footnote |-> Tags(<<>>, <<>>)]

QuoteNodes == [quote |-> Mixed(<<"blockquote">>, <<"blockquote">>),
               moderated |-> Tags(<<"div">>, <<>>),
               edited |-> Tags(<<"div">>, <<>>),
               pre |-> Mixed(<<"pre">>, <<"screen">>),
               headline |-> Tags(<<"h">>, <<"title">>)]

EmphasisNodes == [strong |-> Tags(<<"strong">>, <<"emphasis">>),
                  highlighted |-> Tags(<<"strong">>, <<"emphasis">>),
                  emphasized |-> Mixed(<<"em">>, <<"emphasis">>),
                  code |-> Mixed(<<"code">>, <<"literal">>)]

SpanNodes == [underline |-> Tags(<<"span">>, <<"emphasis">>),
              stroke |-> Tags(<<"del">>, <<>>),
              small |-> Tags(<<"small">>, <<>>),
              big |-> Tags(<<"big">>, <<>>),
              sub |-> Tags(<<"sub">>, <<"subscript">>),
              sup |-> Mixed(<<"sup">>, <<"superscript">>)]

FontNodes == [color |-> Tags(<<"span">>, <<>>),
              size |-> Tags(<<"span">>, <<>>),
              font |-> Tags(<<"span">>, <<>>)]

ListNodes == [definition |-> Tags(<<"dl", "dd">>, <<>>),
              list |-> Tags(<<"ul">>, <<"itemizedlist">>),
              item |-> Tags(<<"li">>, <<"listitem">>),
              bullets |-> Tags(<<"ul", "li">>, <<"itemizedlist", "listitem">>)]

BoxNodes == [box |-> Tags(<<"div", "div">>, <<>>),
             layer |-> Tags(<<"div">>, <<>>),
             cell |-> Tags(<<"table", "tr", "td">>,
                           <<"informaltable", "tgroup", "tbody", "row", "entry">>)]

TagsOf(kind) ==
  CASE kind \in DOMAIN StructureNodes -> StructureNodes[kind]
    [] kind \in DOMAIN QuoteNodes -> QuoteNodes[kind]
    [] kind \in DOMAIN ListNodes -> ListNodes[kind]
    [] kind \in DOMAIN EmphasisNodes -> EmphasisNodes[kind]
    [] kind \in DOMAIN SpanNodes -> SpanNodes[kind]
    [] kind \in DOMAIN FontNodes -> FontNodes[kind]
    [] kind \in DOMAIN BoxNodes -> BoxNodes[kind]
    [] kind \in DOMAIN LinkNodes -> LinkNodes[kind]
    [] kind = "link" -> ExternalLink
    [] kind = "document" -> Tags(<<>>, <<>>)

IsLeaf(x) == x.kind \in Leaves \union {"text", "image", "toc", "key", "backlink"}

\* What HTML shows within the first n of the tags before the children: the title of a
\* box, the term of a definition and the name of a moderator.
Lead(x) ==
  CASE x.kind = "box" -> [n |-> 1, items |-> Tagged("html", <<"h">>, Atoms(x.text))]
    [] x.kind = "definition" -> [n |-> 1, items |-> Tagged("html", <<"dt">>, Atoms(x.text))]
    [] x.kind \in {"moderated", "edited"} ->
         [n |-> 1, items |-> Tagged("html", <<"p", "strong", "a">>, Atoms(x.text))]
    [] OTHER -> [n |-> 0, items |-> <<>>]

\* After the children of a headline HTML has a link to it.
Trail(x) == IF x.kind = "headline" THEN Tagged("html", <<"a">>, <<>>) ELSE <<>>

FootnoteMark == Tagged("html", <<"a">>, Tagged("html", <<"span">>, <<>>)
                                        \o Tagged("html", <<"span">>, <<>>))

HtmlLeaf(x) ==
  CASE x.kind \in {"text", "image"} -> Atoms(Words(x.text))
    [] x.kind = "source" -> Tagged("html", <<"sup", "a">>, Atoms(x.text))
    [] x.kind \in {"macro", "listing"} -> <<<<"macro", x.text[1]>>>>
    [] x.kind = "conflict" -> Tagged("html", <<"div">>, Tagged("html", <<"strong">>, <<>>))
    [] OTHER -> <<>>        \* line breaks, rulers and the link back from a footnote

DocbookLeaf(x) ==
  CASE x.kind = "text" -> Atoms(Words(x.text))
    [] x.kind = "image" -> Tagged("docbook", <<"mediaobject", "imageobject">>, <<>>)
    [] x.kind = "source" -> Atoms(x.text)
    [] x.kind \in {"macro", "listing"} -> <<<<"macro", x.text[1]>>>>
    [] OTHER -> <<>>

\* A headline's words are those of its text.
Inside(x) == IF x.kind = "headline" THEN Append(x.kids, Text(x.text)) ELSE x.kids

RECURSIVE Html(_)
Html(x) ==
  IF x.kind = "footnote" THEN FootnoteMark
  ELSE IF IsLeaf(x) THEN HtmlLeaf(x)
  ELSE LET tags == TagsOf(x.kind).html
           kids == Inside(x)
           lead == Lead(x)
       IN OpenTags("html", SubSeq(tags, 1, lead.n)) \o lead.items
          \o OpenTags("html", SubSeq(tags, lead.n + 1, Len(tags)))
          \o FlattenSeq([i \in DOMAIN kids |-> Html(kids[i])]) \o Trail(x)
          \o CloseTags("html", tags)

RECURSIVE Docbook(_)
Docbook(x) ==
  IF IsLeaf(x) THEN DocbookLeaf(x)
  ELSE LET tags == TagsOf(x.kind)
           kids == Inside(x)
       IN Tagged("docbook", tags.docbook,
            FlattenSeq([i \in DOMAIN kids |->
              IF tags.mixed THEN Html(kids[i]) ELSE Docbook(kids[i])]))

-----------------------------------------------------------------------------
(* NodeCompiler.compile and Renderer                                        *)

IsString(item) == item[1] # "macro"

\* Strings that follow each other are joined; "buffer" is what is not yet in "result".
Put(acc, item) ==
  IF IsString(item) THEN [acc EXCEPT !.buffer = Append(@, item)]
  ELSE [result |-> (IF acc.buffer = <<>> THEN acc.result ELSE Append(acc.result, acc.buffer))
                   \o <<item>>,
        buffer |-> <<>>, dynamic |-> TRUE]

Collect(acc, item) == Put(acc, item)

Compiled(items) ==
  LET acc == FoldLeft(Collect, [result |-> <<>>, buffer |-> <<>>, dynamic |-> FALSE], items)
      result == IF acc.buffer = <<>> THEN acc.result ELSE Append(acc.result, acc.buffer)
  IN IF acc.dynamic THEN <<"@", result>> ELSE <<"!", FlattenSeq(result)>>

\* The instructions of a compiled document: of one without macros there is one.
Instructions(compiled) == IF compiled[1] = "!" THEN <<compiled[2]>> ELSE compiled[2]

\* A macro shows its word, unless the rendering is simplified.
Shows(item, simplified) ==
  IF IsString(item) THEN <<item>> ELSE IF simplified THEN <<>> ELSE <<<<"text", item[2]>>>>

Streamed(items, simplified) ==
  FlattenSeq([i \in DOMAIN items |-> Shows(items[i], simplified)])

IsMacro(instruction) == Len(instruction) = 2 /\ instruction[1] = "macro"
Rendered(compiled, simplified) ==
  FlattenSeq([i \in DOMAIN Instructions(compiled) |->
     LET ins == Instructions(compiled)[i] IN
     IF IsMacro(ins) THEN Shows(ins, simplified) ELSE Streamed(ins, simplified)])

-----------------------------------------------------------------------------
(* The texts: those of Documents, with leaves and titles                    *)

AddLeaf == \E kind \in Leaves :
             /\ Top.kind \notin Raw
             /\ kind \in {"ruler", "conflict", "listing"} => Anything
             /\ Add(Node(kind, <<>>, <<Word(size + 1)>>, 0, <<>>))

Titled == {"box", "definition", "moderated", "edited"}
OpenTitled(kind) ==
  /\ doc = <<>> /\ size < MaxNodes /\ Anything
  /\ open' = Append(open, Node(kind, <<>>, <<Word(size + 1)>>, 0, <<>>))
  /\ size' = size + 1
  /\ UNCHANGED doc

RenderingNext ==
  \/ AddText \/ AddHeadline \/ AddKey \/ AddContents \/ AddLeaf
  \/ \E kind \in Inner : IF kind \in Titled THEN OpenTitled(kind) ELSE OpenNode(kind)
  \/ CloseNode \/ Parse

RenderingSpec == Init /\ [][RenderingNext]_docVars

-----------------------------------------------------------------------------

\* Each item closes what is open.
Nest(stack, item) ==
  CASE item[1] = "open" -> Append(stack, Tail(item))
    [] item[1] = "close" -> IF stack # <<>> /\ stack[Len(stack)] = Tail(item)
                            THEN Front(stack) ELSE Append(stack, <<"wrong">>)
    [] OTHER -> stack
Balanced(items) == FoldLeft(Nest, <<>>, items) = <<>>

TextsOf(items) == LET texts == SelectSeq(items, LAMBDA t : t[1] \in {"text", "macro"})
                  IN [i \in DOMAIN texts |-> texts[i][2]]

\* Both formats are well-formed.
WellFormed == Finished => Balanced(Html(Document)) /\ Balanced(Docbook(Document))

\* Only leaves that are shown as words have one here.
Silent == {"ruler", "conflict", "newline", "backlink"}
RECURSIVE Visible(_)
Visible(x) == [x EXCEPT !.text = IF x.kind \in Silent THEN <<>> ELSE @,
                        !.kids = [i \in DOMAIN x.kids |-> Visible(x.kids[i])]]

\* HTML shows the whole text in its order.
HtmlShowsAll == Finished => TextsOf(Html(Document)) = Read(Visible(Document))

\* Docbook leaves out titles and smileys only, and repeats footnotes only.
Occurs(a, s) == Cardinality({i \in DOMAIN s : s[i] = a})
TitlesOf == UNION {Range(x.text) : x \in {y \in Range(All(Source)) : y.kind \in Titled}}
DocbookShowsAll ==
  Finished =>
    LET shown == TextsOf(Docbook(Document)) IN
    \A a \in Range(Read(Visible(Document))) \ {Smile} :
      /\ Occurs(a, shown) = 0 => a \in TitlesOf
      /\ Occurs(a, shown) > 1 =>
           \E note \in Range(ByKind(Source, "footnote")) :
             a \in UNION {Range(Read(k)) : k \in Range(note.kids)}

\* Docbook has HTML in quotes, preformatted, emphasized and raised text, and code only.
Languages(acc, item) ==
  CASE item[1] = "open" -> [open |-> Append(acc.open, Tail(item)),
                            mixed |-> acc.mixed \union
                              IF item[2] = "html" THEN {acc.open} ELSE {}]
    [] item[1] = "close" -> [acc EXCEPT !.open = Front(@)]
    [] OTHER -> acc
HtmlOnlyInMixed ==
  Finished =>
    \A path \in FoldLeft(Languages, [open |-> <<>>, mixed |-> {}], Docbook(Document)).mixed :
      \E i \in DOMAIN path :
        path[i] \in {<<"docbook", tag>> : tag \in {"blockquote", "screen", "emphasis",
                                                   "literal", "superscript"}}

\* What was stored shows what the tree would show.
CompiledShowsTheSame ==
  Finished => \A items \in {Html(Document), Docbook(Document)}, simplified \in BOOLEAN :
                Rendered(Compiled(items), simplified) = Streamed(items, simplified)

\* A document is written completely, in both formats, now and later.
WrittenWhole == /\ WellFormed /\ HtmlShowsAll /\ DocbookShowsAll /\ HtmlOnlyInMixed
                /\ CompiledShowsTheSame
=============================================================================
