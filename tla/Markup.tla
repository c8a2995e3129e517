------------------------------- MODULE Markup -------------------------------
(***************************************************************************)
(* The wiki markup: a lexer with a stack of states (wiki/parser/lexer.py)  *)
(* that yields tokens as the recursive parser asks for them                *)
(* (wiki/parser/__init__.py).  Neither ever reports an error in a text:    *)
(* the lexer closes what is left open and the parser relies on it.         *)
(*                                                                         *)
(* Which rule of a state matches next depends on the text, which is not    *)
(* modelled: any may.  Of elements that differ in their names only the     *)
(* constants below hold representatives.                                   *)
(***************************************************************************)
EXTENDS Naturals, Sequences, SequencesExt

CONSTANTS Spans,     \* elements with inline content: strong, underline, sub, ...
          Valued,    \* the same with a value after the begin: color, size, font
          Blocks,    \* elements with any content: footnote; mod and edit have a value
          MaxIndent, \* bound: indentation of list items
          ListTypes, \* their types
          ConflictInCells, \* whether a conflict marker may stand inside a table cell
          MaxDepth   \* bound: states and quotes the lexer has open at a time

VARIABLES quotes,    \* open quotes, and whether the text has ended
          ended,
          lex,       \* the lexer's stack: [announce, state], the last one on top
          tokens,    \* yielded and not consumed
          frames,    \* the parser's calls under way, the last one innermost
          failed     \* the parser met a token it cannot handle

markupVars == <<quotes, ended, lex, tokens, frames, failed>>

Nothing == "nothing"
Items == (1 .. MaxIndent) \X ListTypes   \* <<indentation, type>>
Begin(x) == <<"begin", x>>
End(x) == <<"end", x>>
Tok(t) == <<"token", t>>
EOF == Tok("eof")

Init == /\ quotes = 0 /\ ended = FALSE
        /\ lex = <<[announce |-> Nothing, state |-> "everything"]>>
        /\ tokens = <<>>
        /\ frames = <<[of |-> "document", at |-> "body", item |-> Nothing]>>
        /\ failed = FALSE

-----------------------------------------------------------------------------
(* The rules of the lexer's states                                          *)

Rule(enter, toks, leave, switch) ==
  [enter |-> enter, toks |-> toks, leave |-> leave, switch |-> switch, silent |-> FALSE]

Enter(x, toks) == Rule(x, <<Begin(x)>> \o toks, 0, Nothing)
Yield(t) == Rule(Nothing, <<Tok(t)>>, 0, Nothing)
Leave(n) == Rule(Nothing, <<>>, n, Nothing)
SwitchTo(s, toks) == Rule(Nothing, toks, 0, s)
Silently(s) == [Rule(s, <<>>, 0, Nothing) EXCEPT !.silent = TRUE]

BlockRules ==
  {Enter("metadata", <<Tok("metadata_key")>>), Enter("headline", <<>>),
   Enter("definition", <<Tok("definition_term")>>), Enter("table_row", <<>>),
   Enter("box", <<>>), Enter("pre", <<>>), Enter("conflict", <<>>), Yield("ruler")}
  \union {Rule("list_item", <<Begin("list_item") \o <<i>>>>, 0, Nothing) : i \in Items}

InlineRules ==
  {Enter(x, <<>>) : x \in Spans} \union {Enter(x, <<Tok("value")>>) : x \in Valued}
  \union {Enter(x, <<>>) : x \in Blocks \ {"mod"}}
  \union {Enter(x, <<Tok("value")>>) : x \in Blocks \intersect {"mod"}}
  \union {Enter("escaped_code", <<>>), Enter("code", <<>>),
          Enter("macro", <<Tok("name")>>), Enter("template", <<Tok("name")>>),
          Yield("raw"), Yield("nl")}

LinkRules ==
  {Yield("sourcelink"), Yield("free_link"), Enter("wiki_link", <<Tok("value")>>),
   Enter("external_link", <<Tok("value")>>),
   Rule(Nothing, <<Begin("external_link"), Tok("value"), End("external_link")>>, 0, Nothing)}

Everything == BlockRules \union InlineRules \union LinkRules
InlineWithLinks == InlineRules \union LinkRules

FunctionCall == {Yield("func_argument_delimiter"), Yield("func_string_arg"), Yield("func_kwarg")}

\* The states "macro" and "table_row" and those of the pre block
MacroRules == {Leave(1), Silently("macro_arguments")}
PreRules == {SwitchTo("parser_arguments", <<Tok("parser_begin")>>), SwitchTo("pre_data", <<>>)}
DefRules(of, contents) == {SwitchTo(of, <<Tok("def_begin")>>), SwitchTo(contents, <<>>)}

RulesOf(s) ==
  CASE s = "everything" -> Everything
    [] s = "emphasized" -> {Leave(1), Enter("strong", <<Tok("text")>>)} \union InlineWithLinks
    [] s \in (Spans \union Valued) \ {"emphasized"} -> {Leave(1)} \union InlineWithLinks
    [] s \in {"headline", "definition"} -> {Leave(1)} \union InlineWithLinks
    [] s \in {"wiki_link", "external_link"} -> {Leave(1)} \union InlineRules
    [] s \in Blocks \union {"list_item", "box_contents"} -> {Leave(1)} \union Everything
    [] s = "conflict" -> {Yield("conflict_switch"), Leave(1)} \union Everything
    [] s = "metadata" -> {Leave(1), Yield("func_argument_delimiter"), Yield("func_string_arg")}
    [] s = "escaped_code" -> {Leave(1), Enter("code", <<>>)}
    [] s \in {"code", "highlighted", "parser_data"} -> {Leave(1)}
    [] s = "pre" -> PreRules
    [] s = "parser_arguments" -> {SwitchTo("parser_data", <<Tok("parser_end")>>)}
                                 \union FunctionCall
    [] s = "pre_data" -> {Leave(1), Enter("highlighted", <<>>)}
    [] s = "table_row" -> DefRules("table_def", "table_contents")
    [] s = "table_def" -> {SwitchTo("table_contents", <<Tok("def_end")>>)} \union FunctionCall
    [] s = "table_contents" -> {Leave(1), SwitchTo("table_row", <<Tok("table_col_switch")>>)}
                               \union (Everything \ {Enter("table_row", <<>>)})
    [] s = "box" -> DefRules("box_def", "box_contents")
    [] s = "box_def" -> {SwitchTo("box_contents", <<Tok("def_end")>>)} \union FunctionCall
    [] s = "macro" -> MacroRules
    [] s = "macro_arguments" -> {Leave(2)} \union FunctionCall
    [] s = "template" -> {Leave(1)} \union FunctionCall

\* In a cell the sign that begins a table row ends the cell.
\* States whose last rule matches whatever the others do not, so that no text is read.
NoText == {"pre", "table_row", "box", "macro"}

-----------------------------------------------------------------------------
(* The lexer goes on when the parser has consumed what it yielded.          *)

Top == Last(lex)

EndsOf(stack) == LET announced == SelectSeq(stack, LAMBDA e : e.announce # Nothing) IN
                 [i \in DOMAIN announced |-> End(announced[Len(announced) + 1 - i].announce)]

Pushed(stack, r) == IF r.enter = Nothing THEN stack
                    ELSE Append(stack, [announce |-> IF r.silent THEN Nothing ELSE r.enter,
                                        state |-> r.enter])

\* tokenize_block: one rule matches.
Match == /\ tokens = <<>> /\ ~ended
         /\ \E r \in RulesOf(Top.state) :
              LET entered == Pushed(lex, r)
                  kept == SubSeq(entered, 1, Len(entered) - r.leave)
                  left == SubSeq(entered, Len(entered) - r.leave + 1, Len(entered)) IN
              /\ Len(entered) + quotes <= MaxDepth
              /\ r.enter = "conflict" /\ ~ConflictInCells =>
                   \A i \in DOMAIN lex : lex[i].announce # "table_row"
              /\ tokens' = r.toks \o EndsOf(left)
              /\ lex' = IF r.switch = Nothing THEN kept
                        ELSE [kept EXCEPT ![Len(kept)].state = r.switch]
         /\ UNCHANGED <<quotes, ended, frames, failed>>

\* No rule matches: the character is text.
Text == /\ tokens = <<>> /\ ~ended /\ Top.state \notin NoText
        /\ tokens' = <<Tok("text")>>
        /\ UNCHANGED <<quotes, ended, lex, frames, failed>>

\* tokenize: a block ends where the number of quote signs changes; what is open
\* in it is closed.
NewBlock(level) ==
  /\ tokens = <<>> /\ ~ended /\ level # quotes /\ level < MaxDepth
  /\ tokens' = EndsOf(lex) \o
       (IF level > quotes THEN [i \in 1..(level - quotes) |-> Begin("quote")]
                          ELSE [i \in 1..(quotes - level) |-> End("quote")])
  /\ lex' = SubSeq(lex, 1, 1)
  /\ quotes' = level
  /\ UNCHANGED <<ended, frames, failed>>

EndOfText == /\ tokens = <<>> /\ ~ended
             /\ tokens' = Append(EndsOf(lex) \o [i \in 1..quotes |-> End("quote")], EOF)
             /\ lex' = SubSeq(lex, 1, 1) /\ quotes' = 0 /\ ended' = TRUE
             /\ UNCHANGED <<frames, failed>>

-----------------------------------------------------------------------------
(* The parser: each frame is a call of a parse_ method, "at" the place it   *)
(* has reached.  Its next move depends on the current token only.           *)

Frame(of, at) == [of |-> of, at |-> at, item |-> Nothing]

Take(at) == [do |-> "take", at |-> at]    \* consume the token and go on there
Node == [do |-> "node", at |-> Nothing]   \* parse_node
Done == [do |-> "done", at |-> Nothing]   \* consume the token and return
Back == [do |-> "back", at |-> Nothing]   \* return
Fail == [do |-> "fail", at |-> Nothing]

IsEnd(f, t) == t = End(f.of)
ArgTokens == {Tok("func_string_arg"), Tok("text"), Tok("func_kwarg"),
              Tok("func_argument_delimiter")}

UntilEnd(f, t) == IF IsEnd(f, t) THEN Done ELSE Node

\* The element's value (parse_color, parse_wiki_link) or name (parse_macro)
Value(f, t) == IF t[1] = "token" /\ t # EOF THEN Take("body") ELSE Fail
Name(f, t) == IF t[1] = "token" /\ t # EOF THEN Take("args") ELSE Fail

\* Elements whose contents are nodes; parse_definition looks for another term.
Body(f, t) == IF f.of = "document" THEN IF t = EOF THEN Done ELSE Node
              ELSE IF f.of = "definition" /\ IsEnd(f, t) THEN Take("next")
              ELSE UntilEnd(f, t)

\* parse_metadata expects the end, the others take whatever stopped parse_arguments.
Arguments(f, t) == IF t \in ArgTokens THEN Take("args")
                   ELSE IF f.of = "metadata" /\ ~IsEnd(f, t) THEN Fail ELSE Done

ExpectText(f, t) == IF t = Tok("text") THEN Take("code") ELSE IF IsEnd(f, t) THEN Done ELSE Fail

Swallow(f, t) == IF IsEnd(f, t) THEN Done ELSE IF t = EOF THEN Fail ELSE Take("swallow")

\* parse_pre_block
ParserName(f, t) == IF t = Tok("parser_begin") THEN Take("parser") ELSE UntilEnd(f, t)
ParserArgumentsRigid(f, t) == IF t \in ArgTokens THEN Take("parser") ELSE Take("body")
ParserArguments(f, t) ==
  IF t \in ArgTokens THEN Take("parser") ELSE IF IsEnd(f, t) THEN Done ELSE Take("body")

\* parse_box and parse_table: a definition may end with the element.
Contents(f, t) ==
  CASE f.of = "table_row" /\ t \in {Begin("table_row"), Tok("table_col_switch")} -> Take("start")
    [] f.of = "table_row" /\ IsEnd(f, t) -> Take("next")
    [] f.of = "table_row" /\ t = EOF -> Back
    [] OTHER -> UntilEnd(f, t)
Start(f, t) == IF t = Tok("def_begin") THEN Take("def") ELSE Contents(f, t)
Definition(f, t) == IF t \in ArgTokens THEN Take("def")
                    ELSE IF t = Tok("def_end") THEN Take("contents") ELSE Contents(f, t)

\* After an end: parse_table and parse_definition go on with another begin.
NextRow(f, t) == IF t = Begin(f.of)
                 THEN Take(IF f.of = "table_row" THEN "start" ELSE "value") ELSE Back

\* parse_list: an item of this list, of one nested in it, or of another list.
IsItem(t) == Len(t) = 3
NextItem(f, t) ==
  CASE ~IsItem(t) -> Back
    [] IsItem(t) -> IF t[3] = f.item THEN Take("item")
                    ELSE IF t[3][1] > f.item[1] THEN Node ELSE Back

Move(f, t) ==
  CASE f.at = "value" -> Value(f, t)
    [] f.at = "body" -> Body(f, t)
    [] f.at = "name" -> Name(f, t)
    [] f.at = "args" -> Arguments(f, t)
    [] f.at = "code" -> ExpectText(f, t)
    [] f.at = "swallow" -> Swallow(f, t)
    [] f.at = "pre" -> ParserName(f, t)
    [] f.at = "parser" -> ParserArguments(f, t)
    [] f.at = "start" -> Start(f, t)
    [] f.at = "def" -> Definition(f, t)
    [] f.at = "contents" -> Contents(f, t)
    [] f.at = "next" -> NextRow(f, t)
    [] f.at = "list" -> NextItem(f, t)
    [] f.at = "item" -> IF IsEnd(f, t) THEN Take("list") ELSE Node

\* parse_node: the methods that take one token, and where the others begin.
Single == {Tok("text"), Tok("raw"), Tok("nl"), Tok("ruler"), Tok("sourcelink"),
           Tok("free_link"), Begin("conflict"), Tok("conflict_switch"), End("conflict")}

Opening(x) ==
  CASE x \in Valued \union {"mod", "definition", "wiki_link", "external_link"} -> "value"
    [] x \in {"metadata", "macro", "template"} -> "name"
    [] x = "code" -> "code"
    [] x = "escaped_code" -> "swallow"
    [] x = "pre" -> "pre"
    [] x \in {"table_row", "box"} -> "start"
    [] OTHER -> "body"

Inner == Last(frames)
Outer == Front(frames)

Parse ==
  /\ tokens # <<>> /\ ~failed
  /\ LET t == Head(tokens)
         m == Move(Inner, t)
         node == m.do = "node" IN
     /\ failed' = (m.do = "fail" \/ (node /\ t[1] # "begin" /\ t \notin Single))
     /\ tokens' = IF m.do = "back" \/ (node /\ IsItem(t)) THEN tokens ELSE Tail(tokens)
     /\ frames' =
          CASE m.do = "take" -> Append(Outer, [Inner EXCEPT !.at = m.at])
            [] m.do \in {"done", "back", "fail"} -> Outer
            [] node -> IF t \in Single \/ t[1] # "begin" THEN frames
                       ELSE IF IsItem(t)
                       THEN Append(frames, [Frame("list_item", "list") EXCEPT !.item = t[3]])
                       ELSE Append(frames, Frame(t[2], Opening(t[2])))
  /\ UNCHANGED <<quotes, ended, lex>>

Next == \/ Match \/ Text \/ EndOfText \/ Parse
        \/ \E level \in 0..MaxDepth : NewBlock(level)

Spec == Init /\ [][Next]_markupVars /\ WF_markupVars(Next)

-----------------------------------------------------------------------------

TypeOK == /\ quotes \in 0..MaxDepth
          /\ Len(lex) \in 1..MaxDepth
          /\ \A i \in DOMAIN frames : DOMAIN frames[i] = {"of", "at", "item"}

\* Whatever the text, every token the lexer yields is one the parser can handle
\* where it is, to the end.
NeverStuck == ~failed /\ (ended /\ tokens = <<>> => frames = <<>>)

\* Elements the lexer has open, up to the one whose contents are taken as they are.
LexerOpen ==
  LET announced == [i \in DOMAIN lex |-> lex[i].announce]
      open == SelectSeq(announced, LAMBDA x : x \notin {Nothing, "conflict"}) IN
  [i \in 1..quotes |-> "quote"] \o open

ParserOpen ==
  LET open == SelectSeq(frames, LAMBDA f : f.of # "document" /\ f.at \notin {"next", "list"}) IN
  [i \in DOMAIN open |-> open[i].of]

\* The parser is inside just the elements that the lexer has open.
ParserFollowsLexer ==
  tokens = <<>> /\ ~ended /\ ~failed =>
    \/ ParserOpen = LexerOpen
    \/ Last(ParserOpen) = "escaped_code" /\ ParserOpen = Front(LexerOpen)
=============================================================================
