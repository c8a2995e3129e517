----------------------------- MODULE Templates -----------------------------
(***************************************************************************)
(* The blocks of the template language of wiki pages: subparse, parse_for, *)
(* parse_if and the rendering of what they make (wiki/templates.py).       *)
(*                                                                         *)
(* A template is a sequence of items: raw text or a whole tag.  The tokens *)
(* within a tag count only for "extra", a value with one argument too      *)
(* many; where that stops, one argument and the end of the tag are left.   *)
(*                                                                         *)
(* The expressions of the language are below: the parser, parse_or to      *)
(* parse_primary, and how the nodes it makes are evaluated.  An expression *)
(* is the sequence of the tokens between the ends of a tag, whose operands *)
(* are numbers and words.  The text behind the tag does not begin with a   *)
(* word of the language.                                                   *)
(***************************************************************************)
EXTENDS Integers, Sequences, FiniteSets, SequencesExt

CONSTANTS Lengths,    \* of the sequences that loops run over
          Extras,     \* whether there are tags with too many arguments
          MaxItems,   \* bound: items of a template
          Slots       \* the tokens at each place of an expression; also bounds its length

VARIABLES items, shown,    \* shown is <<>>, or <<what was rendered>>
          tokens, parsed   \* parsed is <<>>, or <<what became of the tokens>>

templateVars == <<items, shown>>
exprVars == <<tokens, parsed>>

\* [tag, arg]: a condition is TRUE or FALSE, a loop has its length.
Item(tag, arg) == [tag |-> tag, arg |-> arg]
Tags == {Item(t, 0) : t \in {"raw", "var", "else", "endif", "endfor"}}
        \union {Item(t, b) : t \in {"if", "elseif"}, b \in {0, 1}}
        \union {Item("for", n) : n \in Lengths}
        \union (IF Extras THEN {Item("extra", 0)} ELSE {})

-----------------------------------------------------------------------------
(* The parser.  "at" is where the stream is: before item p, or, if "arg",   *)
(* at the last argument of its tag.  A body is a sequence of nodes.         *)

At(p) == [p |-> p, arg |-> FALSE]
InTag(p) == [p |-> p, arg |-> TRUE]
AtEnd(at) == at.p > Len(items)

\* A tag whose name no handler knows shows its name.
Leaf(kind, p) == [kind |-> kind, p |-> p, tests |-> <<>>, body |-> <<>>]
ErrorNode == Leaf("error", 0)

\* "hit" is the tag that ended a body, or "none": at the end of the template, or after
\* a syntax error.
Body(nodes, at, hit) == [nodes |-> nodes, at |-> at, hit |-> hit]

AfterIf == {"endif", "else", "elseif"}
AfterElseIf == {"endif", "elseif"}
AfterElse == {"endif"}

RECURSIVE Subparse(_, _), ParseFor(_), ParseIf(_)

\* [node, at, raised]: what a handler returns, or that it raised a syntax error.
Handled(p) == IF items[p].tag = "for" THEN ParseFor(p) ELSE ParseIf(p)

Subparse(p, needles) ==
  IF p > Len(items) THEN Body(<<>>, At(p), "none")
  ELSE IF items[p].tag \in needles THEN Body(<<>>, At(p), items[p].tag)
  ELSE IF items[p].tag = "extra" THEN Body(<<ErrorNode>>, InTag(p), "none")
  ELSE IF items[p].tag \in {"for", "if"}
  THEN LET h == Handled(p) IN
       IF h.raised THEN Body(<<ErrorNode>>, h.at, "none")
       ELSE LET rest == Subparse(h.at.p, needles)
            IN [rest EXCEPT !.nodes = <<h.node>> \o @]
  ELSE LET rest == Subparse(p + 1, needles) IN
       [rest EXCEPT !.nodes = <<Leaf(IF items[p].tag \in {"raw", "var"} THEN items[p].tag
                                     ELSE "name", p)>> \o @]

\* After the body there must be the end of a tag: that of endfor.
ParseFor(p) ==
  LET body == Subparse(p + 1, {"endfor"})
  IN [node |-> [Leaf("for", p) EXCEPT !.body = body.nodes],
      at |-> IF body.hit = "endfor" THEN At(body.at.p + 1) ELSE body.at,
      raised |-> body.hit # "endfor"]

\* The tests from one at p on, with their bodies.  An else ends the tests whatever
\* ends its body.
RECURSIVE TestsFrom(_, _)
TestsFrom(p, needles) ==
  LET body == Subparse(p + 1, needles)
      rest == TestsFrom(body.at.p, AfterElseIf)
      last == Subparse(body.at.p + 1, AfterElse)
  IN CASE body.hit = "elseif" -> [rest EXCEPT !.tests = <<<<p, body.nodes>>>> \o @]
       [] body.hit = "else" -> [tests |-> <<<<p, body.nodes>>>>, else |-> last.nodes,
                                at |-> last.at]
       [] OTHER -> [tests |-> <<<<p, body.nodes>>>>, else |-> <<>>, at |-> body.at]

\* One token is dropped, which should be endif, then there must be the end of a tag.
ParseIf(p) ==
  LET all == TestsFrom(p, AfterIf)
  IN [node |-> [Leaf("if", p) EXCEPT !.tests = all.tests, !.body = all.else],
      at |-> IF AtEnd(all.at) THEN all.at ELSE At(all.at.p + 1),
      raised |-> AtEnd(all.at)]

Template == Subparse(1, {}).nodes

-----------------------------------------------------------------------------
(* Rendering.  "scopes" are the values of the one variable, innermost last; *)
(* what is shown is a sequence of <<position, value>>.                      *)

Lookup(scopes) == scopes[Len(scopes)]
Value(scopes) == Lookup(scopes)

RECURSIVE RenderAll(_, _)
Render(x, scopes) ==
  CASE x.kind = "for" ->
         FlattenSeq([n \in 1..items[x.p].arg |-> RenderAll(x.body, Append(scopes, n))])
    [] x.kind = "if" ->
         LET true == {i \in DOMAIN x.tests : items[x.tests[i][1]].arg = 1}
         IN IF true = {} THEN RenderAll(x.body, scopes)
            ELSE RenderAll(x.tests[CHOOSE i \in true : \A j \in true : i <= j][2], scopes)
    [] x.kind = "var" -> <<<<x.p, Value(scopes)>>>>
    [] OTHER -> <<<<x.p, 0>>>>
RenderAll(nodes, scopes) == FlattenSeq([i \in DOMAIN nodes |-> Render(nodes[i], scopes)])

-----------------------------------------------------------------------------

Init == items = <<>> /\ shown = <<>>

Type == /\ shown = <<>> /\ Len(items) < MaxItems
        /\ \E item \in Tags : items' = Append(items, item)
        /\ UNCHANGED shown

Process == /\ shown = <<>>
           /\ shown' = <<RenderAll(Template, <<0>>)>>
           /\ UNCHANGED items

Next == Type \/ Process
Spec == Init /\ [][Next]_templateVars

-----------------------------------------------------------------------------
(* What a template means, without a parser: blocks by their tags' nesting.  *)

Opens(p) == items[p].tag \in {"for", "if"}
Closes(p) == items[p].tag \in {"endfor", "endif"}

\* The open blocks in front of item p.
Nest(stack, p) ==
  CASE Opens(p) -> Append(stack, p)
    [] Closes(p) /\ stack # <<>> -> Front(stack)
    [] OTHER -> stack
OpenBefore(p) == FoldLeft(Nest, <<>>, [i \in 1..(p - 1) |-> i])

\* The last tag of block b in front of p: that of its branch.
Branch(b, p) == CHOOSE q \in b..(p - 1) :
  /\ q = b \/ (items[q].tag \in {"else", "elseif"}
               /\ LET open == OpenBefore(q) IN open # <<>> /\ open[Len(open)] = b)
  /\ \A r \in (q + 1)..(p - 1) :
       items[r].tag \in {"else", "elseif"} =>
         LET open == OpenBefore(r) IN open = <<>> \/ open[Len(open)] # b

Branches(b) == {q \in b..Len(items) :
                  q = b \/ (items[q].tag \in {"else", "elseif"}
                            /\ LET open == OpenBefore(q) IN open # <<>> /\ open[Len(open)] = b)}

\* Every block is closed by its own tag, an else is the last branch of an if and
\* follows the if itself: behind an elseif it is shown as a word.
WellNested ==
  /\ OpenBefore(Len(items) + 1) = <<>>
  /\ \A p \in DOMAIN items :
       LET open == OpenBefore(p)
           inner == open[Len(open)] IN
       /\ items[p].tag # "extra"
       /\ items[p].tag = "endfor" => open # <<>> /\ items[inner].tag = "for"
       /\ items[p].tag \in {"endif", "else", "elseif"} => open # <<>> /\ items[inner].tag = "if"
       /\ items[p].tag \in {"else", "elseif"} => items[Branch(inner, p)].tag # "else"
       /\ items[p].tag = "else" => Branch(inner, p) = inner

\* How often an item is shown: the product over its blocks.
Taken(b, p) ==
  LET mine == Branch(b, p)
      earlier == {q \in Branches(b) : q < mine} IN
  /\ items[mine].tag = "else" \/ items[mine].arg = 1
  /\ \A q \in earlier : items[q].arg = 0
RECURSIVE Times(_, _)
Times(open, p) ==
  IF open = <<>> THEN 1
  ELSE LET b == open[Len(open)] IN
       Times(Front(open), p) * (IF items[b].tag = "for" THEN items[b].arg
                                ELSE IF Taken(b, p) THEN 1 ELSE 0)

Loops(open) == SelectSeq(open, LAMBDA b : items[b].tag = "for")

\* A template without mistakes shows each of its texts as often as its blocks say, and
\* each variable with the values of the innermost loop it stands in.
ShowsWhatItMeans ==
  shown # <<>> /\ WellNested =>
    LET out == shown[1]
        Of(p) == SelectSeq(out, LAMBDA o : o[1] = p) IN
    /\ \A p \in DOMAIN items :
         IF items[p].tag \notin {"raw", "var"} THEN Of(p) = <<>>
         ELSE LET open == OpenBefore(p)
                  loops == Loops(open) IN
              /\ Len(Of(p)) = Times(open, p)
              /\ items[p].tag = "var" =>
                   \A i \in DOMAIN Of(p) :
                     Of(p)[i][2] = IF loops = <<>> THEN 0
                                   ELSE 1 + ((i - 1) % items[loops[Len(loops)]].arg)
    /\ \A o \in Range(out) : o[1] # 0
    /\ Loops([i \in DOMAIN items |-> i]) = <<>> =>
         \A i \in 2..Len(out) : out[i - 1][1] < out[i][1]

-----------------------------------------------------------------------------
(* The levels of the parser, the loosest first                              *)

Ops == <<{"or"}, {"and"}, {"contains", "starts_with"}, {"as"}, {"is"}, {"==", "!=", "<"},
         {"+"}, {"-"}, {"&"}, {"*"}, {"/"}, {"%"}>>
Binary == {1, 2, 3} \union 6..12
Sign == 13
Primary == 14

Signs == {"==", "!=", "<", "+", "-", "&", "*", "/", "%", "(", ")"}   \* other tokens are words
After(op) == IF op = "as" THEN {"string", "rounded"} ELSE {"string"}

PastTokens(p) == p > Len(tokens)
TokenAt(p, names) == ~PastTokens(p) /\ tokens[p] \in names

\* A leaf knows its place.
Tree(op, kids) == [op |-> op, kids |-> kids, at |-> 0]
OperandLeaf(p) == [op |-> "leaf", kids |-> <<>>, at |-> p]

\* What a method returns: a tree and the place behind it, or how it failed.
Found(tree, pos) == [tree |-> tree, pos |-> pos, failed |-> "no"]
Failed(how) == [tree |-> OperandLeaf(0), pos |-> 0, failed |-> how]
OK(r) == r.failed = "no"

RECURSIVE Parse(_, _), Loop(_, _)

Operand(l, p) == Parse(l + 1, p)
SameLevel(l, p) == Parse(l, p)
RightOperand(l, p) == Operand(l, p)

\* The while loop of a level with operators between two operands.
Loop(l, left) ==
  IF ~(OK(left) /\ TokenAt(left.pos, Ops[l])) THEN left
  ELSE LET right == RightOperand(l, left.pos + 1)
       IN IF OK(right)
          THEN Loop(l, Found(Tree(tokens[left.pos], <<left.tree, right.tree>>), right.pos))
          ELSE right

\* parse_convert and parse_test take one operator with its word.
Suffixed(l, left) ==
  CASE ~(OK(left) /\ TokenAt(left.pos, Ops[l])) -> left
    [] OK(left) /\ TokenAt(left.pos, Ops[l]) /\ TokenAt(left.pos + 1, After(tokens[left.pos])) ->
         Found([Tree(tokens[left.pos], <<left.tree>>) EXCEPT !.at = left.pos + 1], left.pos + 2)
    [] OTHER -> Failed("syntax")

\* A sign where an operand should be leaves parse_primary without a node.
ParsePrimary(p) ==
  LET inner == Parse(1, p + 1) IN
  CASE PastTokens(p) -> Failed("syntax")
    [] TokenAt(p, {"("}) -> IF OK(inner) /\ ~TokenAt(inner.pos, {")"}) THEN Failed("syntax")
                       ELSE [inner EXCEPT !.pos = @ + 1]
    [] TokenAt(p, Signs \ {"("}) -> Failed("crash")
    [] OTHER -> Found(OperandLeaf(p), p + 1)

Negated(r) == IF OK(r) THEN [r EXCEPT !.tree = Tree("neg", <<@>>)] ELSE r

Parse(l, p) ==
  CASE l \in Binary -> Loop(l, Operand(l, p))
    [] l \in {4, 5} -> Suffixed(l, Operand(l, p))
    [] l = Sign -> IF TokenAt(p, {"-"}) THEN Negated(Parse(Primary, p + 1)) ELSE Parse(Primary, p)
    [] l = Primary -> ParsePrimary(p)

\* The tag has to end behind the expression.
Expression == LET r == Parse(1, 1)
              IN IF OK(r) /\ ~PastTokens(r.pos) THEN Failed("syntax") ELSE r

-----------------------------------------------------------------------------
(* Evaluation: an expression gives a Value, a plain bool or number of       *)
(* Python, or raises an exception.                                          *)

Kinds == {"value", "plain", "error"}

Compared(op, a, b) == IF op = "!=" /\ "value" \in {a, b} THEN {"error"} ELSE {"plain"}

\* Value defines no operators for operands on its left.
Calculated(op, a, b) == CASE a = "value" -> {"value"}
                          [] a = "plain" /\ b = "value" -> {"error"}
                          [] OTHER -> IF op \in {"/", "%"} THEN {"plain", "error"} ELSE {"plain"}

\* unicode.startswith takes no Value; math has no function round.
Applied(op, a) == IF op = "contains" /\ a = "value" THEN {"value"} ELSE {"error"}
Converted(word) == IF word = "rounded" THEN {"error"} ELSE {"value"}
Tested(a) == IF a = "value" THEN {"value"} ELSE {"error"}

Result(x, a, b) ==
  CASE "error" \in {a, b} -> {"error"}
    [] x.op \in Ops[6] -> Compared(x.op, a, b)
    [] x.op \in UNION {Ops[l] : l \in 7..12} -> Calculated(x.op, a, b)
    [] x.op \in Ops[3] -> Applied(x.op, a)
    [] x.op = "as" -> Converted(tokens[x.at])
    [] x.op = "is" -> Tested(a)
    [] x.op = "neg" -> IF a = "value" THEN {"error"} ELSE {a}
    [] OTHER -> {a, b}       \* or, and: one of them

\* What it may give, for some values of its operands.
RECURSIVE Outcomes(_)
Outcomes(x) ==
  IF x.op = "leaf" THEN {"value"}
  ELSE UNION {Result(x, a, b) : a \in Outcomes(x.kids[1]), b \in Outcomes(x.kids[Len(x.kids)])}

-----------------------------------------------------------------------------

ExprInit == tokens = <<>> /\ parsed = <<>>

TypeToken == /\ parsed = <<>> /\ Len(tokens) < Len(Slots)
        /\ \E t \in Slots[Len(tokens) + 1] : tokens' = Append(tokens, t)
        /\ UNCHANGED parsed

Evaluate == /\ parsed = <<>> /\ tokens # <<>>
            /\ LET r == Expression
               IN parsed' = <<[tree |-> r.tree, failed |-> r.failed,
                               outcomes |-> IF OK(r) THEN Outcomes(r.tree) ELSE {}]>>
            /\ UNCHANGED tokens

ExprNext == TypeToken \/ Evaluate
ExprSpec == ExprInit /\ [][ExprNext]_exprVars

-----------------------------------------------------------------------------
(* What an expression means, without a parser                               *)

\* The part each token plays, told from those in front of it: an operand is expected
\* at the beginning, behind a parenthesis, behind a sign and behind an operator.
RECURSIVE ExpectsOperand(_)
ExpectsOperand(p) ==
  \/ p = 1
  \/ /\ ExpectsOperand(p - 1)
     /\ tokens[p - 1] \in {"(", "-"}
  \/ /\ ~ExpectsOperand(p - 1)
     /\ tokens[p - 1] \notin {")", "as", "is"} /\ ~(p > 2 /\ tokens[p - 2] \in {"as", "is"}
                                                    /\ ~ExpectsOperand(p - 2))

IsWordOf(p) == p > 1 /\ tokens[p - 1] \in {"as", "is"} /\ ~ExpectsOperand(p - 1)
IsOperator(p) == ~ExpectsOperand(p) /\ ~IsWordOf(p) /\ tokens[p] # ")"

\* How many parentheses are open in front of a place.
Depth(p) == Cardinality({q \in 1..(p - 1) : tokens[q] = "("})
            - Cardinality({q \in 1..(p - 1) : tokens[q] = ")"})

Wellformed ==
  /\ Depth(Len(tokens) + 1) = 0 /\ \A p \in 1..Len(tokens) : Depth(p + 1) >= 0
  /\ ~ExpectsOperand(Len(tokens) + 1)
  /\ \A p \in DOMAIN tokens :
       /\ ExpectsOperand(p) =>
            \/ tokens[p] \notin Signs \/ tokens[p] = "("
            \/ tokens[p] = "-" /\ ~(p > 1 /\ ExpectsOperand(p - 1) /\ tokens[p - 1] = "-")
       /\ ~ExpectsOperand(p) /\ ~IsWordOf(p) =>
            tokens[p] \in UNION {Ops[l] : l \in DOMAIN Ops} \union {")"}
       /\ IsWordOf(p) => tokens[p] \in After(tokens[p - 1])
       /\ tokens[p] \in {"as", "is"} /\ ~ExpectsOperand(p) => p < Len(tokens)

LevelOf(t) == CHOOSE l \in DOMAIN Ops : t \in Ops[l]

\* An expression is divided at its loosest operator, of several at the last one; as and
\* is must be the last in their part, and the only one.
RECURSIVE Meaning(_, _)
Meaning(lo, hi) ==
  LET tops == {p \in lo..hi : IsOperator(p) /\ Depth(p) = Depth(lo)}
      loosest == CHOOSE p \in tops : \A q \in tops :
                   \/ LevelOf(tokens[p]) < LevelOf(tokens[q])
                   \/ LevelOf(tokens[p]) = LevelOf(tokens[q]) /\ q <= p
      left == Meaning(lo, loosest - 1)
      right == Meaning(loosest + 1, hi)
      inner == Meaning(lo + 1, IF tokens[lo] = "(" THEN hi - 1 ELSE hi)
  IN CASE tops = {} -> CASE tokens[lo] = "(" /\ hi > lo -> inner
                         [] tokens[lo] = "-" /\ hi > lo -> IF inner = {} THEN {}
                              ELSE {Tree("neg", <<x>>) : x \in inner}
                         [] OTHER -> {OperandLeaf(lo)}
       [] tops # {} /\ tokens[loosest] \in {"as", "is"} ->
            IF loosest + 1 # hi \/ \E q \in tops \ {loosest} : tokens[q] = tokens[loosest] THEN {}
            ELSE {[Tree(tokens[loosest], <<x>>) EXCEPT !.at = hi] : x \in left}
       [] OTHER -> {Tree(tokens[loosest], <<x, y>>) : x \in left, y \in right}

Parsed == parsed # <<>>
IsTree == Parsed /\ parsed[1].failed = "no"
TreeOf == parsed[1].tree

\* The parser makes the tree an expression means, and fails if it means nothing; it
\* only crashes where a sign stands instead of an operand.
TreesFollowLevels ==
  Parsed => /\ IF Wellformed THEN (IF IsTree THEN {TreeOf} ELSE {}) = Meaning(1, Len(tokens))
               ELSE ~IsTree
            /\ parsed[1].failed = "crash" =>
                 \E p \in DOMAIN tokens : ExpectsOperand(p) /\ tokens[p] \in Signs \ {"("}

\* The operands of sums and differences (or products and quotients) count as the operator
\* in front of them says, though addition and subtraction are levels of their own.
RECURSIVE Counted(_, _, _)
Counted(x, sign, minus) ==
  IF x.op = "leaf" THEN {<<x.at, sign>>}
  ELSE Counted(x.kids[1], sign, minus)
       \union Counted(x.kids[2], IF x.op = minus THEN -sign ELSE sign, minus)
ChainsCount ==
  IsTree => \A chain \in {<<"+", "-">>, <<"*", "/">>} :
    (\A p \in DOMAIN tokens : IF p % 2 = 0 THEN tokens[p] \in {chain[1], chain[2]}
                              ELSE tokens[p] \notin Signs)
    => Counted(TreeOf, 1, chain[2])
       = {<<p, IF p > 1 /\ tokens[p - 1] = chain[2] THEN -1 ELSE 1>> :
            p \in {q \in DOMAIN tokens : q % 2 = 1}}

\* Evaluation only fails on what has no implementation, and on a comparison as an operand
\* of anything but and and or.
RECURSIVE Nodes(_)
Nodes(x) == {x} \union UNION {Nodes(x.kids[i]) : i \in DOMAIN x.kids}
Compares(x) == \E y \in Nodes(x) : y.op \in Ops[6]
FailuresExplained ==
  IsTree /\ "error" \in parsed[1].outcomes =>
    \E x \in Nodes(TreeOf) :
      \/ x.op \in {"neg", "!=", "starts_with"}
      \/ x.op = "as" /\ tokens[x.at] = "rounded"
      \/ x.op \notin {"or", "and", "leaf"} /\ Compares(x.kids[1])

ExpressionsMean == TreesFollowLevels /\ ChainsCount /\ FailuresExplained
=============================================================================
