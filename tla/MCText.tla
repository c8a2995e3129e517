------------------------------- MODULE MCText -------------------------------
(***************************************************************************)
(* What is done to values and texts: the stored settings, the merge of two *)
(* edits of a wiki page and the drawing of their differences, the markup,  *)
(* the document the markup becomes and its renderings, the texts of the    *)
(* old forum, the language of templates, dates, and the pages of a list.   *)
(* They share nothing that is modelled, so an initial state picks the one  *)
(* that moves; the others stay put.                                        *)
(***************************************************************************)
EXTENDS Storage, Diff3, SequencesExt

CONSTANT Parts   \* those that a run considers

\* Texts whose lines all differ, and texts with repeated lines; a match takes three.
DistinctTexts == {<<>>, <<1>>, <<1, 2, 3>>, <<1, 2, 3, 4, 5>>}
RepeatingTexts == {<<1, 1, 1, 1>>, <<1, 2, 3, 1, 2, 3>>}

\* A user inserts a line of his own, replaces a line by it, or removes a line.
EditOnce(s, line) == {InsertAt(s, p, line) : p \in 1 .. Len(s) + 1}
                     \union {ReplaceAt(s, p, line) : p \in 1 .. Len(s)}
                     \union {RemoveAt(s, p) : p \in 1 .. Len(s)}
EditedOnce(s, line) == {s} \union EditOnce(s, line)
EditedTwice(s, line) == EditedOnce(s, line) \union UNION {EditOnce(t, line) : t \in EditOnce(s, line)}

\* Merges of one change of a user with up to two of another; and of a longer text with
\* lines removed.
LongText == <<1, 2, 3, 4, 5, 6, 7, 8>>
LessLong == {RemoveAt(s, p) : s \in {RemoveAt(LongText, q) : q \in 1 .. 8}, p \in 1 .. 7}
LongMerges == {LongText} \X LessLong \X {LongText, Front(LongText)}
MCMerges == UNION {{s} \X EditedTwice(s, 102) \X EditedOnce(s, 101) :
                     s \in DistinctTexts \union RepeatingTexts}
            \union LongMerges

ASSUME Diff3Assumption

VARIABLES part,
          quotes, ended, lex, tokens, frames, failed, open, size, doc,
          words, outcome

M == INSTANCE Markup WITH
       Spans <- {"strong", "emphasized"}, Valued <- {"color"}, Blocks <- {"footnote", "mod"},
       MaxIndent <- 2, ListTypes <- {"a", "b"}, ConflictInCells <- FALSE,
       MaxDepth <- 4

\* Texts with every kind of node, and texts that are mostly headlines.
T == INSTANCE Documents WITH
       Inner <- {"strong", "quote", "keybox", "pre", "footnote"},
       Shapes <- {<<"word", "break">>, <<"smile">>},
       Levels <- {}, Titles <- {}, Depths <- {}, Keys <- TRUE, MaxNodes <- 4
H == INSTANCE Documents WITH
       Inner <- {"footnote"}, Shapes <- {}, Levels <- 1..3, Titles <- {<<"a">>, <<"a", 2>>},
       Depths <- {2}, Keys <- FALSE, MaxNodes <- 4

\* Every kind of node, and those whose renderings meet, in each other.
AllKinds == {"span", "internal_link", "interwiki_link", "unknown_wiki_link", "link", "error",
             "footnote", "quote", "moderated", "edited", "pre", "strong", "highlighted",
             "emphasized", "code", "underline", "stroke", "small", "big", "sub", "sup", "color",
             "size", "font", "definition", "bullets", "box", "layer", "cell"}
K == INSTANCE Rendering WITH
       Inner <- AllKinds, Leaves <- {"ruler", "conflict", "listing", "macro", "newline", "source"},
       Shapes <- {<<"word">>}, Levels <- {1}, Titles <- {<<"a">>}, Depths <- {}, Keys <- FALSE,
       MaxNodes <- 2
S == INSTANCE Rendering WITH
       Inner <- {"strong", "emphasized", "quote", "box", "footnote", "cell"}, Leaves <- {"macro"},
       Shapes <- {<<"word">>, <<"smile">>}, Levels <- {1}, Titles <- {<<"a">>}, Depths <- {},
       Keys <- FALSE, MaxNodes <- 3

\* Texts of lists, of code and of all tags of the old forum.
OldNodes == {"strong", "highlighted", "moderated", "link", "font", "quote", "element", "pre",
             "list", "item"}
L == INSTANCE BBCode WITH
       Inner <- OldNodes, Shapes <- {}, Levels <- {}, Titles <- {}, Depths <- {}, Keys <- FALSE,
       MaxNodes <- 0, tokens <- words, markup <- outcome,
       TokenNames <- {"list", "/list", "*", "text", "nl"}, MaxTokens <- 6
C == INSTANCE BBCode WITH
       Inner <- OldNodes, Shapes <- {}, Levels <- {}, Titles <- {}, Depths <- {}, Keys <- FALSE,
       MaxNodes <- 0, tokens <- words, markup <- outcome,
       TokenNames <- {"code", "/code", "mark", "/mark", "text"}, MaxTokens <- 6
B == INSTANCE BBCode WITH
       Inner <- OldNodes, Shapes <- {}, Levels <- {}, Titles <- {}, Depths <- {}, Keys <- FALSE,
       MaxNodes <- 0, tokens <- words, markup <- outcome,
       TokenNames <- {"b", "/b", "mod=", "/mod", "mod", "font=", "url", "url=", "/url", "quote",
                      "quote=", "/quote", "code", "list", "*", "/list", "text", "address", "nl"},
       MaxTokens <- 3

\* Templates of blocks and tags, chains of all operators, and everything between
\* parentheses, signs and words.
Operators == {"or", "and", "contains", "starts_with", "==", "!=", "<", "+", "-", "&", "*", "/", "%"}
Phrases == {"1", "string", "as", "is", "or", "-", "+", "(", ")"}
O == INSTANCE Templates WITH
       Lengths <- {0, 2}, Extras <- TRUE, MaxItems <- 5, items <- words, shown <- outcome,
       Slots <- <<{"1"}, Operators, {"1"}, Operators, {"1"}, Operators, {"1"}>>,
       tokens <- words, parsed <- outcome
E == INSTANCE Templates WITH
       Lengths <- {}, Extras <- FALSE, MaxItems <- 0, items <- words, shown <- outcome,
       Slots <- <<{"1", "string", "(", "-", "+"}, Phrases \union {"=="},
                  Phrases \union {"rounded"}, Phrases, Phrases \union {"rounded"}>>,
       tokens <- words, parsed <- outcome

\* Lines with characters that HTML escapes, and one that looks like a header of a diff.
EscapedChar(c) == CASE c = "<" -> <<"&", "l", "t", ";">>
                    [] c = ">" -> <<"&", "g", "t", ";">>
                    [] OTHER -> <<c>>
PlainLine(c) == IF c = "-" THEN <<"-", "-", " ">> ELSE <<"a">>
D == INSTANCE Differences WITH
       Texts <- {<<>>, <<"a">>, <<"<">>, <<"a", "a">>, <<"a", "<">>, <<"<", "a">>, <<"<", "<">>,
                 <<"a", "<", "a">>, <<"<", "a", "<">>, <<"-", "-", " ">>, <<">">>, <<"a", ">">>},
       Plain <- PlainLine, Escaped <- EscapedChar, Context <- 1, MaxLines <- 6, MaxTexts <- 2,
       script <- words

Z == INSTANCE Dates WITH
       DayLength <- 4, Days <- 1 .. 4, Zones <- {-1, 0, 2}, Chunks <- <<24, 8, 3, 1>>,
       MaxSince <- 60, MaxEntries <- 3, Nothing <- None, asked <- words, told <- outcome

\* Lists of up to 22 rows; the cached topic lists, which TopicPages also has, do not move.
P == INSTANCE TopicPages WITH
       MaxTotal <- 22, PageSize <- 2, MaxPagesList <- 5, Thresholds <- {1, 2, 3, 5},
       asked <- words, paged <- outcome,
       ListTopics <- {}, ListForums <- {}, PerPage <- 1, ListPage <- 1, Newest <- 0, ListTime <- 0, FeedTime <- 0,
       MaxTime <- 0, MaxWrites <- 0, NoEntry <- None, GoneTopic <- None,
       now <- 0, writes <- 0, topics <- <<>>, stored <- <<>>, latest <- <<>>,
       writer <- None, reader <- None, fresh <- {}

parserVars == <<quotes, ended, lex, tokens, frames, failed>>
docVars == <<open, size, doc>>
wordVars == <<words, outcome>>
textVars == <<part, storageVars, mergeVars, parserVars, docVars, wordVars>>

TextInit == /\ part \in Parts
            /\ Init /\ (part # "storage" => rows = {})
            /\ MergeInit /\ (part # "merge" => old = <<>> /\ other = <<>> /\ new = <<>>)
            /\ M!Init
            /\ T!Init
            /\ CASE part = "dates" -> Z!DateInit
                 [] part = "pages" -> P!PagingInit
                 [] OTHER -> words = <<>>
            /\ outcome = <<>>

StorageStep == part = "storage" /\ Next
               /\ UNCHANGED <<part, mergeVars, parserVars, docVars, wordVars>>
MergeStep == part = "merge" /\ MergeNext /\ UNCHANGED <<part, storageVars, parserVars, docVars, wordVars>>
MarkupStep == part = "markup" /\ M!Next /\ UNCHANGED <<part, storageVars, mergeVars, docVars, wordVars>>
DocumentStep == /\ \/ part = "nodes" /\ T!Next
                   \/ part = "headlines" /\ H!Next
                   \/ part = "kinds" /\ K!RenderingNext
                   \/ part = "renderings" /\ S!RenderingNext
                /\ UNCHANGED <<part, storageVars, mergeVars, parserVars, wordVars>>
OldTextStep == /\ \/ part = "lists" /\ L!BBNext
                  \/ part = "codes" /\ C!BBNext
                  \/ part = "tags" /\ B!BBNext
               /\ UNCHANGED <<part, storageVars, mergeVars, parserVars>>
WordStep == /\ \/ part = "blocks" /\ O!Next
               \/ part = "operators" /\ O!ExprNext
               \/ part = "phrases" /\ E!ExprNext
               \/ part = "dates" /\ Z!DateNext
               \/ part = "pages" /\ P!PagingNext
            /\ UNCHANGED <<part, storageVars, mergeVars, parserVars, docVars>>
LineStep == part = "differences" /\ D!Next
            /\ UNCHANGED <<part, storageVars, mergeVars, parserVars, docVars, outcome>>

TextNext == StorageStep \/ MergeStep \/ MarkupStep \/ DocumentStep \/ OldTextStep \/ WordStep \/ LineStep

TextSpec == TextInit /\ [][TextNext]_textVars /\ WF_textVars(MergeStep)

\* A merge is the three-way merge where it reports no conflict, and it ends.
MergeKeepsEdits == /\ [](part = "merge" => CleanMergeIsThreeWay)
                   /\ part = "merge" => Terminates

\* The parser can handle every token where it meets it, and is inside the elements
\* the lexer has open.
ParserFollowsLexer == part = "markup" => M!NeverStuck /\ M!ParserFollowsLexer

\* The document has the texts, the headlines and the footnotes of its source, and is
\* written completely, as HTML and as docbook, now and when it is stored.  A text of the
\* old forum becomes markup with the same words, marks, items and lines.
DocumentsWhole == CASE part \in {"nodes", "headlines"} -> T!DocumentsWhole
                    [] part \in {"kinds", "renderings"} -> K!WrittenWhole
                    [] part \in {"lists", "codes", "tags"} -> B!ConvertedWhole
                    [] OTHER -> TRUE

\* A template shows what its author means, and fails or says otherwise where it is known to.
TemplatesMean == CASE part = "blocks" -> O!ShowsWhatItMeans
                   [] part \in {"operators", "phrases"} -> E!ExpressionsMean
                   [] OTHER -> TRUE

\* Differences and dates are shown as they are, and no list has a row twice or leaves one
\* out.
ShownTrue == CASE part = "differences" -> D!DiffIsTrue
               [] part = "dates" -> Z!DatesTrue
               [] part = "pages" -> P!PagingTrue
               [] OTHER -> TRUE
=============================================================================
