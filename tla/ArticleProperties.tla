------------------------- MODULE ArticleProperties --------------------------
(***************************************************************************)
(* What becomes of an article's text.  A module of its own, because a page *)
(* is a tree, ArticleText descends it with recursive operators, and the    *)
(* provers do not take a module that reaches those.                        *)
(***************************************************************************)
EXTENDS PartsProperties

\* Both of ArticleText and TranslateChunks read the blocks of Markdown.
Markdown == INSTANCE ArticleText

IsWord(t) == t.k = "w"

\* The words of s, with whether they are code and whether they are quoted.
Spoken(s, around) ==
    LET words == SelectSeq(s, IsWord)
    IN  [i \in DOMAIN words |-> [id     |-> words[i].id,
                                code   |-> "pre" \in around,
                                quoted |-> "blockquote" \in around]]

\* The words of what is not dropped, as the page has them.
RECURSIVE Told(_, _)
Told(el, around) ==
    LET within == around \union {el.tag} IN
    IF el.tag \in {"#text", "img", "pixel"} THEN Spoken(el.text, around)
    ELSE IF Markdown!shouldDropElement(el, "pre" \in within) THEN <<>>
    ELSE FlattenSeq([i \in DOMAIN el.kids |-> Told(el.kids[i], within)])

\* A caption that only repeats what its image says is told once.
ToldOnce(words) ==
    Markdown!Picked(words, {i \in DOMAIN words : i = 1 \/ words[i] # words[i - 1]})

ToldBy(nodes) == ToldOnce(FlattenSeq([i \in DOMAIN nodes |-> Told(nodes[i], {})]))

Read(blocks) ==
    FlattenSeq([i \in DOMAIN blocks |->
        Spoken(blocks[i].text,
               {blocks[i].tag} \union (IF blocks[i].quoted THEN {"blockquote"} ELSE {}))])

Ids(words) == [i \in DOMAIN words |-> words[i].id]

HasMarks(blocks) ==
    \E i \in DOMAIN blocks : \E j \in DOMAIN blocks[i].text :
        blocks[i].tag # "pre" /\ ~IsWord(blocks[i].text[j])

StartsWithImage(el) ==
    /\ el.kids # <<>>
    /\ el.kids[1].tag = "img" /\ el.kids[1].text = <<>>

HasWithin(el, tags) == \E i \in DOMAIN Markdown!Within(el) : Markdown!Within(el)[i].tag \in tags

InLine(el) == el.tag \in {"#text", "a"} /\ Told(el, {}) # <<>>

\* Blocks within an item of a list, an image at the beginning of an item
\* or a heading, an image with words within a link, a table in a line.
AwkwardForms(nodes) ==
    LET all == FlattenSeq([i \in DOMAIN nodes |-> Markdown!Within(nodes[i])])
        beside(kids) == \E i \in 2..Len(kids) :
            \/ InLine(kids[i - 1]) /\ kids[i].tag = "table"
            \/ kids[i - 1].tag = "table" /\ InLine(kids[i])
    IN  \/ \E i \in DOMAIN all :
            LET el == all[i] IN
            \/ el.tag = "li" /\ HasWithin(el, {"pre", "blockquote", "h", "table"})
            \/ el.tag \in {"li", "h"} /\ StartsWithImage(el)
            \/ el.tag = "a" /\ HasWithin(el, {"img"}) /\ Told(el, {}) # <<>>
            \/ beside(el.kids)
        \/ beside(nodes)

WordsOfPage(page) ==
    LET clean == Markdown!sanitizeContentHtml(page)
        told  == ToldBy(page)
        shown == Markdown!markdownToHtml(Markdown!htmlToMarkdown(clean))
    IN  /\ ToldBy(clean) = told
        /\ Ids(Read(shown)) = Ids(told)
        /\ ~AwkwardForms(clean) => Read(shown) = told /\ ~HasMarks(shown)

\* A line with more cells than one above it.
WideRow(lines, i) ==
    /\ Markdown!row(lines[i])
    /\ \E h \in 1..(i - 1) : /\ Markdown!row(lines[h])
                             /\ Len(Markdown!Cells(lines[i])) > Len(Markdown!Cells(lines[h]))

WordsOfAnswer(lines) ==
    LET shown   == Markdown!blocksOf(lines)
        read    == Ids(Read(shown))
        written == Ids(Spoken(FlattenSeq(lines), {}))
        stuck   == \E i \in DOMAIN shown : shown[i].tag = "stuck"
    IN  /\ read = SelectSeq(written, LAMBDA id : Contains(read, id))
        /\ stuck => \E i \in DOMAIN lines : Markdown!HasSeparator(lines[i])
        /\ ~stuck => \A i \in DOMAIN lines :
              WideRow(lines, i) \/ \A j \in DOMAIN lines[i] :
                  IsWord(lines[i][j]) => Contains(read, lines[i][j].id)

\* No word of an article is lost, said twice or moved on its way from the
\* page through Markdown to the EPUB, whatever stands beside it; what was
\* code or quoted is so still, and nothing else is; no mark of the Markdown
\* is left to read.  Of the pages with AwkwardForms only the words are sure.
\* A translation is read to its end and in its order; missing are a cell
\* more than its table has columns, the ticks of an axis and what follows a
\* separator that no block takes (sanitizeContentHtml, htmlToMarkdown,
\* markdownToHtml).
ArticleKeepsItsWords ==
    /\ part = "page" => WordsOfPage(sample)
    /\ part = "answer" => WordsOfAnswer(sample)
=============================================================================
