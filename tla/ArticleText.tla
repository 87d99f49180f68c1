----------------------------- MODULE ArticleText -----------------------------
(***************************************************************************)
(* What becomes of the words of an article between the page and the EPUB   *)
(* (extract/sanitize-html.ts): the HTML is cleaned, turned into Markdown   *)
(* for the translator, and the Markdown is turned into HTML again.  Pure   *)
(* functions; ArticleProperties has an instance of this module.            *)
(*                                                                         *)
(* A text is a sequence of tokens [k, id]: words, and whatever Markdown    *)
(* may give a meaning to.  "in" is two spaces, "tick" the label of a       *)
(* chart's axis, "img" the placeholder of an image, "code" a fence, "|-|"  *)
(* the line below the header of a table, "ls" what breaks a line and is no *)
(* newline (U+2028, a carriage return).  The markers of emphasis and of    *)
(* code in a line are left out: they stay in the line with the words they  *)
(* are about.  An element is [tag, text, kids, looks]; the text is that of *)
(* a "#text", or what an image says of itself.  A "pixel" is an image that *)
(* is not taken over, embeddableImageUrl being null.                       *)
(***************************************************************************)
EXTENDS Integers, SequencesExt

CONSTANT MinTicks  \* a list of so many ticks is the axis of a chart

Mark(k) == [k |-> k, id |-> 0]
NewLine == Mark("nl")
Indent  == Mark("in")
Tick    == Mark("tick")

IsSpace(t) == t.k \in {"nl", "in", "ls"}

Solid(s) == {i \in DOMAIN s : ~IsSpace(s[i])}

Trim(s) == IF Solid(s) = {} THEN <<>> ELSE SubSeq(s, Min(Solid(s)), Max(Solid(s)))

TrimEnd(s) == SubSeq(s, 1, Max({0} \union Solid(s)))

collapseText(s) == SelectSeq(s, LAMBDA t : ~IsSpace(t))

Joined(seqs) == FlattenSeq(seqs)

Picked(s, I) == Joined([i \in DOMAIN s |-> IF i \in I THEN <<s[i]>> ELSE <<>>])

\* The parts of s between its marks k.
Split(s, k) ==
    LET step(parts, t) == IF t.k = k THEN Append(parts, <<>>)
                          ELSE [parts EXCEPT ![Len(parts)] = Append(@, t)]
    IN  FoldLeft(step, << <<>> >>, s)

(***************************************************************************)
(* What is dropped                                                         *)
(***************************************************************************)
RECURSIVE Within(_)
Within(el) == <<el>> \o Joined([i \in DOMAIN el.kids |-> Within(el.kids[i])])

TextOf(el) ==
    LET all == Within(el)
    IN  Joined([i \in DOMAIN all |-> IF all[i].tag = "#text" THEN all[i].text ELSE <<>>])

isChartTickItemList(items) ==
    /\ Len(items) >= MinTicks
    /\ \A i \in DOMAIN items : items[i] # <<>> /\ \A j \in DOMAIN items[i] : items[i][j] = Tick

isChartTickList(el) ==
    /\ el.tag \in {"ul", "ol"}
    /\ LET items == SelectSeq(el.kids, LAMBDA kid : kid.tag = "li")
       IN  isChartTickItemList([i \in DOMAIN items |-> TextOf(items[i])])

isLoneChartTick(s) == Trim(s) = <<Tick>>

\* Scripts, navigation and what is hidden go; what only looks like them
\* (by its class, its links, its phrases) stays in code.
shouldDropElement(el, inCode) ==
    \/ el.looks = "hidden"
    \/ /\ ~inCode
       /\ \/ el.looks = "chrome"
          \/ isChartTickList(el)
          \/ el.tag \in {"p", "li"} /\ isLoneChartTick(TextOf(el))

Coded(el, inCode) == inCode \/ el.tag \in {"pre", "code"}

(***************************************************************************)
(* sanitizeContentHtml                                                     *)
(***************************************************************************)
Blocks   == {"p", "h", "ul", "ol", "pre", "blockquote", "table", "figure", "hr"}
Wrappers == {"div", "span"}
OnlyFull == {"figure", "figcaption", "ul", "ol", "p"}

Element(tag, kids) == [tag |-> tag, text |-> <<>>, kids |-> kids, looks |-> "-"]
TextNode(s) == [tag |-> "#text", text |-> s, kids |-> <<>>, looks |-> "-"]
TextUnlessEmpty(s) == IF s = <<>> THEN <<>> ELSE <<TextNode(s)>>

BlankNodes(nodes) ==
    \A i \in DOMAIN nodes : nodes[i].tag = "#text" /\ Trim(nodes[i].text) = <<>>

ShowsNothing(nodes) ==
    LET all == Joined([i \in DOMAIN nodes |-> Within(nodes[i])])
    IN  \A i \in DOMAIN all : all[i].tag # "img" /\ Trim(all[i].text) = <<>>

\* A div becomes a paragraph, unless it has blocks of its own.
unwrapped(el, inner) ==
    IF BlankNodes(inner) THEN <<>>
    ELSE IF el.tag = "span" \/ \E i \in DOMAIN el.kids : el.kids[i].tag \in Blocks
    THEN inner
    ELSE <<Element("p", inner)>>

keptElement(el, inner) ==
    CASE el.tag \in {"br", "hr"} -> <<Element(el.tag, <<>>)>>
      [] el.tag \in OnlyFull     -> IF ShowsNothing(inner) THEN <<>>
                                    ELSE <<Element(el.tag, inner)>>
      [] OTHER                   -> <<Element(el.tag, inner)>>

RECURSIVE htmlNode(_, _)
htmlNode(el, inCode) ==
    LET inner == Joined([i \in DOMAIN el.kids |-> htmlNode(el.kids[i], Coded(el, inCode))]) IN
    IF el.tag = "#text" THEN <<TextNode(IF inCode THEN el.text ELSE collapseText(el.text))>>
    ELSE IF shouldDropElement(el, Coded(el, inCode)) THEN <<>>
    ELSE CASE el.tag = "img"       -> <<el>>
           [] el.tag = "pixel"     -> TextUnlessEmpty(el.text)
           [] el.tag \in Wrappers  -> unwrapped(el, inner)
           [] OTHER                -> keptElement(el, inner)

sanitizeContentHtml(nodes) == Joined([i \in DOMAIN nodes |-> htmlNode(nodes[i], FALSE)])

(***************************************************************************)
(* htmlToMarkdown                                                          *)
(***************************************************************************)
\* Blanks before the end of a line and a third newline in a row go.
normalizeBlocks(s) ==
    LET atEnd(i) == /\ s[i] = Indent
                    /\ \E j \in (i + 1)..Len(s) :
                          s[j] = NewLine /\ \A m \in i..(j - 1) : s[m] = Indent
        tidy     == Picked(s, {i \in DOMAIN s : ~atEnd(i)})
        extra(i) == i > 2 /\ \A m \in (i - 2)..i : tidy[m] = NewLine
    IN  Trim(Picked(tidy, {i \in DOMAIN tidy : ~extra(i)}))

\* Slip: only the first line of a quotation is marked.
quoteFirst(s) == <<Mark(">")>> \o s

quoted(s) ==
    <<Mark(">")>> \o Joined([i \in DOMAIN s |->
        IF s[i] = NewLine THEN <<NewLine, Mark(">")>> ELSE <<s[i]>>])

indented(s) ==
    Joined([i \in DOMAIN s |-> IF s[i] = NewLine THEN <<NewLine, Indent>> ELSE <<s[i]>>])

Apart(s) == <<NewLine, NewLine>> \o s \o <<NewLine, NewLine>>
ApartUnlessEmpty(s) == IF s = <<>> THEN <<>> ELSE Apart(s)

ImageWrappers == {"div", "span", "figure", "p"}

\* What the image says of itself that is all there is in el.
RECURSIVE thinImageAlt(_)
thinImageAlt(el) ==
    CASE el.tag = "img" -> el.text
      [] el.tag \in ImageWrappers /\ Len(el.kids) = 1 -> thinImageAlt(el.kids[1])
      [] OTHER -> <<>>

\* What stands next to the image in cleaned HTML repeats it.
isDuplicateCaption(kids, i) ==
    /\ i > 1
    /\ thinImageAlt(kids[i - 1]) # <<>>
    /\ collapseText(TextOf(kids[i])) = thinImageAlt(kids[i - 1])

imageMarkdown(el) ==
    Apart((IF el.text = <<>> THEN <<>> ELSE el.text \o <<NewLine, NewLine>>) \o <<Mark("img")>>)

withoutLastNewLine(s) == IF s # <<>> /\ Last(s) = NewLine THEN Front(s) ELSE s

\* A table stays HTML, on one line if there is no code in it.
tableMarkdown(el, inCode) ==
    LET all   == htmlNode(el, inCode)
        shown(n) == IF n.tag = "img" THEN <<Mark("img")>> ELSE n.text
        nodes == Joined([i \in DOMAIN all |-> Within(all[i])])
    IN  IF all = <<>> THEN <<>>
        ELSE <<Mark("<table>")>> \o Joined([i \in DOMAIN nodes |-> shown(nodes[i])])
             \o <<Mark("</table>")>>

linkMarkdown(inner) ==
    CASE inner = <<>>            -> <<>>
      [] inner = <<Mark("img")>> -> Apart(inner)
      [] OTHER                   -> <<Mark("[")>> \o inner \o <<Mark("](")>>

\* The Markdown of an element, given that of its children.
elementMarkdown(el, inner, list) ==
    CASE el.tag = "br" -> <<NewLine>>
      [] el.tag = "hr" -> Apart(<<Mark("---")>>)
      [] el.tag = "h"  -> IF Trim(inner) = <<>> THEN <<>>
                          ELSE Apart(<<Mark("#")>> \o Trim(inner))
      [] el.tag \in {"p", "figcaption"} -> ApartUnlessEmpty(Trim(inner))
      [] el.tag = "blockquote" -> IF Trim(inner) = <<>> THEN <<>> ELSE Apart(quoted(Trim(inner)))
      [] el.tag = "pre" -> Apart(<<Mark("code"), NewLine>> \o withoutLastNewLine(inner)
                                 \o <<NewLine, Mark("code")>>)
      [] el.tag \in {"ul", "ol"} -> ApartUnlessEmpty(TrimEnd(inner))
      [] el.tag = "li" -> <<Mark(IF list = "ol" THEN "1." ELSE "-")>>
                          \o indented(Trim(inner)) \o <<NewLine>>
      [] el.tag = "a" -> linkMarkdown(Trim(inner))
      [] OTHER -> inner

listWithin(el, list) ==
    CASE el.tag \in {"ul", "ol"}                              -> el.tag
      [] el.tag \in {"h", "p", "figcaption", "blockquote",
                     "pre", "code", "li"}                     -> "-"
      [] OTHER                                                -> list

RECURSIVE markdownNode(_, _, _)
markdownChildren(kids, inCode, list) ==
    Joined([i \in DOMAIN kids |->
        IF isDuplicateCaption(kids, i) THEN <<>> ELSE markdownNode(kids[i], inCode, list)])

markdownNode(el, inCode, list) ==
    IF el.tag = "#text" THEN IF inCode THEN el.text ELSE collapseText(el.text)
    ELSE IF shouldDropElement(el, Coded(el, inCode)) THEN <<>>
    ELSE CASE el.tag = "img"   -> imageMarkdown(el)
           [] el.tag = "pixel" -> el.text
           [] el.tag = "table" -> tableMarkdown(el, inCode)
           [] OTHER -> elementMarkdown(el,
                   markdownChildren(el.kids, Coded(el, inCode), listWithin(el, list)), list)

htmlToMarkdown(nodes) == normalizeBlocks(markdownChildren(nodes, FALSE, "-"))

(***************************************************************************)
(* markdownToHtml.  A line is a sequence of tokens without "nl".           *)
(***************************************************************************)
linesOf(s) == Split(s, "nl")

StartsWith(s, kinds) == s # <<>> /\ s[1].k \in kinds

HasSeparator(line) == \E i \in DOMAIN line : line[i].k = "ls"

\* The line without the blanks that may stand before an item.
Outdented(line) == IF StartsWith(line, {"in"}) THEN Tail(line) ELSE line

blank(line)     == Trim(line) = <<>>
fence(line)     == StartsWith(line, {"code"}) /\ blank(Tail(line))
heading(line)   == StartsWith(line, {"#"}) /\ ~blank(Tail(line))
rule(line)      == Trim(line) = <<Mark("---")>>
htmlTable(line) == StartsWith(Trim(line), {"<table>"})
quote(line)     == StartsWith(line, {">"})
item(line, kinds) ==
    StartsWith(Outdented(line), kinds) /\ ~blank(Tail(Outdented(line)))
deep(line)      == StartsWith(line, {"in"}) /\ ~blank(line)

\* "." matches no line separator: such a line begins a block, and no
\* block takes it.
Matched(line) == ~HasSeparator(line)

\* x3ImageFromLine: an image, or a link around nothing but one.
linkedImage(line) ==
    /\ Len(line) > 2
    /\ <<line[1].k, line[2].k, Last(line).k>> = <<"[", "img", "](">>

imageLine(line) == StartsWith(Trim(line), {"img"}) \/ linkedImage(Trim(line))

besideImage(line) == IF linkedImage(line) THEN SubSeq(line, 3, Len(line) - 1) ELSE Tail(line)

\* splitTableRow
Cells(line) ==
    LET bare  == Trim(line)
        from  == IF bare[1].k = "|" THEN 2 ELSE 1
        to    == IF Last(bare).k = "|" THEN Len(bare) - 1 ELSE Len(bare)
    IN  Split(SubSeq(bare, from, to), "|")

delimiter(line) == Trim(line) = <<Mark("|-|")>>
row(line)       == \E i \in DOMAIN line : line[i].k = "|"

isPipeTableStart(lines, i) == i < Len(lines) /\ row(lines[i]) /\ delimiter(lines[i + 1])

isTableContinueRow(line) ==
    /\ row(line)
    /\ ~imageLine(line) /\ ~heading(line) /\ ~htmlTable(line)
    /\ ~quote(line) /\ ~item(line, {"-", "1."})

startsBlock(lines, i) ==
    \/ imageLine(lines[i]) \/ fence(lines[i]) \/ heading(lines[i]) \/ rule(lines[i])
    \/ htmlTable(lines[i]) \/ isPipeTableStart(lines, i)
    \/ quote(lines[i])     \/ item(lines[i], {"-", "1."})

From(lines, i) == SubSeq(lines, i, Len(lines))

\* How many of the lines from the i-th on satisfy P.
Leading(lines, i, P(_)) ==
    CHOOSE n \in 0..(Len(lines) - i + 1) :
        /\ i + n <= Len(lines) => ~P(i + n)
        /\ \A j \in i..(i + n - 1) : P(j)

(***************************************************************************)
(* stripChartTickMarkdown                                                  *)
(***************************************************************************)
listItem(line) == Matched(line) /\ StartsWith(Outdented(line), {"-", "1."})

tickItems(lines) ==
    /\ \A i \in DOMAIN lines : listItem(lines[i])
    /\ isChartTickItemList([i \in DOMAIN lines |-> Trim(Tail(Outdented(lines[i])))])

\* The lines of an axis: items to the end of their list.
onAxis(lines, i) ==
    /\ listItem(lines[i])
    /\ \E first \in 1..i, last \in i..Len(lines) :
          /\ tickItems(SubSeq(lines, first, last))
          /\ last < Len(lines) => ~listItem(lines[last + 1])

stripChartTickMarkdown(lines) ==
    Picked(lines, {i \in DOMAIN lines : ~onAxis(lines, i) /\ ~isLoneChartTick(lines[i])})

(***************************************************************************)
(* The block with which the lines begin, and how many of them it takes.    *)
(* A block is [tag, text, quoted]; those of a quotation stand for it.      *)
(***************************************************************************)
Block(tag, text) == [tag |-> tag, text |-> text, quoted |-> FALSE]
Quotation(blocks) == [i \in DOMAIN blocks |-> [blocks[i] EXCEPT !.quoted = TRUE]]
Taking(n, blocks) == [taken |-> n, blocks |-> blocks]

\* The markers of a link go where both are.
inlineMarkdown(s) ==
    LET has(k, I) == \E j \in I : s[j].k = k
    IN  Picked(s, {i \in DOMAIN s : /\ s[i].k = "["  => ~has("](", (i + 1)..Len(s))
                                    /\ s[i].k = "](" => ~has("[", 1..(i - 1))})

Inline(tag, text) == Block(tag, inlineMarkdown(Trim(text)))

imageBlock(line) ==
    LET rest == Trim(besideImage(Trim(line)))
    IN  Taking(1, <<Block("img", <<>>)>> \o
                  (IF rest = <<>> THEN <<>> ELSE <<Inline("p", rest)>>))

\* Code goes on to the next fence, or to the end.
codeBlock(lines) ==
    LET n == Leading(lines, 2, LAMBDA i : ~fence(lines[i]))
    IN  Taking(Min({n + 2, Len(lines)}), <<Block("pre", Joined(SubSeq(lines, 2, n + 1)))>>)

\* An HTML table goes on to the line where it ends, or to the end.
tableBlock(lines) ==
    LET ends == {i \in DOMAIN lines : \E j \in DOMAIN lines[i] : lines[i][j].k = "</table>"}
        n    == Min({Len(lines)} \union ends)
    IN  Taking(n, <<Block("table", SelectSeq(Joined(SubSeq(lines, 1, n)),
                        LAMBDA t : t.k \notin {"<table>", "</table>"} /\ ~IsSpace(t)))>>)

\* A row has as many cells as the header.
pipeTableBlock(lines) ==
    LET n    == Leading(lines, 3, LAMBDA i : isTableContinueRow(lines[i]))
        rows == <<lines[1]>> \o SubSeq(lines, 3, n + 2)
        cell(i, c) == IF c \in DOMAIN Cells(rows[i])
                      THEN <<Inline("td", Cells(rows[i])[c])>> ELSE <<>>
    IN  Taking(n + 2, Joined([i \in DOMAIN rows |->
                          Joined([c \in DOMAIN Cells(lines[1]) |-> cell(i, c)])]))

\* Deep lines go on with the item above them.
listBlock(lines) ==
    LET kind == {Outdented(lines[1])[1].k}
        itemRe(line) == Matched(line) /\ StartsWith(Outdented(line), kind)
        goesOn(i) == ~imageLine(lines[i]) /\ (itemRe(lines[i]) \/ deep(lines[i]))
        n == IF itemRe(lines[1]) THEN Leading(lines, 1, goesOn) ELSE 0
        gather(items, line) ==
            IF itemRe(line) THEN Append(items, Tail(Outdented(line)))
            ELSE [items EXCEPT ![Len(items)] = @ \o Trim(line)]
        items == FoldLeft(gather, <<>>, SubSeq(lines, 1, n))
    IN  Taking(n, [i \in DOMAIN items |-> Inline("li", items[i])])

paragraph(lines) ==
    LET goesOn(i) == ~blank(lines[i]) /\ ~startsBlock(lines, i)
        n == Leading(lines, 1, goesOn)
    IN  Taking(n, <<Inline("p", Joined(SubSeq(lines, 1, n)))>>)

\* Where a line that begins a block is taken by none, the code does not
\* come to an end: it is read no further.
Stuck == Block("stuck", <<>>)

RECURSIVE blocksOf(_)
nextBlock(lines) ==
    CASE blank(lines[1])         -> Taking(1, <<>>)
      [] imageLine(lines[1])     -> imageBlock(lines[1])
      [] fence(lines[1])         -> codeBlock(lines)
      [] StartsWith(lines[1], {"#"}) /\ Matched(lines[1])
                                 -> Taking(1, <<Inline("h", Tail(lines[1]))>>)
      [] rule(lines[1])          -> Taking(1, <<Block("hr", <<>>)>>)
      [] htmlTable(lines[1])     -> tableBlock(lines)
      [] isPipeTableStart(lines, 1) -> pipeTableBlock(lines)
      [] quote(lines[1])         ->
            LET n == Leading(lines, 1, LAMBDA i : quote(lines[i]))
            IN  Taking(n, Quotation(blocksOf([i \in 1..n |-> Tail(lines[i])])))
      [] item(lines[1], {"-", "1."}) -> listBlock(lines)
      [] OTHER                   -> paragraph(lines)

RECURSIVE markdownBlocks(_)
markdownBlocks(lines) ==
    IF lines = <<>> THEN <<>>
    ELSE LET next == nextBlock(lines)
         IN  IF next.taken = 0 THEN <<Stuck>>
             ELSE next.blocks \o markdownBlocks(From(lines, next.taken + 1))

blocksOf(lines) == markdownBlocks(stripChartTickMarkdown(lines))

markdownToHtml(markdown) == blocksOf(linesOf(markdown))
=============================================================================
