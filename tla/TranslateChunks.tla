--------------------------- MODULE TranslateChunks ---------------------------
(***************************************************************************)
(* How an article is cut for translation (translate/chunks.ts) and put     *)
(* together again (translate/openai.ts).  Pure functions.                  *)
(*                                                                         *)
(* A text is a sequence of words [id, len]; a line is [kind, words].  The  *)
(* kind is what the line predicates of the code recognise: "fence" is the  *)
(* bare fence that opens and closes, "open" one that names a language,     *)
(* "html" the first line of an HTML table and "htmlend" its last, "table"  *)
(* one that holds a whole HTML table, "deep" a line indented by two or     *)
(* more.  A line of prose ends a sentence.                                 *)
(***************************************************************************)
EXTENDS Integers, SequencesExt

CONSTANT MaxChars  \* what fits in one call

ASSUME MaxCharsIsPositive == MaxChars \in Nat \ {0}

LineKinds == {"blank", "image", "fence", "open", "heading", "hr", "html",
              "htmlend", "table", "row", "delim", "quote", "item", "deep", "prose"}

\* One character between two words, and between two lines.
lengthOf(words) ==
    IF words = <<>> THEN 0
    ELSE FoldLeft(LAMBDA n, w : n + w.len + 1, 0, words) - 1

wordsOf(lines) == FlattenSeq([i \in DOMAIN lines |-> lines[i].words])

textSize(lines) ==
    FoldLeft(LAMBDA n, line : n + lengthOf(line.words) + 1, 0, lines) - 1

(***************************************************************************)
(* atomicBlocks                                                            *)
(***************************************************************************)
KindAt(lines, i) == IF i \in DOMAIN lines THEN lines[i].kind ELSE "end"

isPipeTableStart(lines, i) ==
    KindAt(lines, i) = "row" /\ KindAt(lines, i + 1) = "delim"

startsBlock(lines, i) ==
    \/ KindAt(lines, i) \in {"image", "fence", "open", "heading", "hr", "html",
                             "table", "quote", "item"}
    \/ isPipeTableStart(lines, i)

\* The first line from i on of which Stops holds, or the end.
FirstFrom(lines, i, Stops(_)) ==
    CHOOSE j \in i..(Len(lines) + 1) :
        /\ j = Len(lines) + 1 \/ Stops(j)
        /\ \A h \in i..(j - 1) : ~Stops(h)

Past(lines, j) == IF j \in DOMAIN lines THEN j + 1 ELSE j

\* The line after the block that begins at line i.
blockEnd(lines, i) ==
    LET First(from, kinds) ==
            FirstFrom(lines, from, LAMBDA j : KindAt(lines, j) \in kinds)
        Rest(from, kinds) ==
            FirstFrom(lines, from, LAMBDA j : KindAt(lines, j) \notin kinds)
    IN  CASE KindAt(lines, i) \in {"image", "heading", "hr", "table"} -> i + 1
          [] KindAt(lines, i) \in {"fence", "open"} ->
                Past(lines, First(i + 1, {"fence"}))
          [] KindAt(lines, i) = "html" ->
                Past(lines, First(i + 1, {"htmlend", "table"}))
          [] isPipeTableStart(lines, i)    -> Rest(i + 2, {"row"})
          [] KindAt(lines, i) = "quote"    -> Rest(i, {"quote"})
          [] KindAt(lines, i) = "item"     -> Rest(i, {"item", "deep"})
          [] OTHER -> FirstFrom(lines, i + 1,
                        LAMBDA j : KindAt(lines, j) = "blank" \/ startsBlock(lines, j))

blockKind(lines, i) ==
    CASE startsBlock(lines, i) /\ KindAt(lines, i) = "row" -> "pipe"
      [] startsBlock(lines, i) /\ KindAt(lines, i) # "row" -> KindAt(lines, i)
      [] OTHER -> "prose"

atomicBlocks(lines) ==
    LET from[i \in 1..(Len(lines) + 1)] ==
            IF i > Len(lines) THEN <<>>
            ELSE IF lines[i].kind = "blank" THEN from[i + 1]
            ELSE LET end == blockEnd(lines, i)
                 IN  <<[kind  |-> blockKind(lines, i),
                        lines |-> SubSeq(lines, i, end - 1)]>> \o from[end]
    IN  from[1]

(***************************************************************************)
(* splitOversized: a list between items, a quote between lines, prose      *)
(* between sentences, and a sentence at a space or anywhere.               *)
(***************************************************************************)
sizeOf(block) == textSize(block.lines)

unsplittable(block) ==
    block.kind \in {"image", "fence", "open", "heading", "hr", "html", "table", "pipe"}

\* Pieces are texts; the separator is one character, as between words.
packing(pieces) ==
    LET step(done, piece) ==
            IF done.now = <<>> THEN [done EXCEPT !.now = piece]
            ELSE IF lengthOf(done.now \o piece) > MaxChars
            THEN [packed |-> Append(done.packed, done.now), now |-> piece]
            ELSE [done EXCEPT !.now = @ \o piece]
    IN  FoldLeft(step, [packed |-> <<>>, now |-> <<>>], pieces)

\* Slip: what is left at the end is not packed.
packWithoutLast(pieces) == packing(pieces).packed

lastPacked(done) == IF done.now = <<>> THEN done.packed ELSE Append(done.packed, done.now)

packPieces(pieces) == lastPacked(packing(pieces))

listItems(lines) ==
    LET starts == SetToSortSeq({i \in DOMAIN lines : lines[i].kind = "item"}, <)
    IN  [n \in DOMAIN starts |->
            wordsOf(SubSeq(lines, starts[n],
                IF n = Len(starts) THEN Len(lines) ELSE starts[n + 1] - 1))]

\* The cut is at the last space that fits, unless that leaves half empty.
hardSplit(text) ==
    LET Fits(rest) == {k \in 0..(Len(rest) - 1) : k > 0 /\ lengthOf(SubSeq(rest, 1, k)) <= MaxChars}
        HardWord(rest) ==   \* the word the cut at MaxChars goes through
            CHOOSE k \in DOMAIN rest :
                /\ lengthOf(SubSeq(rest, 1, k)) > MaxChars
                /\ k > 1 => lengthOf(SubSeq(rest, 1, k - 1)) <= MaxChars
        Taken(rest, k) == IF k = 1 THEN 0 ELSE lengthOf(SubSeq(rest, 1, k - 1)) + 1
        Piece(w, n)    == IF n > 0 THEN <<[w EXCEPT !.len = n]>> ELSE <<>>
        cut[rest \in Seq([id: Nat, len: Nat])] ==
            IF lengthOf(rest) <= MaxChars THEN <<rest>>
            ELSE LET fits == Fits(rest)
                     last == IF fits = {} THEN 0 ELSE Max(fits)
                 IN  IF last > 0 /\ lengthOf(SubSeq(rest, 1, last)) >= MaxChars \div 2
                     THEN <<SubSeq(rest, 1, last)>> \o cut[SubSeq(rest, last + 1, Len(rest))]
                     ELSE LET k    == HardWord(rest)
                              head == MaxChars - Taken(rest, k)
                          IN  <<SubSeq(rest, 1, k - 1) \o Piece(rest[k], head)>>
                              \o cut[Piece(rest[k], rest[k].len - head)
                                     \o SubSeq(rest, k + 1, Len(rest))]
    IN  cut[text]

splitProse(lines) ==
    LET pieces == packPieces([i \in DOMAIN lines |-> lines[i].words])
    IN  FlattenSeq([p \in DOMAIN pieces |->
            IF lengthOf(pieces[p]) <= MaxChars THEN <<pieces[p]>>
            ELSE hardSplit(pieces[p])])

splitOversized(block) ==
    LET Pieces(texts) == [i \in DOMAIN texts |->
            [kind |-> block.kind, lines |-> <<[kind |-> block.kind, words |-> texts[i]]>>]]
    IN  IF sizeOf(block) <= MaxChars \/ unsplittable(block) THEN <<block>>
        ELSE CASE block.kind = "item"  -> Pieces(packPieces(listItems(block.lines)))
               [] block.kind = "quote" -> Pieces(packPieces(
                        [i \in DOMAIN block.lines |-> block.lines[i].words]))
               [] OTHER -> Pieces(splitProse(block.lines))

(***************************************************************************)
(* packBlocks: a heading goes with what follows it, if both fit.           *)
(***************************************************************************)
chunkSize(blocks) ==
    IF blocks = <<>> THEN 0
    ELSE FoldLeft(LAMBDA n, b : n + sizeOf(b) + 2, 0, blocks) - 2

Overflows(current, block) ==
    current # <<>> /\ chunkSize(Append(current, block)) > MaxChars

flush(done) ==
    IF done.now = <<>> THEN done
    ELSE [chunks |-> Append(done.chunks, done.now), now |-> <<>>]

\* The heading that a full chunk ends with opens the next one.
carryHeading(done) ==
    LET n == Len(done.now)
    IN  IF n > 1 /\ done.now[n].kind = "heading"
        THEN [chunks |-> Append(done.chunks, Front(done.now)), now |-> <<done.now[n]>>]
        ELSE flush(done)

makeRoom(done, block) ==
    IF Overflows(done.now, block) THEN carryHeading(done) ELSE done

flushIfFull(done, block) == IF Overflows(done.now, block) THEN flush(done) ELSE done

packBlock(done, block) ==
    [flushIfFull(makeRoom(done, block), block) EXCEPT !.now = Append(@, block)]

packBlocks(blocks) ==
    flush(FoldLeft(packBlock, [chunks |-> <<>>, now |-> <<>>], blocks)).chunks

\* A text that fits is one chunk as it stands.
splitMarkdownForTranslation(lines) ==
    LET whole == <<<<[kind |-> "whole", lines |-> lines]>>>>
        Split(blocks)    == [b \in DOMAIN blocks |-> splitOversized(blocks[b])]
        OrWhole(chunks) == IF chunks = <<>> THEN whole ELSE chunks
    IN  IF textSize(lines) <= MaxChars THEN whole
        ELSE OrWhole(packBlocks(FlattenSeq(Split(atomicBlocks(lines)))))

(***************************************************************************)
(* The call (requestTranslatedMarkdown): an answer may be refused, late or *)
(* cut off; it may hold no message; the message may be no JSON, or JSON in *)
(* half a fence; and a field may be empty.  A count that is no number of   *)
(* tokens is a negative one here.                                          *)
(***************************************************************************)
tokenCount(n) == IF n \in Nat THEN n ELSE 0

ZeroUsage == [prompt |-> 0, completion |-> 0]

readOpenAiChatUsage(answer) ==
    [prompt     |-> tokenCount(answer.usage.prompt),
     completion |-> tokenCount(answer.usage.completion)]

addOpenAiUsage(left, right) ==
    [prompt     |-> tokenCount(left.prompt) + tokenCount(right.prompt),
     completion |-> tokenCount(left.completion) + tokenCount(right.completion)]

parseModelJson(message) ==
    /\ message.form \in {"json", "fenced"}
    /\ message.title # "" /\ message.content # ""

requestTranslatedMarkdown(answer) ==
    CASE answer.arrives # "ok"            -> [ok |-> FALSE, reason |-> answer.arrives]
      [] answer.messages = <<>>           -> [ok |-> FALSE, reason |-> "no content"]
      [] answer.messages # <<>> /\ ~parseModelJson(answer.messages[1]) ->
            [ok |-> FALSE, reason |-> "not JSON"]
      [] OTHER ->
            [ok |-> TRUE, markdown |-> answer.messages[1].content,
             usage |-> readOpenAiChatUsage(answer)]

\* A text that is no article once it is rendered and cleaned.
articleFromMarkdown(texts) ==
    IF ToSet(texts) \subseteq {"void"} THEN [ok |-> FALSE, reason |-> "empty"]
    ELSE [ok |-> TRUE, texts |-> texts]

(***************************************************************************)
(* translateArticle: every chunk in turn; the first that fails ends it,    *)
(* and the tokens of the sections before stay on record.                   *)
(***************************************************************************)
nextSection(done, answer) ==
    LET result == requestTranslatedMarkdown(answer)
    IN  IF done.result.ok = FALSE THEN done
        ELSE IF ~result.ok THEN [done EXCEPT !.result = result]
        ELSE [done EXCEPT !.usage = addOpenAiUsage(@, result.usage),
                          !.result.texts = Append(@, result.markdown)]

translateSections(chunks, answers) ==
    LET done == FoldLeft(nextSection,
                    [usage |-> ZeroUsage, result |-> [ok |-> TRUE, texts |-> <<>>]],
                    [i \in DOMAIN chunks |-> answers[i]])
    IN  IF done.result.ok
        THEN [done EXCEPT !.result = articleFromMarkdown(done.result.texts)]
        ELSE done

translateArticle(article, lines, answers) ==
    LET Unasked(result) == [usage |-> ZeroUsage, result |-> result]
        Failed(reason)  == Unasked([ok |-> FALSE, reason |-> reason])
    IN  CASE wordsOf(lines) = <<>> -> Failed("empty")
          [] wordsOf(lines) # <<>> /\ article.language = "ja" ->
                Unasked(articleFromMarkdown(<<"source">>))
          [] wordsOf(lines) # <<>> /\ article.language # "ja" /\ article.key = "" ->
                Failed("no key")
          [] wordsOf(lines) # <<>> /\ article.language # "ja" /\ article.key # ""
             /\ textSize(lines) > article.limit -> Failed("too long")
          [] OTHER ->
                translateSections(splitMarkdownForTranslation(lines), answers)
=============================================================================
