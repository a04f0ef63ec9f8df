------------------------------- MODULE Document -------------------------------
(***************************************************************************)
(* From GROBID's TEI to the chunks of an index: GrobidTeiBlockExtractor    *)
(* and DefaultBlockChunker.                                                *)
(*                                                                         *)
(* A text is the sequence of its sentences and a sentence is its length:   *)
(* white space is one character between two sentences and nowhere else.    *)
(* A sentence of the TEI is [len |-> m, ref |-> r]: m characters, r of     *)
(* them in <ref> elements.  An element of a div is a sequence of texts:    *)
(* the items of a list; of a formula its own text, its <label> and its     *)
(* other children one by one; of a figure its figDesc and the rest; of any *)
(* other element all the text there is in it.  A block is a span of a      *)
(* text, and knows where in the paper that text is: src is                 *)
(* <<div, child, item>>, and child is 0 for the heading of a div.          *)
(***************************************************************************)
EXTENDS Integers, FiniteSets, Sequences, SequencesExt

CONSTANTS
    Bodies,      \* the TEI bodies a paper may have, each the sequence of its divs
    MaxChars,    \* CHUNKER_MAX_CHARS
    OverlapChars,\* CHUNKER_OVERLAP
    None

ASSUME DocumentAssumption ==
    /\ MaxChars \in Nat \ {0}
    /\ OverlapChars \in Nat
    /\ None \notin Nat

Sentence == [len : Nat \ {0}, ref : Nat]

Tags == {"p", "formula", "table", "figure", "list", "note", "footnote", "bibl", "other", "div"}

(* Elements come in document order, so a div is before the divs in it.     *)
ASSUME BodiesAssumption ==
    \A b \in Bodies :
        /\ b \in Seq([head : Seq(Sentence), isRef : BOOLEAN,
                      kids : Seq([tag : Tags, texts : Seq(Seq(Sentence)), label : Nat, div : Nat])])
        /\ \A d \in DOMAIN b : \A k \in DOMAIN b[d].kids :
              LET kid == b[d].kids[k]
              IN /\ kid.tag = "div" => kid.div \in (d + 1)..Len(b)
                 /\ kid.tag = "formula" => Len(kid.texts) >= 2
                 /\ kid.tag = "figure" => kid.texts # <<>>
                 /\ kid.tag \notin {"div", "list", "formula", "figure"} => Len(kid.texts) = 1

VARIABLES
    body,       \* divs in document order: [head, isRef, kids]
    pc,
    next,       \* the div to extract, later the block to chunk
    prepared,   \* the list of blocks
    buf,        \* buf_blocks, buf_texts_norms and buf_len
    currentDiv,
    chunks

vars == <<body, pc, next, prepared, buf, currentDiv, chunks>>

EmptyBuf == [blocks |-> <<>>, norms |-> <<>>, len |-> 0]

Init ==
    /\ body \in Bodies
    /\ pc = "extract" /\ next = 1
    /\ prepared = <<>> /\ buf = EmptyBuf /\ currentDiv = None /\ chunks = <<>>

Smaller(a, b) == IF a <= b THEN a ELSE b

Filter(s, Test(_)) == FlattenSeq([n \in DOMAIN s |-> IF Test(s[n]) THEN <<s[n]>> ELSE <<>>])

Sum(lengths) == FoldLeft(LAMBDA a, b : a + b, 0, lengths)

(* Sentences with a space between them.                                    *)
TextLen(text) == IF text = <<>> THEN 0 ELSE Sum(text) + Len(text) - 1

-----------------------------------------------------------------------------
(* GrobidTeiBlockExtractor. *)

(* _text_and_targets: the text of a <ref> is appended by the loop over the *)
(* children and once more by the walk into it.                             *)
Flatten(text) == [n \in DOMAIN text |-> text[n].len + text[n].ref]

Itertext(text) == [n \in DOMAIN text |-> text[n].len]

Joined(texts) == FlattenSeq([i \in DOMAIN texts |-> Itertext(texts[i])])

(* All the text inside a div, its heading and the divs in it included.     *)
InnerText ==
    LET Inner[d \in DOMAIN body] ==
          Itertext(body[d].head) \o
            FlattenSeq([k \in DOMAIN body[d].kids |->
                LET kid == body[d].kids[k]
                IN IF kid.tag = "div" THEN Inner[kid.div]
                   ELSE Joined(kid.texts)])
    IN Inner

(* _equation_block: the <label>, else the attribute n, of label characters.*)
LabelText(kid) ==
    IF kid.texts[2] # <<>> THEN Itertext(kid.texts[2])
    ELSE IF kid.label > 0 THEN <<kid.label>> ELSE <<>>

(* The children but the label, without the text between them; all there is *)
(* in the formula, the label too, when that joins to nothing; the label    *)
(* when the formula has no text.  Two empty children join to a space,      *)
(* which is no text but is not nothing.                                    *)
FormulaText(kid) ==
    LET children == SubSeq(kid.texts, 3, Len(kid.texts))
        text == Joined(IF children \in {<<>>, <<<<>>>>} THEN kid.texts ELSE children)
    IN IF text # <<>> THEN text ELSE LabelText(kid)

(* The texts an element gives a block each.  Of a figure with a figDesc    *)
(* only that is read, of a list its items.                                 *)
TextsOf(kid) ==
    CASE kid.tag = "div" -> <<InnerText[kid.div]>>
      [] kid.tag = "list" -> [i \in DOMAIN kid.texts |-> Flatten(kid.texts[i])]
      [] kid.tag \in {"p", "note", "footnote"} -> <<Flatten(kid.texts[1])>>
      [] kid.tag = "formula" -> <<FormulaText(kid)>>
      [] OTHER -> <<Itertext(kid.texts[1])>>

KindOfTag ==
    [p |-> "paragraph", formula |-> "equation", table |-> "table", figure |-> "figure_caption",
     list |-> "list_item", note |-> "unknown", footnote |-> "footnote", bibl |-> "reference",
     other |-> "unknown", div |-> "unknown"]

Kind(d, kid) ==
    IF body[d].isRef /\ kid.tag \in {"p", "list"} THEN "reference" ELSE KindOfTag[kid.tag]

BlockOf(src, kind, text, label) ==
    [src |-> src, kind |-> kind, text |-> text, from |-> 0, to |-> TextLen(text),
     len |-> TextLen(text), label |-> label, div |-> src[1], overlap |-> FALSE]

HasText(b) == b.len > 0

(* _extract_div: the heading, then the children one by one.                *)
BlocksOf(d) ==
    LET Head0 == BlockOf(<<d, 0, 1>>, "section_head", Itertext(body[d].head), 0)
        BlocksOfKid(k) ==
            LET kid == body[d].kids[k]
            IN [i \in DOMAIN TextsOf(kid) |->
                  BlockOf(<<d, k, i>>, Kind(d, kid), TextsOf(kid)[i],
                          IF kid.tag = "formula" THEN TextLen(LabelText(kid)) ELSE 0)]
    IN Filter(<<Head0>> \o FlattenSeq([k \in DOMAIN body[d].kids |-> BlocksOfKid(k)]), HasText)

(* Every div of the body in document order, nested ones too.               *)
ExtractDiv ==
    /\ pc = "extract" /\ next <= Len(body)
    /\ prepared' = prepared \o BlocksOf(next)
    /\ next' = next + 1
    /\ UNCHANGED <<body, pc, buf, currentDiv, chunks>>

-----------------------------------------------------------------------------
(* _split_text_sentence_aware. *)

(* The span [s, e) in pieces of MaxChars.                                  *)
HardCut(s, e) ==
    [n \in 1..((e - s + MaxChars - 1) \div MaxChars) |->
        <<s + (n - 1) * MaxChars, Smaller(s + n * MaxChars, e)>>]

(* One sentence: cut up when it is too long and nothing is pending; else   *)
(* what is pending is emitted when the sentence does not fit behind it, and*)
(* the sentence becomes pending however long it is.                        *)
AddSentence(acc, len) ==
    LET p == IF acc.cursor = 0 THEN 0 ELSE acc.cursor + 1
        e == p + len
        at == [acc EXCEPT !.cursor = e]
    IN IF e - acc.start > MaxChars /\ acc.len = 0
       THEN [at EXCEPT !.spans = @ \o HardCut(acc.start, e), !.start = e]
       ELSE IF e - acc.start > MaxChars
       THEN [at EXCEPT !.spans = Append(@, <<acc.start, p>>), !.start = p, !.len = len]
       ELSE [at EXCEPT !.len = e - acc.start]

(* Variant: the tail is not emitted.                                       *)
SpansWithoutTail(text) ==
    FoldLeft(AddSentence, [cursor |-> 0, start |-> 0, len |-> 0, spans |-> <<>>], text).spans

(* What is left after the last sentence is emitted, cut up if need be.     *)
Spans(text) ==
    LET end == FoldLeft(AddSentence, [cursor |-> 0, start |-> 0, len |-> 0, spans |-> <<>>], text)
    IN end.spans \o HardCut(end.start, TextLen(text))

(* The positions of the spaces.                                            *)
Spaces(text) == {Sum(SubSeq(text, 1, n)) + n - 1 : n \in 1..(Len(text) - 1)}

(* strip() of a span.                                                      *)
StrippedLen(text, span) ==
    (span[2] - span[1]) - Cardinality({span[1], span[2] - 1} \cap Spaces(text))

Splittable == {"paragraph", "reference", "footnote", "unknown"}

(* The prefix _render_block puts before a text.                            *)
Prefix(b) ==
    CASE b.kind = "section_head" -> 3
      [] b.kind = "equation" /\ b.label > 0 -> b.label + 3
      [] b.kind = "list_item" -> 2
      [] b.kind = "figure_caption" -> 8
      [] b.kind = "table" -> 7
      [] OTHER -> 0

Rendered(b) == Prefix(b) + b.len

PieceOf(b, span) ==
    [b EXCEPT !.from = span[1], !.to = span[2], !.len = StrippedLen(b.text, span)]

(* _split_oversize_blocks, for one block.  A piece that is only a space    *)
(* renders to nothing, and the main loop passes over it.                   *)
Pieces(b) ==
    IF Rendered(b) <= MaxChars \/ b.kind \notin Splittable THEN <<b>>
    ELSE Filter([n \in DOMAIN Spans(b.text) |-> PieceOf(b, Spans(b.text)[n])], HasText)

SplitBlocks ==
    /\ pc = "extract" /\ next > Len(body)
    /\ prepared' = FlattenSeq([n \in DOMAIN prepared |-> Pieces(prepared[n])])
    /\ pc' = "chunk" /\ next' = 1
    /\ UNCHANGED <<body, buf, currentDiv, chunks>>

-----------------------------------------------------------------------------
(* DefaultBlockChunker.chunk: the buffer. *)

IsHead(b) == b.kind = "section_head"

(* len(_join_texts(...)): the blocks with an empty line between them.      *)
JoinLen(blocks) ==
    IF blocks = <<>> THEN 0
    ELSE Sum([n \in DOMAIN blocks |-> Rendered(blocks[n])]) + 2 * (Len(blocks) - 1)

Budget == Smaller(OverlapChars, MaxChars \div 3)

(* _carry_overlap_suffix: the last blocks, as many as the budget allows,   *)
(* out of those that zip() pairs with a text and a normalised text.        *)
Carry(b) ==
    LET paired == {n \in 1..Smaller(Len(b.blocks), Len(b.norms)) :
                      ~ b.blocks[n].overlap /\ ~ IsHead(b.blocks[n])}
        Suffix(n) == SetToSortSeq({m \in paired : m >= n}, <)
        BlocksAt(ns) == [m \in DOMAIN ns |-> [b.blocks[ns[m]] EXCEPT !.overlap = TRUE]]
        chosen == {n \in paired : JoinLen(BlocksAt(Suffix(n))) <= Budget}
        taken == SetToSortSeq(chosen, <)
    IN IF chosen = {} THEN EmptyBuf
       ELSE [blocks |-> BlocksAt(taken), norms |-> [m \in DOMAIN taken |-> b.norms[taken[m]]],
             len |-> JoinLen(BlocksAt(taken))]

Draft(blocks, norms, len, div, index) ==
    [index |-> index, blocks |-> blocks, norms |-> norms, len |-> len, div |-> div]

(* flush: the buffer becomes a chunk unless it holds a heading only.       *)
Flush(s, div, reason) ==
    IF s.buf.blocks = <<>> THEN s
    ELSE IF \A n \in DOMAIN s.buf.blocks : IsHead(s.buf.blocks[n]) THEN [s EXCEPT !.buf = EmptyBuf]
    ELSE [chunks |-> Append(s.chunks,
              Draft(s.buf.blocks, s.buf.norms, JoinLen(s.buf.blocks), div, Len(s.chunks))),
          buf |-> IF reason = "size" /\ Budget > 0 THEN Carry(s.buf) ELSE EmptyBuf]

(* Variant: the empty line in between is not counted.                      *)
LenWithoutLine(b, block) == b.len + Rendered(block)

LenWith(b, block) == b.len + (IF b.blocks = <<>> THEN 0 ELSE 2) + Rendered(block)

TooLong(b, block) == b.blocks # <<>> /\ LenWith(b, block) > MaxChars

(* The buffer without its first m blocks.                                  *)
Drop(b, m) ==
    IF m = 0 THEN b
    ELSE LET rest == SubSeq(b.blocks, m + 1, Len(b.blocks))
         IN [blocks |-> rest, norms |-> SubSeq(b.norms, m + 1, Len(b.norms)), len |-> JoinLen(rest)]

(* _ensure_fit_next: overlap is dropped from the front as far as needed,   *)
(* then the buffer is flushed.                                             *)
EnsureFitNext(s, div, block) ==
    LET Stops(m) == \/ m = Len(s.buf.blocks)
                    \/ ~ TooLong(Drop(s.buf, m), block)
                    \/ ~ s.buf.blocks[m + 1].overlap
        m == CHOOSE m \in 0..Len(s.buf.blocks) : Stops(m) /\ \A k \in 0..(m - 1) : ~ Stops(k)
        dropped == [s EXCEPT !.buf = Drop(@, m)]
    IN IF TooLong(dropped.buf, block) THEN Flush(dropped, div, "size") ELSE dropped

-----------------------------------------------------------------------------
(* The main loop, one block at a time. *)

Block == prepared[next]

(* Variant: a new div does not end the chunk.                              *)
AtSameDiv == [buf |-> buf, chunks |-> chunks]

(* The buffer and the chunks after the look at the block's div.            *)
AtDiv ==
    LET s == [buf |-> buf, chunks |-> chunks]
    IN IF currentDiv # None /\ Block.div # currentDiv THEN Flush(s, currentDiv, "div_end") ELSE s

NextBlock ==
    /\ pc = "chunk" /\ next <= Len(prepared)
    /\ next' = next + 1
    /\ currentDiv' = Block.div
    /\ UNCHANGED <<body, pc, prepared>>

(* A heading ends the chunk and starts the next one.                       *)
TakeHead ==
    /\ NextBlock
    /\ IsHead(Block)
    /\ chunks' = Flush(AtDiv, Block.div, "section").chunks
    /\ buf' = [blocks |-> <<Block>>, norms |-> <<Block>>, len |-> Rendered(Block)]

(* A block that is too long becomes a chunk of its own.  The list of       *)
(* normalised texts is not reset.                                          *)
TakeOversize ==
    /\ NextBlock
    /\ ~ IsHead(Block) /\ Rendered(Block) > MaxChars
    /\ LET s == AtDiv
           flushed == Flush(s, Block.div, IF s.buf.blocks # <<>> THEN "size" ELSE "end")
       IN /\ chunks' = Append(flushed.chunks,
                 Draft(<<Block>>, <<Block>>, Rendered(Block), Block.div, Len(flushed.chunks)))
          /\ buf' = [flushed.buf EXCEPT !.blocks = <<>>, !.len = 0]

(* Any other block is appended to the buffer, after a flush when it does   *)
(* not fit.  Its normalised text is not.                                   *)
TakeBlock ==
    /\ NextBlock
    /\ ~ IsHead(Block) /\ Rendered(Block) <= MaxChars
    /\ LET s == EnsureFitNext(AtDiv, Block.div, Block)
           fit == IF TooLong(s.buf, Block)
                  THEN EnsureFitNext(Flush(s, Block.div, "size"), Block.div, Block) ELSE s
       IN /\ chunks' = fit.chunks
          /\ buf' = [fit.buf EXCEPT !.blocks = Append(@, Block), !.len = LenWith(fit.buf, Block)]

(* The rest of the buffer is the last chunk.                               *)
End ==
    /\ pc = "chunk" /\ next > Len(prepared)
    /\ chunks' = Flush([buf |-> buf, chunks |-> chunks], currentDiv, "end").chunks
    /\ buf' = EmptyBuf
    /\ pc' = "done"
    /\ UNCHANGED <<body, next, prepared, currentDiv>>

Next == ExtractDiv \/ SplitBlocks \/ TakeHead \/ TakeOversize \/ TakeBlock \/ End

Spec == Init /\ [][Next]_vars

-----------------------------------------------------------------------------
(* Properties. *)

IsBlock(b) ==
    /\ b.kind \in Splittable \cup {"section_head", "equation", "list_item", "figure_caption", "table"}
    /\ b.div \in 1..Len(body) /\ b.overlap \in BOOLEAN
    /\ 0 <= b.from /\ b.from < b.to /\ b.to <= TextLen(b.text) /\ 0 < b.len

(* Every variable has its type, and the length that is kept beside the     *)
(* buffer is that of the text it would become.                             *)
TypeOK ==
    /\ pc \in {"extract", "chunk", "done"}
    /\ next \in Nat
    /\ \A n \in DOMAIN prepared : IsBlock(prepared[n])
    /\ \A n \in DOMAIN buf.blocks : IsBlock(buf.blocks[n])
    /\ buf.len = JoinLen(buf.blocks)
    /\ currentDiv \in {None} \cup 1..Len(body)
    /\ \A n \in DOMAIN chunks : chunks[n].index = n - 1 /\ chunks[n].blocks # <<>>

(* The texts of an element as the paper has them, which is not how the     *)
(* extractor reads them: all the text there is in it.                      *)
PaperTexts(kid) ==
    CASE kid.tag = "div" -> <<InnerText[kid.div]>>
      [] kid.tag = "list" -> [i \in DOMAIN kid.texts |-> Itertext(kid.texts[i])]
      [] OTHER -> <<Joined(kid.texts)>>

KidAt(src) == body[src[1]].kids[src[2]]

PaperText(src) == PaperTexts(KidAt(src))[src[3]]

Places ==
    UNION {UNION {{<<d, k, i>> : i \in DOMAIN PaperTexts(body[d].kids[k])} :
                     k \in DOMAIN body[d].kids} : d \in DOMAIN body}

(* Of these elements the extractor leaves text out.                        *)
ReadInPart(kid) ==
    \/ kid.tag = "formula" /\ Len(kid.texts) > 2
    \/ kid.tag = "figure" /\ Len(kid.texts) > 1

(* The text is the paper's but for what is inside a <ref>, which may be    *)
(* read twice; of a formula or figure that is read in part, it is that of  *)
(* some of its children, whole and without a gap, or its number.           *)
Reads(text, src) ==
    LET kid == KidAt(src)
        raw == kid.texts[src[3]]
    IN \/ text = PaperText(src)
       \/ /\ kid.tag \in {"p", "list", "note", "footnote"}
          /\ Len(text) = Len(raw)
          /\ \A n \in DOMAIN raw : text[n] \in raw[n].len..(raw[n].len + raw[n].ref)
       \/ /\ ReadInPart(kid)
          /\ \E m, n \in DOMAIN kid.texts : text = Joined(SubSeq(kid.texts, m, n))
       \/ kid.tag = "formula" /\ text = LabelText(kid)

(* The blocks of all chunks but the headings and what is said again.       *)
Indexed ==
    FlattenSeq([n \in DOMAIN chunks |->
        Filter(chunks[n].blocks, LAMBDA b : ~ IsHead(b) /\ ~ b.overlap)])

ComesBefore(s, t) ==
    \/ s[1] < t[1]
    \/ s[1] = t[1] /\ s[2] < t[2]
    \/ s[1] = t[1] /\ s[2] = t[2] /\ s[3] < t[3]

(* When the paper is chunked, every text of every div is in the chunks     *)
(* from its first character to its last, once but for overlap, and in      *)
(* reading order, however it was cut up, flushed or carried over: all that *)
(* may go is a space between two sentences.  What a chunk shows is the     *)
(* paper's text.  The exceptions are the extractor's, and there are no     *)
(* others: a <ref> may be read twice, the text of a nested div is read     *)
(* with each of the divs around it, and of a formula with children or a    *)
(* figure with a figDesc only those are read, and nothing if they are      *)
(* empty.                                                                  *)
EveryTextIsIndexed ==
    LET srcs == {Indexed[n].src : n \in DOMAIN Indexed}
    IN pc = "done" =>
        /\ srcs \subseteq Places
        /\ \A src \in Places \ srcs : PaperText(src) = <<>> \/ ReadInPart(KidAt(src))
        /\ \A n \in DOMAIN Indexed :
              /\ Reads(Indexed[n].text, Indexed[n].src)
              /\ n = 1 \/ Indexed[n].src # Indexed[n - 1].src => Indexed[n].from = 0
              /\ n = Len(Indexed) \/ Indexed[n].src # Indexed[n + 1].src
                    => Indexed[n].to = TextLen(Indexed[n].text)
              /\ n > 1 => \/ ComesBefore(Indexed[n - 1].src, Indexed[n].src)
                          \/ /\ Indexed[n].src = Indexed[n - 1].src
                             /\ Indexed[n].text = Indexed[n - 1].text
                             /\ Indexed[n - 1].to <= Indexed[n].from
                             /\ Indexed[n - 1].to..(Indexed[n].from - 1) \subseteq Spaces(Indexed[n].text)

(* A sentence that is neither the first nor the last of its text.          *)
IsInnerSentence(b) ==
    \E n \in 2..(Len(b.text) - 1) :
        /\ b.from = Sum(SubSeq(b.text, 1, n - 1)) + n - 1
        /\ b.to = Sum(SubSeq(b.text, 1, n)) + n

(* Only a block that must not be split, or one over-long sentence between  *)
(* two others, makes a chunk longer than the limit, and then alone.        *)
ChunksFit ==
    \A n \in DOMAIN chunks :
        chunks[n].len > MaxChars =>
            /\ Len(chunks[n].blocks) = 1
            /\ \/ chunks[n].blocks[1].kind \notin Splittable
               \/ IsInnerSentence(chunks[n].blocks[1])

(* A chunk never mixes sections: it is of one div, and a heading only      *)
(* opens it.  The first text of a section comes with the heading, unless   *)
(* the two do not fit into one chunk.                                      *)
SectionsStayTogether ==
    \A n \in DOMAIN chunks :
        LET blocks == chunks[n].blocks
        IN /\ \A m \in DOMAIN blocks :
                 blocks[m].div = chunks[n].div /\ (IsHead(blocks[m]) => m = 1)
           /\ \/ IsHead(blocks[1]) \/ body[chunks[n].div].head = <<>>
              \/ \E m \in 1..(n - 1) : chunks[m].div = chunks[n].div
              \/ LenWith([EmptyBuf EXCEPT !.blocks = <<blocks[1]>>, !.len = Rendered(blocks[1])],
                         BlocksOf(chunks[n].div)[1]) > MaxChars

(* Two chunks in a row of one section overlap, as the docstring of the     *)
(* chunker ("block-based overlap (suffix blocks)", line 21) and the        *)
(* setting CHUNKER_OVERLAP say: when the last block of the first is within *)
(* the budget, and the second has room for it and was not cut off by a     *)
(* block behind it, the second opens with it.                              *)
OverlapIsCarried ==
    pc = "done" =>
        \A n \in 1..(Len(chunks) - 1) :
            LET last == chunks[n].blocks[Len(chunks[n].blocks)]
                first == chunks[n + 1].blocks[1]
            IN /\ ~ IsHead(last) /\ ~ IsHead(first) /\ first.div = last.div
               /\ n + 1 = Len(chunks) \/ chunks[n + 2].div # first.div
               /\ Rendered(last) <= Budget
               /\ chunks[n + 1].len + 2 + Rendered(last) <= MaxChars
               => first.overlap

===============================================================================
