---------------------------- MODULE MarkdownSections ----------------------------
(***************************************************************************)
(* lib/ui/markdown-section-editor.ts: the boundary between raw Markdown    *)
(* and the sections of the Steps editor.                                   *)
(*                                                                         *)
(* A document is a sequence of lines, a line a sequence of words, with the *)
(* URL when the whole line (after a list marker) is a link whose label the *)
(* words are.  One heading level and one fence character stand for all; a  *)
(* link counts by its words inside anything else.                          *)
(***************************************************************************)
EXTENDS MapRoutes

CONSTANT Fences    \* fence words by length, three backticks first

NoLink == Url("no link")
Plain(words) == [words |-> words, url |-> NoLink]
Blank == Plain(<<>>)

ListMarkers == {"- ", "* ", "1. "}
list_type_of(marker) == IF marker = "" THEN "" ELSE IF marker = "1. " THEN "numbered" ELSE "bulleted"
default_list_prefix(list_type) == IF list_type = "bulleted" THEN "- " ELSE "1. "

IsFence(word) == word \in ToSet(Fences)
FenceLength(word) == CHOOSE n \in DOMAIN Fences : Fences[n] = word

-----------------------------------------------------------------------------
(* Parsing. *)

opening_fence(line) ==
    /\ line.url = NoLink /\ line.words # <<>> /\ IsFence(Head(line.words))
    /\ \A k \in 2 .. Len(line.words) : ~IsFence(line.words[k])

closes(fence, line) ==
    /\ line.url = NoLink /\ Len(line.words) = 1 /\ IsFence(Head(line.words))
    /\ FenceLength(Head(line.words)) >= FenceLength(fence)

single_line(line) ==
    LET listed == line.words # <<>> /\ Head(line.words) \in ListMarkers
        content == IF listed THEN Tail(line.words) ELSE line.words
        heading == content # <<>> /\ Head(content) = "#"
    IN [type |-> IF heading THEN "heading"
                 ELSE IF line.url # NoLink THEN "link"
                 ELSE IF content # <<>> /\ (Head(content) = ">" \/ IsFence(Head(content))) THEN "raw"
                 ELSE "text",
        raw |-> <<line>>, marker |-> IF listed THEN Head(line.words) ELSE "",
        words |-> IF heading THEN Tail(content) ELSE content,
        url |-> line.url, language |-> <<>>, code |-> <<>>, closed |-> TRUE]

code_block(lines, start) ==
    LET fence == Head(lines[start].words)
        closing == SelectInSubSeq(lines, start + 1, Len(lines), LAMBDA line : closes(fence, line))
    IN [type |-> "code-block", marker |-> "", words |-> <<>>, url |-> NoLink,
        raw |-> SubSeq(lines, start, IF closing = 0 THEN Len(lines) ELSE closing),
        language |-> Tail(lines[start].words),
        code |-> SubSeq(lines, start + 1, (IF closing = 0 THEN Len(lines) + 1 ELSE closing) - 1),
        closed |-> closing # 0]

parse(lines) ==
    LET from[k \in 1 .. Len(lines) + 1] ==
            IF k > Len(lines) THEN <<>>
            ELSE LET section == IF opening_fence(lines[k]) THEN code_block(lines, k)
                                ELSE single_line(lines[k])
                 IN <<section>> \o from[k + Len(section.raw)]
    IN from[1]

(* An empty document is one blank line.                                    *)
serialize(sections) ==
    IF sections = <<>> THEN <<Blank>> ELSE FlattenSeq([k \in DOMAIN sections |-> sections[k].raw])

-----------------------------------------------------------------------------
(* Drafts. *)

(* The value of a block of one blank line is the empty string.             *)
draft(section) ==
    [type |-> section.type, list_type |-> list_type_of(section.marker),
     words |-> section.words, url |-> section.url, language |-> section.language,
     code |-> IF section.code = <<Blank>> THEN <<>> ELSE section.code]

CodeWords(code) == FlattenSeq([k \in DOMAIN code |-> code[k].words])
primary_value(d) == IF d.type = "code-block" THEN CodeWords(d.code) ELSE d.words

can_change_type(d, type) ==
    d.type = type \/ type = "code-block" \/ d.type # "code-block" \/ Len(d.code) <= 1

change_type(d, type) ==
    IF d.type = type THEN d
    ELSE [type |-> type, list_type |-> IF type = "code-block" THEN "" ELSE d.list_type,
          words |-> IF type = "code-block" THEN <<>> ELSE primary_value(d),
          url |-> IF type = "link" THEN EmptyUrl ELSE NoLink, language |-> <<>>,
          code |-> IF type # "code-block" \/ primary_value(d) = <<>> THEN <<>>
                   ELSE <<Plain(primary_value(d))>>]

change_list_type(d, list_type) == [d EXCEPT !.list_type = list_type]

(* Mutant: the shortest fence. *)
safe_code_fence_short(code) == Fences[1]

(* Longer than any line of the code that would close the block.            *)
safe_code_fence(code) ==
    LET lengths == {FenceLength(Head(code[k].words)) :
                       k \in {j \in DOMAIN code : closes(Fences[1], code[j])}}
    IN Fences[Max(lengths \cup {0}) + 1]

render_draft(d, marker) ==
    IF d.type = "code-block"
    THEN <<Plain(<<safe_code_fence(d.code)>> \o d.language)>> \o d.code
         \o <<Plain(<<safe_code_fence(d.code)>>)>>
    ELSE <<[words |-> (IF d.list_type = "" THEN <<>> ELSE <<marker>>)
                      \o (IF d.type = "heading" THEN <<"#">> ELSE <<>>) \o d.words,
            url |-> d.url]>>

(* Of a draft that renders as one section, which create and update assert. *)
create(d) == parse(render_draft(d, default_list_prefix(d.list_type)))[1]

KeptMarker(section, d) ==
    IF section.marker # "" /\ list_type_of(section.marker) = d.list_type THEN section.marker
    ELSE default_list_prefix(d.list_type)

update(section, d) ==
    IF draft(section) = d THEN section ELSE parse(render_draft(d, KeptMarker(section, d)))[1]

-----------------------------------------------------------------------------
(* Arranging sections. *)

move(sections, from, to) == InsertAt(RemoveAt(sections, from), to, sections[from])

(* Mutant: the appended value replaces that of a block. *)
Appended_value_replaced(d, source) ==
    IF d.type # "code-block" THEN [d EXCEPT !.words = @ \o primary_value(source)]
    ELSE [d EXCEPT !.code = IF source.type = "code-block" THEN source.code
                            ELSE <<Plain(source.words)>>]

Appended_value(d, source) ==
    IF d.type # "code-block" THEN [d EXCEPT !.words = @ \o primary_value(source)]
    ELSE [d EXCEPT !.code = @ \o (IF source.type = "code-block" THEN source.code
                                  ELSE IF source.words = <<>> THEN <<>>
                                  ELSE <<Plain(source.words)>>)]

merge(sections, from, into) ==
    RemoveAt([sections EXCEPT ![into] =
        update(@, Appended_value(draft(@), draft(sections[from])))], from)
=============================================================================
