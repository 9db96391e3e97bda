--------------------------------- MODULE Page ---------------------------------
(***************************************************************************)
(* The browser's renderer (browser.rs): render_html_doc walks the page and *)
(* a DocBuilder collects lines of styled spans, which layout wraps to the  *)
(* columns of the window.                                                  *)
(*                                                                         *)
(* A page is tags and characters in any order; an entity is the character  *)
(* it stands for.  Characters are one byte.  An anchor is the URL its href *)
(* resolves to.                                                            *)
(***************************************************************************)
EXTENDS Naturals, Sequences, SequencesExt

CONSTANTS
    Chars,      \* characters of pages: letters, " ", "nl", "tab"
    PageTags,   \* tags of pages, one name for those treated alike
    Urls,       \* targets of anchors
    MAXLINKS,   \* MAX_LINKS
    MINCOLS,    \* fewest columns of layout (10)
    Widths,     \* columns a window may have
    BULLET, RULE, TAB,  \* "  * ", the rule of <hr> and the spaces of a tab
    MAXTOKENS   \* bound on the tags and characters of a page

ASSUME PageOK ==
    /\ {MAXLINKS, MINCOLS, MAXTOKENS} \subseteq Nat /\ MINCOLS > 0 /\ Widths \subseteq Nat

VARIABLES
    b,          \* the DocBuilder
    hidden,     \* in_script, in_style, in_title
    doc,        \* <<the Document>>, or <<>> while it is built
    size,       \* tags and characters so far
    want        \* ghost: letters to show with their targets, the target of the open
                \* anchor, and the number of anchors

pageVars == <<b, hidden, doc, size, want>>

Space == {" ", "nl", "tab"}
NoTarget == "no link"
Beyond == "beyond"      \* of an anchor after the MAXLINKS-th

NewBuilder ==
    [lines |-> <<>>, cur |-> <<>>, text |-> <<>>, links |-> <<>>, link |-> 0,
     heading |-> 0, bold |-> 0, pre |-> FALSE, lastSpace |-> TRUE]

Style(d) ==
    CASE d.heading > 0 -> "Heading"
      [] d.heading = 0 /\ d.pre -> "Pre"
      [] d.heading = 0 /\ ~d.pre /\ d.bold > 0 -> "Bold"
      [] OTHER -> "Normal"

FlushSpan(d) ==
    IF d.text = <<>> THEN d
    ELSE [d EXCEPT !.text = <<>>,
                   !.cur = Append(@, [text |-> d.text, style |-> Style(d), link |-> d.link])]

Shows(text) == \E i \in DOMAIN text : text[i] # " "

LineHasContent(d) == Shows(d.text) \/ \E i \in DOMAIN d.cur : Shows(d.cur[i].text)

Newline(d) ==
    [FlushSpan(d) EXCEPT !.lines = Append(@, FlushSpan(d).cur), !.cur = <<>>, !.lastSpace = TRUE]

\* The rest of a line without content is dropped.
Dropped(d) == [d EXCEPT !.cur = <<>>, !.text = <<>>, !.lastSpace = TRUE]

BlankLine(d) ==
    LET e == IF LineHasContent(d) THEN Newline(d) ELSE d IN
    Dropped(IF e.lines # <<>> /\ Last(e.lines) # <<>> THEN [e EXCEPT !.lines = Append(@, <<>>)]
            ELSE e)

BreakLine(d) == IF LineHasContent(d) THEN Newline(d) ELSE Dropped(d)

PushChar(d, c) ==
    IF d.pre
    THEN [(CASE c = "nl" -> Newline(d)
             [] c = "tab" -> [d EXCEPT !.text = @ \o TAB]
             [] OTHER -> [d EXCEPT !.text = Append(@, c)]) EXCEPT !.lastSpace = FALSE]
    ELSE IF c \in Space
    THEN IF d.lastSpace THEN d ELSE [d EXCEPT !.text = Append(@, " "), !.lastSpace = TRUE]
    ELSE [d EXCEPT !.text = Append(@, c), !.lastSpace = FALSE]

\* start_link that leaves the text before the anchor to the new span.
StartLinkLate(d, u) ==
    IF Len(d.links) >= MAXLINKS THEN d
    ELSE [d EXCEPT !.links = Append(@, u), !.link = Len(d.links) + 1]

StartLink(d, u) ==
    IF Len(d.links) >= MAXLINKS THEN d
    ELSE [FlushSpan(d) EXCEPT !.links = Append(@, u), !.link = Len(d.links) + 1]

EndLink(d) == [FlushSpan(d) EXCEPT !.link = 0]

\* A mark of the renderer's own: flush_span, then a Bullet span.
Mark(d, text) ==
    [FlushSpan(d) EXCEPT !.cur = Append(@, [text |-> text, style |-> "Bullet", link |-> 0])]

Less(n) == IF n = 0 THEN 0 ELSE n - 1

\* process_tag, but for anchors.
ProcessTag(d, tag) ==
    CASE tag = "br" -> Newline(d)
      [] tag = "h1" -> [BlankLine(d) EXCEPT !.heading = @ + 1]
      [] tag = "/h1" -> BreakLine([d EXCEPT !.heading = Less(@)])
      [] tag = "h4" -> [BreakLine(d) EXCEPT !.bold = @ + 1]
      [] tag = "/h4" -> BreakLine([d EXCEPT !.bold = Less(@)])
      [] tag = "p" -> BlankLine(d)
      [] tag = "div" -> BreakLine(d)
      [] tag = "li" -> [Mark(BreakLine(d), BULLET) EXCEPT !.lastSpace = TRUE]
      [] tag = "td" -> PushChar(PushChar(d, " "), " ")
      [] tag = "hr" -> Newline(Mark(BreakLine(d), RULE))
      [] tag = "pre" -> [BlankLine(d) EXCEPT !.pre = TRUE]
      [] tag = "/pre" -> BreakLine([d EXCEPT !.pre = FALSE])
      [] tag = "b" -> [FlushSpan(d) EXCEPT !.bold = @ + 1]
      [] tag = "/b" -> [FlushSpan(d) EXCEPT !.bold = Less(@)]
      [] tag = "/a" -> EndLink(d)
      [] OTHER -> d

\* finish
Finish(d) ==
    LET e == FlushSpan(d)
        lines == IF e.cur = <<>> THEN e.lines ELSE Append(e.lines, e.cur)
        full == {i \in DOMAIN lines : lines[i] # <<>>} IN
    [lines |-> SubSeq(lines, 1, IF full = {} THEN 0 ELSE Max(full)), links |-> e.links]

-----------------------------------------------------------------------------
(* layout: s is the lines so far, the open one, its column and the run of  *)
(* the current span not yet put on it.                                     *)

FlushRun(s, span) ==
    IF s.run = <<>> THEN s
    ELSE [s EXCEPT !.run = <<>>,
                   !.visual = Append(@, [col |-> s.runCol, text |-> s.run, style |-> span.style,
                                         link |-> span.link])]

Wrapped(s, span) ==
    [FlushRun(s, span) EXCEPT !.out = Append(@, FlushRun(s, span).visual), !.visual = <<>>,
                              !.col = 0, !.runCol = 0]

Grown(s, token) == [s EXCEPT !.run = @ \o token, !.col = @ + Len(token)]

\* A word goes on the line, or on the next one, or is split over several.
RECURSIVE PlaceWord(_, _, _, _)
PlaceWord(s, word, span, max) ==
    IF s.col + Len(word) <= max THEN Grown(s, word)
    ELSE IF s.col > 0 THEN PlaceWord(Wrapped(s, span), word, span, max)
    ELSE PlaceWord(Wrapped(Grown(s, SubSeq(word, 1, max)), span), SubSeq(word, max + 1, Len(word)),
                   span, max)

\* Spaces at the edge are dropped.
PlaceToken(s, token, span, max) ==
    IF Shows(token) THEN PlaceWord(s, token, span, max)
    ELSE IF s.col + Len(token) <= max THEN Grown(s, token)
    ELSE Wrapped(s, span)

\* Maximal runs of spaces and of other characters.
Tokens(text) ==
    FoldLeft(LAMBDA ts, c :
        IF ts # <<>> /\ (c = " ") = (Last(Last(ts)) = " ")
        THEN Append(Front(ts), Append(Last(ts), c)) ELSE Append(ts, <<c>>), <<>>, text)

PlaceSpan(s, span, max) ==
    FlushRun(FoldLeft(LAMBDA t, token : PlaceToken(t, token, span, max),
                      [s EXCEPT !.runCol = s.col], Tokens(span.text)), span)

LayoutLine(line, max) ==
    LET s == FoldLeft(LAMBDA t, span : PlaceSpan(t, span, max),
                 [out |-> <<>>, visual |-> <<>>, col |-> 0, run |-> <<>>, runCol |-> 0], line)
    IN Append(s.out, s.visual)

Columns(width) == IF width < MINCOLS THEN MINCOLS ELSE width

Layout(d, width) ==
    FlattenSeq([i \in DOMAIN d.lines |-> LayoutLine(d.lines[i], Columns(width))])

-----------------------------------------------------------------------------
(* render_html_doc.                                                        *)

Token ==
    /\ doc = <<>> /\ size < MAXTOKENS
    /\ size' = size + 1
    /\ UNCHANGED doc

\* <script>, <style> and <title> hide characters, and the first two also tags.
Hide(part) ==
    /\ Token
    /\ hidden' = hidden \cup {part}
    /\ UNCHANGED <<b, want>>

Unhide(part) ==
    /\ Token
    /\ hidden' = hidden \ {part}
    /\ UNCHANGED <<b, want>>

Tag(tag) ==
    /\ Token
    /\ IF hidden \subseteq {"title"}
       THEN /\ b' = ProcessTag(b, tag)
            /\ want' = IF tag = "/a" THEN [want EXCEPT !.target = NoTarget] ELSE want
       ELSE UNCHANGED <<b, want>>
    /\ UNCHANGED hidden

Anchor(u) ==
    /\ Token /\ hidden \subseteq {"title"}
    /\ b' = StartLink(b, u)
    /\ want' = [want EXCEPT !.anchors = @ + 1,
                            !.target = IF want.anchors < MAXLINKS THEN u ELSE Beyond]
    /\ UNCHANGED hidden

Text(c) ==
    /\ Token
    /\ IF hidden = {}
       THEN /\ b' = PushChar(b, c)
            /\ want' = IF c \in Space THEN want
                       ELSE [want EXCEPT !.letters = Append(@, [char |-> c, target |-> want.target,
                                                                style |-> Style(b)])]
       ELSE UNCHANGED <<b, want>>
    /\ UNCHANGED hidden

\* The end of the page, also in the middle of a tag.
EndPage ==
    /\ doc = <<>>
    /\ doc' = <<Finish(b)>>
    /\ UNCHANGED <<b, hidden, size, want>>

PageInit ==
    /\ b = NewBuilder /\ hidden = {} /\ doc = <<>> /\ size = 0
    /\ want = [letters |-> <<>>, target |-> NoTarget, anchors |-> 0]

PageNext ==
    \/ \E part \in {"script", "style", "title"} : Hide(part) \/ Unhide(part)
    \/ \E tag \in PageTags : Tag(tag)
    \/ \E u \in Urls : Anchor(u)
    \/ \E c \in Chars : Text(c)
    \/ EndPage

-----------------------------------------------------------------------------

\* The letters of rows, the renderer's own marks left out.
Letters(rows, links) ==
    LET Of(span) ==
            IF span.style = "Bullet" THEN <<>>
            ELSE LET word == SelectSeq(span.text, LAMBDA c : c # " ") IN
                 [i \in DOMAIN word |->
                    [char |-> word[i], style |-> span.style,
                     target |-> IF span.link = 0 THEN NoTarget ELSE links[span.link]]]
        spans == FlattenSeq(rows)
    IN FlattenSeq([i \in DOMAIN spans |-> Of(spans[i])])

AsWanted(shown) ==
    /\ Len(shown) = Len(want.letters)
    /\ \A i \in DOMAIN shown : /\ shown[i].char = want.letters[i].char
                                /\ want.letters[i].target \in {shown[i].target, Beyond}

\* Every letter of the page's text is laid out once and in order, with the URL
\* of the anchor it stood in, and on every line the spans follow each other from
\* column 0 and end inside the window, whatever tags surround the text and
\* wherever the lines wrap.  start_link ignores the anchors after the
\* MAX_LINKS-th: their letters have no link, or the one that was left open.
PageShown ==
    doc # <<>> => \A width \in Widths :
        LET rows == Layout(doc[1], width) IN
        /\ AsWanted(Letters(rows, doc[1].links))
        /\ \A r \in DOMAIN rows : \A i \in DOMAIN rows[r] :
              LET span == rows[r][i] IN
              /\ span.col = (IF i = 1 THEN 0
                             ELSE rows[r][i - 1].col + Len(rows[r][i - 1].text))
              /\ span.col + Len(span.text) <= Columns(width)

\* A letter has the style of the tags it stood in: of a heading, bold,
\* preformatted.  The code lowers the counter of a closing heading before it
\* flushes the text.
StyledAsTagged ==
    doc # <<>> =>
        LET shown == Letters(doc[1].lines, doc[1].links) IN
        \A i \in DOMAIN shown : shown[i].style = want.letters[i].style
=============================================================================
