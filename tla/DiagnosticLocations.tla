------------------------ MODULE DiagnosticLocations ------------------------
(***************************************************************************)
(* locate_project_diagnostics_global of the native compiler: the lines and *)
(* columns of a list of diagnostics, computed with one cursor that is      *)
(* carried from diagnostic to diagnostic, advanced where spans go forward  *)
(* within a source and given up for a full scan where they do not.         *)
(*                                                                         *)
(* A source is a sequence of bytes handed over in pages of a fixed stride. *)
(* Its descriptor may select pages that are not there ("slice"), or the    *)
(* pages may not compose a source ("pages").  Diagnostics are chosen as    *)
(* they are located, in any order.                                         *)
(***************************************************************************)
EXTENDS Naturals, Sequences, FiniteSets

CONSTANTS
    LocatedSourceCount,
    Texts,          \* what the sources may hold
    Strides,
    Shapes          \* which sources come whole

LocatedSource == 1 .. LocatedSourceCount
Byte == {"newline", "continuation", "other"}    \* 10, 128 to 191, and the rest

ASSUME LocationAssumption ==
    /\ LocatedSourceCount \in Nat \ {0}
    /\ Texts \subseteq [LocatedSource -> Seq(Byte)]
    /\ Strides \subseteq Nat \ {0}
    /\ Shapes \subseteq [LocatedSource -> {"good", "slice", "pages"}]

VARIABLES
    text, stride,
    shape,          \* of each source: "good", "slice" or "pages"
    cursor,         \* [has_source, source, pages_valid, cursor_valid, offset, position]
    walk,           \* << >>, or the walk over the bytes of a source that is under way
    last            \* << >>, or the diagnostic located last and its location

locationVars == << text, stride, shape, cursor, walk, last >>

----------------------------------------------------------------------------
Initial == [line |-> 1, col |-> 1]

\* line_col_advance_byte and line_step_at.
AdvanceByte(at, byte) ==
    CASE byte = "newline" -> [line |-> at.line + 1, col |-> 1]
      [] byte = "continuation" -> at
      [] OTHER -> [at EXCEPT !.col = @ + 1]

Least(m, n) == IF m <= n THEN m ELSE n

\* Page p, from 0, of source s, and how many pages the first bytes take.
PageCountFor(total) == IF total = 0 THEN 0 ELSE (total - 1) \div stride + 1
Page(s, p) == SubSeq(text[s], p * stride + 1, Least((p + 1) * stride, Len(text[s])))
ScannedPages(s, end) == Least(PageCountFor(end), PageCountFor(Len(text[s])))

\* line_col_page_local_start.
PageStart(start, base) == IF start > base THEN start - base ELSE 0

\* Where line_col_advance_page_step stops in a page.
PageFinish(s, p, end) ==
    IF p * stride >= end THEN 0 ELSE Least(Len(Page(s, p)), end - p * stride)

\* A walk begins at the page that holds from; the pages before it are skipped.
FirstPage(s, from, to) == Least(from \div stride, ScannedPages(s, to))

\* A walk over the bytes between two offsets, taken up at a position: on the way
\* to the start of a span or from there to its end, over the prefix that ends
\* with it, or over that prefix with the start marked in passing.
Leg(kind, d, from, to, position) ==
    LET first == FirstPage(d.source, from, to)
    IN [leg |-> kind, d |-> d, from |-> from, to |-> to,
        page |-> first, byte |-> PageStart(from, first * stride),
        at |-> position, start |-> Initial, found |-> FALSE]

----------------------------------------------------------------------------
Unmapped == [mapped |-> FALSE, start |-> Initial, end |-> Initial]
Mapped(span) == [mapped |-> TRUE, start |-> span.start, end |-> span.end]

At(s, offset, position) ==
    [has_source |-> TRUE, source |-> s, pages_valid |-> TRUE, cursor_valid |-> TRUE,
     offset |-> offset, position |-> position]
Fresh(s, valid) ==
    [has_source |-> TRUE, source |-> s, pages_valid |-> valid, cursor_valid |-> FALSE,
     offset |-> 0, position |-> Initial]

SameSource(s) == cursor.has_source /\ cursor.source = s
SpanValid(d) == d.start <= d.end /\ d.end <= Len(text[d.source])

LocationInit ==
    /\ text \in Texts /\ stride \in Strides
    /\ shape \in Shapes
    /\ cursor = [Fresh(1, FALSE) EXCEPT !.has_source = FALSE]
    /\ walk = << >> /\ last = << >>

\* The next diagnostic is taken when the one before it has its location.
Located(d, location) ==
    walk = << >> /\ walk' = << >> /\ last' = << d, location >> /\ UNCHANGED << text, stride, shape >>

\* A diagnostic without a span, or of a source the project does not have.
NoSpan(d) ==
    /\ ~d.has_span \/ d.source > LocatedSourceCount
    /\ cursor' = cursor /\ Located(d, Unmapped)

HasSource(d) == d.has_span /\ d.source <= LocatedSourceCount

BadSlice(d) ==
    /\ HasSource(d) /\ shape[d.source] = "slice"
    /\ cursor' = Fresh(d.source, FALSE) /\ Located(d, Unmapped)

\* Pages known to be bad are not validated again.
KnownBad(d) ==
    /\ HasSource(d) /\ shape[d.source] # "slice"
    /\ SameSource(d.source) /\ ~cursor.pages_valid
    /\ cursor' = cursor /\ Located(d, Unmapped)

BadPages(d) ==
    /\ HasSource(d) /\ shape[d.source] = "pages" /\ ~SameSource(d.source)
    /\ cursor' = Fresh(d.source, FALSE) /\ Located(d, Unmapped)

\* Past the checks of the pages, and the cursor the source is entered with.
Good(d) ==
    /\ HasSource(d) /\ shape[d.source] # "slice"
    /\ IF SameSource(d.source) THEN cursor.pages_valid ELSE shape[d.source] = "good"

Entered(s) == IF SameSource(s) THEN cursor ELSE Fresh(s, TRUE)

BadSpan(d) ==
    /\ Good(d) /\ ~SpanValid(d)
    /\ cursor' = Entered(d.source) /\ Located(d, Unmapped)

\* Seeded fault: a cursor is advanced to a span that begins before it.
ForwardByEnd(d) == SameSource(d.source) /\ cursor.cursor_valid /\ d.end >= cursor.offset

Forward(d) == SameSource(d.source) /\ cursor.cursor_valid /\ d.start >= cursor.offset

Walks(w) == walk = << >> /\ walk' = << w >> /\ last' = << >> /\ UNCHANGED << text, stride, shape, cursor >>

AdvanceCursor(d) ==
    /\ Good(d) /\ SpanValid(d) /\ Forward(d)
    /\ Walks(Leg("to_start", d, cursor.offset, d.start, cursor.position))

\* line_col_span_global: a prefix is enough where the span begins the source or is empty.
FullScan(d) ==
    /\ Good(d) /\ SpanValid(d) /\ ~Forward(d)
    /\ Walks(Leg(IF d.start = 0 \/ d.start = d.end THEN "prefix" ELSE "span", d, 0, d.end, Initial))

Continue(w) == walk' = << w >> /\ UNCHANGED << text, stride, shape, cursor, last >>

OnTheWay == walk # << >> /\ walk[1].page < ScannedPages(walk[1].d.source, walk[1].to)
Arrived == walk # << >> /\ walk[1].page = ScannedPages(walk[1].d.source, walk[1].to)

\* A turn of the inner loop; line_col_span_step also marks the start of its span.
WalkByte ==
    /\ OnTheWay
    /\ LET w == walk[1]
           marks == w.leg = "span" /\ w.page * stride + w.byte = w.d.start
       IN /\ w.byte < PageFinish(w.d.source, w.page, w.to)
          /\ Continue([w EXCEPT !.byte = @ + 1,
                                !.at = AdvanceByte(@, Page(w.d.source, w.page)[w.byte + 1]),
                                !.start = IF marks THEN w.at ELSE @,
                                !.found = @ \/ marks])

WalkPage ==
    /\ OnTheWay
    /\ LET w == walk[1]
       IN /\ w.byte >= PageFinish(w.d.source, w.page, w.to)
          /\ Continue([w EXCEPT !.page = @ + 1, !.byte = PageStart(w.from, (w.page + 1) * stride)])

\* The second line_col_advance_global, from the start of the span.
StartReached ==
    /\ Arrived /\ walk[1].leg = "to_start"
    /\ LET w == walk[1]
       IN Continue([Leg("to_end", w.d, w.d.start, w.d.end, w.at) EXCEPT !.start = w.at, !.found = TRUE])

SpanStart(w) ==
    IF w.leg = "prefix" /\ w.d.start = 0 THEN Initial
    ELSE IF w.found THEN w.start ELSE w.at

EndReached ==
    /\ Arrived /\ walk[1].leg # "to_start"
    /\ LET w == walk[1]
       IN /\ cursor' = At(w.d.source, w.d.end, w.at)
          /\ last' = << w.d, Mapped([start |-> SpanStart(w), end |-> w.at]) >>
    /\ walk' = << >> /\ UNCHANGED << text, stride, shape >>

\* Spans in either direction, up to one past the end, and one source too many.
Offsets(s) == 0 .. (IF s \in LocatedSource THEN Len(text[s]) + 1 ELSE 0)
Diagnostics ==
    [has_span : {FALSE}, source : {1}, start : {0}, end : {0}]
    \union UNION {[has_span : {TRUE}, source : {s}, start : Offsets(s), end : Offsets(s)] : s \in 1 .. LocatedSourceCount + 1}

LocationNext ==
    \/ \E d \in Diagnostics : NoSpan(d) \/ BadSpan(d)
    \/ \E d \in Diagnostics : BadSlice(d)
    \/ \E d \in Diagnostics : KnownBad(d)
    \/ \E d \in Diagnostics : BadPages(d)
    \/ \E d \in Diagnostics : AdvanceCursor(d)
    \/ \E d \in Diagnostics : FullScan(d)
    \/ WalkByte \/ WalkPage \/ StartReached \/ EndReached

LocationSpec == LocationInit /\ [][LocationNext]_locationVars

----------------------------------------------------------------------------
\* The cursor is a source of the project and a position in it, and a walk keeps
\* to the pages and bytes of the source of its diagnostic.
LocationTypeOK ==
    /\ text \in [LocatedSource -> Seq(Byte)] /\ stride \in Nat \ {0}
    /\ cursor.source \in LocatedSource
    /\ cursor.offset \in 0 .. Len(text[cursor.source])
    /\ cursor.cursor_valid => cursor.has_source /\ cursor.pages_valid
    /\ walk # << >> =>
          LET w == walk[1]
          IN /\ w.d.source \in LocatedSource /\ w.from <= w.to /\ w.to <= Len(text[w.d.source])
             /\ w.page \in 0 .. ScannedPages(w.d.source, w.to)
             /\ OnTheWay => w.byte \in 0 .. Len(Page(w.d.source, w.page))

\* One-based line, and column in characters since the last newline.
Position(s, offset) ==
    LET before == 1 .. offset
        newlines == {i \in before : text[s][i] = "newline"}
    IN [line |-> 1 + Cardinality(newlines),
        col |-> 1 + Cardinality({i \in before : text[s][i] = "other" /\ \A j \in newlines : j < i})]

\* Whatever was located before it, and whichever of the two ways the code takes,
\* a diagnostic gets the line and column of its span, and gets them exactly when
\* the source can be trusted and the span lies in it.
LocationsAreExact ==
    last # << >> =>
        LET d == last[1]
            placed == d.has_span /\ d.source \in LocatedSource /\ shape[d.source] = "good"
                      /\ d.start <= d.end /\ d.end <= Len(text[d.source])
        IN last[2] = IF placed THEN [mapped |-> TRUE, start |-> Position(d.source, d.start), end |-> Position(d.source, d.end)]
                     ELSE [mapped |-> FALSE, start |-> Initial, end |-> Initial]

\* What the cursor remembers stays true of its source: the position belongs to the
\* offset, and pages are called valid only where they are.
CursorIsTrue ==
    cursor.has_source =>
        /\ cursor.pages_valid <=> shape[cursor.source] = "good"
        /\ cursor.cursor_valid => cursor.position = Position(cursor.source, cursor.offset)
=============================================================================
