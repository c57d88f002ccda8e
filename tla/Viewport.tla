-------------------------------- MODULE Viewport --------------------------------
(***************************************************************************)
(* The page kui.c paints: a ring of output lines, a viewport counted in    *)
(* wrapped rows from its end, a cache of the rows' counts                  *)
(* (ui_wrap_index.c), a cache of what each terminal row shows              *)
(* (ui_screen.c), the banner's own cache (banner.c), and the prompt, drawn *)
(* behind the back of them all.                                            *)
(*                                                                         *)
(* Events reach the renderer one at a time in the order the command thread *)
(* posts them (Kui shows that), so each is one step here, and `todo` holds *)
(* the events that thread has decided to post.  The terminal is resized    *)
(* between any two of them; it keeps nothing of what it showed.  A line is *)
(* a kind: where it wraps at each width, and the colour it leaves behind.  *)
(***************************************************************************)
EXTENDS Integers, FiniteSets, SequencesExt

CONSTANTS
    Lines,       \* the kinds of output line
    Starts,      \* Starts[l][w]: first bytes of line l's rows at width w
    Colour,      \* Colour[l]: the SGR state line l ends in, or Keep
    Keep, Empty, \* no colour; a slot of the ring not used yet
    Plain,       \* the SGR state ui_text_style_reset leaves
    Sizes,       \* terminal sizes, [rows, cols]
    MinRows,     \* KUI_MIN_ROWS
    MinCols,     \* the width below which no page is attempted
    Banners,     \* the heights the banner can have
    Inputs,      \* what may be typed
    MaxLines,    \* KUI_MAX_SCROLL_LINES
    MaxEvents    \* bound: lines output, commands entered, what they change of the page,
                 \* resizes, failing allocations and writes

Wrap(cols) == IF cols > 1 THEN cols - 1 ELSE 1

ASSUME BoundAssumption == MaxLines \in Nat \ {0} /\ MinRows \in Nat \ {0} /\ MinCols \in Nat
ASSUME SizeAssumption == \A s \in Sizes : s.rows \in Nat \ {0} /\ s.cols \in Nat \ {0, 1}
\* Every line has a row, and every row takes at least one byte of it.
ASSUME StartAssumption ==
    \A l \in Lines, s \in Sizes :
        LET starts == Starts[l][Wrap(s.cols)]
        IN /\ starts \in Seq(Nat) /\ starts # << >> /\ starts[1] = 0
           /\ \A i, j \in 1 .. Len(starts) : i < j => starts[i] < starts[j]
\* A terminal two rows taller than its banner is left out: a progress line then takes
\* content_top back onto the banner's last row.
ASSUME BannerAssumption ==
    /\ Banners # {} /\ Banners \subseteq Nat \ {0}
    /\ \A s \in Sizes, b \in Banners : s.rows # b + 2

VARIABLES
    log,      \* every line output; KUI_OUTPUT_SEQUENCE is its length
    ring,     \* KUI_SCROLLBACK's lines, head and line_count
    base,     \* KUI_RING_BASE_STYLE
    index,    \* KUI_WRAP_INDEX
    offset,   \* view_offset
    maxOff,   \* KUI_VIEW_MAX_OFF
    mode,     \* KUI_DISPLAY_MODE
    frame,    \* KUI_FRAME_START_SEQUENCE
    churn,    \* KUI_CHURNING_ACTIVE
    input,    \* KUI_INPUT_ACTIVE and _TEXT; the prompt last painted, unless _DIRTY
    term,     \* term_rows and term_cols
    small,    \* KUI_SMALL
    layout,   \* KUI_LAYOUT_TOP and KUI_LAYOUT_BOTTOM
    prompt,   \* KUI_LAST_PROMPT_ROW
    saved,    \* KUI_SAVED_ANCHOR
    banner,   \* the banner's height, prev_count and prev_cols
    screen,   \* KUI_SCREEN: geometry and current rows
    tty,      \* the terminal's size
    phys,     \* what each of its rows shows
    anchor,   \* the row ESC[s saved
    at,       \* what the command thread is in
    todo,     \* the events it posts next
    seen,     \* read_line's rows and cols
    changes,  \* those so far, but for the lines, which log counts
    fresh,    \* history: the last page was painted without a fault and is current
    drawn,    \* history: so is the prompt
    place     \* history: the row the reader put at the top of the view

output == <<log, ring, base>>
view == <<offset, maxOff, index>>
page == <<term, small, layout, prompt, saved, banner, screen>>
terminal == <<tty, phys, anchor>>
thread == <<at, todo, seen>>
history == <<fresh, drawn, place>>
vars == <<output, view, mode, frame, churn, input, page, terminal, thread, changes, history>>

WithinBound == Len(log) + changes < MaxEvents

----------------------------------------------------------------------------
(* What a terminal row can show.                                           *)

Blank == <<"blank">>
Churning == <<"churning">>
Notice == <<"too small">>
Unknown == <<"unknown">>
Row(l, from, style) == <<"line", l, from, style>>
BannerRow(i, height) == <<"banner", i = height>>  \* the last one closes the box
PromptRow(text, cols) == <<"prompt", text, cols>>

\* The state a sequence of lines leaves: its last colour.
Fed(style, lines) ==
    LET coloured == {i \in DOMAIN lines : Colour[lines[i]] # Keep}
    IN IF coloured = {} THEN style ELSE Colour[lines[Max(coloured)]]

\* [k + 1] is the number of rows of the first k lines; the line row r is in, from 0.
Sums(counts) ==
    LET sum[k \in 0 .. Len(counts)] == IF k = 0 THEN 0 ELSE sum[k - 1] + counts[k]
    IN [k \in 1 .. Len(counts) + 1 |-> sum[k - 1]] \o << >>
Locate(prefix, r) == Cardinality({k \in 2 .. Len(prefix) : prefix[k] <= r})

\* How many rows each line takes at width w.
RowCounts(lines, w) == [i \in 1 .. Len(lines) |-> Len(Starts[lines[i]][w])]

\* The rows of a sequence of lines: the line's place in it, its byte and what it shows.
\* Colour applies from a line's first cell, so the row it begins carries the state before.
RowsOf(lines, style, w) ==
    LET prefix == Sums(RowCounts(lines, w))
    IN [r \in 1 .. Last(prefix) |->
          LET i == Locate(prefix, r - 1) + 1
              k == r - prefix[i]
          IN [n |-> i, byte |-> Starts[lines[i]][w][k],
              shows |-> Row(lines[i], Starts[lines[i]][w][k],
                            Fed(style, SubSeq(lines, 1, IF k = 1 THEN i - 1 ELSE i)))]] \o << >>

\* height rows from the one after `first`, and what is under them.
Window(rows, first, height) ==
    [i \in 1 .. height |-> IF first + i <= Len(rows) THEN rows[first + i].shows ELSE Blank]
Under(progress) == IF progress THEN <<Churning, Blank>> ELSE <<Blank>>
BannerRows(height) == [i \in 1 .. height |-> BannerRow(i, height)]

Minimum(a, b) == IF a < b THEN a ELSE b
Monus(a, b) == IF a > b THEN a - b ELSE 0

----------------------------------------------------------------------------
(* ui_wrap_index.c                                                         *)

NoIndex == [cols |-> 0, head |-> 0, rows |-> << >>]

Stored(i) == ring.lines[(ring.head + i) % MaxLines]
Retained == [i \in 1 .. ring.count |-> Stored(i - 1)]
Counts(from, w) == [i \in 1 .. ring.count - from |-> Len(Starts[Stored(from + i - 1)][w])]

\* ui_wrap_index_sync: reuse, extend, shift or rebuild.
Synced(ix, w) ==
    LET known == Len(ix.rows)
        same == ix.cols = w /\ ix.head = ring.head
        shifted == /\ ix.cols = w /\ known = MaxLines /\ ring.count = MaxLines
                   /\ ring.head = (ix.head + 1) % MaxLines
    IN [cols |-> w, head |-> ring.head,
        rows |-> IF same /\ ring.count >= known THEN ix.rows \o Counts(known, w)
                 ELSE IF shifted THEN Tail(ix.rows) \o Counts(MaxLines - 1, w)
                 ELSE Counts(0, w)]

Prefix(ix) == Sums(ix.rows)

\* The first line the display mode shows, counted from 0.
FirstLogical ==
    IF mode = "frame"
    THEN Minimum(Monus(frame, Monus(Len(log), ring.count)), ring.count)
    ELSE 0

----------------------------------------------------------------------------
(* The viewport over a resize.                                             *)

NoAnchor == [valid |-> FALSE, logical |-> 0, byte |-> 0]
HasView(off) == ring.count > 0 /\ off > 0 /\ layout.top > 0

\* kui_anchor_before_resize
AnchorBefore(ix, off) ==
    LET prefix == Prefix(ix)
        above == prefix[FirstLogical + 1]
        total == Last(prefix) - above
        height == layout.bottom - layout.top + 1
        row == above + Monus(total, height + Minimum(off, total))
        logical == Locate(prefix, row)
    IN IF row >= Last(prefix) THEN NoAnchor
       ELSE [valid |-> TRUE, logical |-> logical,
             byte |-> Starts[Stored(logical)][ix.cols][row - prefix[logical + 1] + 1]]

\* Mutant: only a row that begins at the byte or after it is taken.
SegmentOf_ExactOnly(l, w, byte) ==
    Cardinality({k \in 1 .. Len(Starts[l][w]) : Starts[l][w][k] < byte})

\* The row of line l at width w that holds a byte, counted from 0.
SegmentOf(l, w, byte) ==
    Cardinality({k \in 1 .. Len(Starts[l][w]) : Starts[l][w][k] <= byte}) - 1

\* kui_anchor_after_resize: the offset that puts the anchor at the top.
AnchorAfter(ix, height, kept) ==
    LET prefix == Prefix(ix)
        logical == Minimum(kept.logical, ring.count - 1)
        above == prefix[FirstLogical + 1]
        row == prefix[logical + 1] + SegmentOf(Stored(logical), ix.cols, kept.byte)
    IN Monus(Last(prefix) - above, Monus(row, above) + height)

----------------------------------------------------------------------------
(* What the page should show, from the log alone.                          *)

Evicted == Monus(Len(log), MaxLines)
Hidden == IF mode = "frame" /\ frame > Evicted THEN frame ELSE Evicted
TrueRows(w) == RowsOf(SubSeq(log, Hidden + 1, Len(log)), Fed(Plain, SubSeq(log, 1, Hidden)), w)
Height == layout.bottom - layout.top + 1

ExpectedPage ==
    LET rows == TrueRows(Wrap(term.cols))
    IN BannerRows(banner.height)
           \o Window(rows, Monus(Len(rows), offset + Height), Height) \o Under(churn)

(* The reader's place: following the output, a row of a line, or lost.     *)

Following == [line |-> 0, byte |-> 0]
Lost == [line |-> 0, byte |-> 1]

\* The first row of a view of height rows with off rows below it.
Here(rows, off, height) ==
    LET top == rows[Monus(Len(rows), off + height) + 1]
    IN IF off = 0 THEN Following ELSE [line |-> Hidden + top.n, byte |-> top.byte]

\* The row that holds the place is the first of the view, or the nearest one: the oldest
\* when its line is gone, the last full page when fewer rows follow it.
Kept(p, rows, off, height) ==
    LET upTo == {i \in 1 .. Len(rows) :
                    \/ Hidden + rows[i].n < p.line
                    \/ Hidden + rows[i].n = p.line /\ rows[i].byte <= p.byte}
    IN CASE p = Lost -> TRUE
         [] p = Following -> off = 0
         [] OTHER -> off = Monus(Len(rows), Monus(Cardinality(upTo), 1) + height)

\* A place that was kept moves on with the first row of the view.
Settled(p, rows, off, height) ==
    IF Kept(p, rows, off, height) /\ (p # Lost \/ off = 0) THEN Here(rows, off, height) ELSE p

----------------------------------------------------------------------------
(* The prompt, drawn at the saved cursor.                                  *)

\* kui_input_draw: nothing is painted for an unchanged line.
Paints(in) == in.last # PromptRow(in.text, tty.cols)
Drawn(in) == [in EXCEPT !.last = PromptRow(in.text, tty.cols)]
Dirty(in, if) == IF if THEN [in EXCEPT !.last = Unknown] ELSE in

\* Where the saved cursor is on a terminal resized since the last page is not known.
DrawnOn(p, in, row) ==
    IF Paints(in) /\ row \in DOMAIN p /\ p[row] # Unknown
    THEN [p EXCEPT ![row] = PromptRow(in.text, tty.cols)] ELSE p

----------------------------------------------------------------------------
(* kui_render_page_owned                                                   *)

TooLow == tty.rows < MinRows \/ tty.cols < MinCols
NoRoom == banner.height >= tty.rows - 1
SizeChanged == term # tty
NoSize == [rows |-> 0, cols |-> 0]

\* What the top of the view at offset off was, read before the new size is taken over.
LeavesView(off) == SizeChanged /\ term # NoSize /\ ~small /\ HasView(off)
ResizeIndex(off) == IF LeavesView(off) THEN Synced(index, Wrap(term.cols)) ELSE index
ResizeAnchor(off) == IF LeavesView(off) THEN AnchorBefore(ResizeIndex(off), off) ELSE NoAnchor

\* For ViewStays: the place an anchor stands for.  A choice of the reader, made just before
\* the new size is seen, is of the page as it was.
Sought(off, chosen) ==
    IF chosen /\ ResizeAnchor(off).valid THEN Here(TrueRows(Wrap(term.cols)), off, Height)
    ELSE place

\* banner(): only rows that differ from the last frame are painted.
BannerOn(p, prev) ==
    LET all == banner.cols # tty.cols \/ prev = 0
        before == IF all THEN 0 ELSE prev
        Shows(i, height) == IF i <= height THEN BannerRow(i, height) ELSE Blank
    IN [r \in 1 .. Len(p) |->
          IF /\ r <= banner.height \/ r <= before
             /\ all \/ Shows(r, before) # Shows(r, banner.height)
          THEN Shows(r, banner.height) ELSE p[r]] \o << >>

\* Mutant: the prompt of a line just entered is taken for painted.
Moves_NotOnEnter(row) == prompt # 0 /\ prompt # row

\* Input sits outside the cached screen: its old row has to be painted again.
Moves(row) == prompt # 0 /\ (prompt # row \/ ~input.active)

Rows(n, content) == [r \in 1 .. n |-> content]
Invalidated == [screen EXCEPT !.current = Rows(Len(@), Unknown)]

\* A window too small for the page shows a notice; the anchor is kept for later.
RenderSmall(off, chosen) ==
    /\ TooLow \/ NoRoom
    /\ term' = tty
    /\ small' = TRUE
    /\ saved' = IF ResizeAnchor(off).valid THEN ResizeAnchor(off) ELSE saved
    /\ index' = ResizeIndex(off)
    /\ banner' = IF ~TooLow THEN [banner EXCEPT !.prev = banner.height, !.cols = tty.cols]
                 ELSE IF SizeChanged THEN [banner EXCEPT !.prev = 0, !.cols = 0] ELSE banner
    /\ layout' = [top |-> 0, bottom |-> 0]
    /\ prompt' = 0
    /\ screen' = Invalidated
    /\ input' = Dirty(input, SizeChanged \/ (small /\ ~TooLow))
    /\ phys' = IF TooLow /\ small /\ ~SizeChanged THEN phys
               ELSE <<Notice>> \o Rows(tty.rows - 1, Blank)
    /\ offset' = off
    /\ place' = IF ~chosen \/ saved'.valid THEN Sought(off, chosen)
                ELSE IF off = 0 THEN Following ELSE Lost
    /\ UNCHANGED <<maxOff, anchor, changes, fresh, drawn>>

PageIndex(off) ==
    IF ring.count = 0 THEN ResizeIndex(off) ELSE Synced(ResizeIndex(off), Wrap(tty.cols))

\* What the page puts at its top, if not what the offset says.
PageAnchor(off) == IF small /\ saved.valid THEN saved ELSE ResizeAnchor(off)

\* kui_scrollback_render: the limit of the offset and the first row of the view.
ViewOf(prefix, wanted, height) ==
    LET above == prefix[FirstLogical + 1]
        total == IF ring.count = 0 THEN 0 ELSE Last(prefix) - above
        most == Monus(total, height)
        now == Minimum(wanted, most)
    IN [offset |-> now, maxOff |-> most, total |-> total,
        row |-> above + Monus(total, now + height),
        rendered |-> Minimum(Monus(total, now), height)]

\* kui_scrollback_render: the rows to paint, from the line the view begins in.
DesiredRows(prefix, shown, height) ==
    LET start == Locate(prefix, shown.row)
        lines == SubSeq(Retained, start + 1, ring.count)
        style == Fed(base, SubSeq(Retained, 1, start))
    IN Window(IF shown.total = 0 THEN << >> ELSE RowsOf(lines, style, Wrap(tty.cols)),
              shown.row - prefix[start + 1], height) \o Under(churn)

\* ui_prompt_row
PromptUnder(top, rendered) ==
    LET under == Minimum(top + rendered, tty.rows)
    IN IF churn /\ under >= tty.rows - 1 THEN tty.rows ELSE under

\* ui_screen_begin, ui_screen_invalidate_row: what the rows from top on are taken to show.
Current(top, row) ==
    LET valid == /\ ~SizeChanged /\ ~small
                 /\ screen.rows = tty.rows /\ screen.cols = tty.cols /\ screen.top = top
    IN [i \in 1 .. tty.rows - top + 1 |->
            IF valid /\ ~(Moves(row) /\ top + i - 1 = prompt) THEN screen.current[i] ELSE Unknown]

\* ui_screen_commit: rows that differ are painted.
Commit(before, top, current, desired, fault) ==
    SubSeq(before, 1, top - 1) \o
        [i \in 1 .. Len(desired) |->
            IF fault # "none" THEN Unknown
            ELSE IF current[i] = desired[i] THEN before[top + i - 1] ELSE desired[i]]

CommittedScreen(top, desired, fault) ==
    IF fault = "begin" THEN IF SizeChanged \/ small THEN Invalidated ELSE screen
    ELSE [rows |-> tty.rows, cols |-> tty.cols, top |-> top,
          current |-> IF fault = "none" THEN desired ELSE Rows(Len(desired), Unknown)]

\* The page at view offset off.  "begin": the screen's rows cannot be allocated, and the
\* page is painted directly; "commit": a write fails.  Neither is followed row by row.
RenderPage(off, chosen, fault) ==
    /\ ~TooLow /\ ~NoRoom
    /\ fault # "none" => WithinBound /\ (fault = "commit" \/ screen.rows # tty.rows)
    /\ changes' = IF fault = "none" THEN changes ELSE changes + 1
    /\ term' = tty
    /\ small' = FALSE
    /\ saved' = IF small THEN NoAnchor ELSE saved
    /\ banner' = [banner EXCEPT !.prev = banner.height, !.cols = tty.cols]
    /\ fresh' = (fault = "none")
    /\ \E top \in {banner.height + 1}, bottom \in {tty.rows - (IF churn THEN 2 ELSE 1)} :
       \E height \in {bottom - top + 1}, ix \in {PageIndex(off)}, back \in {PageAnchor(off)} :
       \E wanted \in {IF back.valid /\ ring.count > 0 THEN AnchorAfter(ix, height, back) ELSE off} :
       \E shown \in {ViewOf(Prefix(ix), wanted, height)} :
       \E row \in {PromptUnder(top, shown.rendered)},
          desired \in {DesiredRows(Prefix(ix), shown, height)}, rows \in {TrueRows(Wrap(tty.cols))} :
       \E in \in {Dirty(input, \/ SizeChanged \/ small \/ Moves(row)
                               \/ fault = "begin" /\ prompt # 0)},
          painted \in {Commit(BannerOn(IF small THEN Rows(tty.rows, Blank) ELSE phys,
                                       IF SizeChanged \/ small THEN 0 ELSE banner.prev),
                              top, Current(top, row), desired, fault)} :
          /\ index' = ix
          /\ offset' = shown.offset
          /\ maxOff' = shown.maxOff
          /\ layout' = [top |-> top, bottom |-> bottom]
          /\ prompt' = row
          /\ screen' = CommittedScreen(top, desired, fault)
          /\ anchor' = IF input.active THEN row ELSE anchor
          /\ input' = IF input.active THEN Drawn(in) ELSE in
          /\ phys' = IF input.active THEN DrawnOn(painted, in, row) ELSE painted
          /\ drawn' = (fault = "none" /\ (drawn \/ (input.active /\ Paints(in))))
          /\ place' = IF chosen /\ ~back.valid THEN Here(rows, shown.offset, height)
                      ELSE Settled(Sought(off, chosen), rows, shown.offset, height)

\* off is the view offset, which the reader may have just chosen.
Render(off, chosen) ==
    \/ RenderSmall(off, chosen)
    \/ \E fault \in {"none", "begin", "commit"} : RenderPage(off, chosen, fault)

----------------------------------------------------------------------------
(* kui_handle_event                                                        *)

\* UI_EVENT_RENDER
RenderEvent ==
    /\ Render(offset, FALSE)
    /\ UNCHANGED <<output, mode, frame, churn, tty>>

\* UI_EVENT_SCROLL, kui_scrollback_scroll_by: limited by the last page's KUI_VIEW_MAX_OFF.
ScrollEvent(rows) ==
    LET to == IF rows >= 0
              THEN IF rows > Monus(maxOff, offset) THEN maxOff ELSE offset + rows
              ELSE Monus(offset, -rows)
    IN IF to = offset
       THEN UNCHANGED <<output, view, mode, frame, churn, input, page, terminal, changes, history>>
       ELSE Render(to, TRUE) /\ UNCHANGED <<output, mode, frame, churn, tty>>

\* UI_EVENT_OUTPUT, kui_scrollback_push_span
OutputEvent(l) ==
    LET full == ring.count = MaxLines
        next == (ring.head + 1) % MaxLines
        slot == (ring.head + (IF full THEN 0 ELSE ring.count)) % MaxLines
    IN /\ log' = Append(log, l)
       /\ ring' = [lines |-> [ring.lines EXCEPT ![slot] = l],
                   head |-> IF full THEN next ELSE ring.head,
                   count |-> IF full THEN MaxLines ELSE ring.count + 1]
       /\ base' = IF full THEN Fed(base, <<ring.lines[slot]>>) ELSE base
       /\ index' = IF full /\ next = 0 THEN NoIndex ELSE index
       /\ offset' = IF offset > 0 THEN offset + Len(Starts[l][Wrap(term.cols)]) ELSE offset
       \* a saved anchor counts lines from a head that now moves on
       /\ place' = IF full /\ saved.valid THEN Lost ELSE place
       /\ fresh' = FALSE
       /\ UNCHANGED <<maxOff, mode, frame, churn, input, page, terminal, changes, drawn>>

\* UI_EVENT_INPUT
InputEvent(text) ==
    LET in == [input EXCEPT !.text = text]
        draws == input.active /\ ~small
    IN /\ input' = IF draws THEN Drawn(in) ELSE in
       /\ phys' = IF draws THEN DrawnOn(phys, in, anchor) ELSE phys
       /\ drawn' = (drawn \/ (draws /\ fresh /\ Paints(in)))
       /\ UNCHANGED <<output, view, mode, frame, churn, page, tty, anchor, changes, fresh, place>>

\* UI_EVENT_INPUT_BEGIN: the cursor is where the last page left it.
InputBeginEvent ==
    /\ input' = Dirty([input EXCEPT !.active = TRUE], TRUE)
    /\ anchor' = IF small THEN anchor ELSE prompt
    /\ drawn' = FALSE
    /\ UNCHANGED <<output, view, mode, frame, churn, page, tty, phys, changes, fresh, place>>

\* UI_EVENT_INPUT_END
InputEndEvent ==
    /\ input' = Dirty([input EXCEPT !.active = FALSE], TRUE)
    /\ fresh' = FALSE
    /\ UNCHANGED <<output, view, mode, frame, churn, page, terminal, drawn, place>>

\* A view set back to its end; an anchor saved for a small window is not.
BackToEnd == place' = IF saved.valid THEN Lost ELSE Following

\* UI_EVENT_FRAME_START
FrameStartEvent ==
    /\ frame' = Len(log)
    /\ offset' = 0
    /\ fresh' = FALSE
    /\ BackToEnd
    /\ UNCHANGED <<output, maxOff, index, mode, churn, input, page, terminal, changes, drawn>>

\* UI_EVENT_MODE
ModeEvent(m) ==
    /\ mode' = m
    /\ offset' = 0
    /\ maxOff' = 0
    /\ screen' = Invalidated
    /\ fresh' = FALSE
    /\ BackToEnd
    /\ UNCHANGED <<output, index, frame, churn, input, term, small, layout, prompt, saved,
                   banner, terminal, drawn>>

\* UI_EVENT_CHURNING, UI_EVENT_CHURNING_CLEAR
ChurnEvent(on) ==
    /\ churn' = on
    /\ fresh' = FALSE
    /\ UNCHANGED <<output, view, mode, frame, input, page, terminal, drawn, place>>

----------------------------------------------------------------------------
(* The command thread, in kaminowaku.c and kio.c, and the terminal.        *)

Init ==
    /\ log = << >>
    /\ ring = [lines |-> [i \in 0 .. MaxLines - 1 |-> Empty], head |-> 0, count |-> 0]
    /\ base = Plain /\ index = NoIndex
    /\ offset = 0 /\ maxOff = 0
    /\ mode = "continuous" /\ frame = 0 /\ churn = FALSE
    /\ input = [active |-> FALSE, text |-> "", last |-> Unknown]
    /\ term = NoSize /\ small = FALSE
    /\ layout = [top |-> 0, bottom |-> 0] /\ prompt = 0 /\ saved = NoAnchor
    \* nothing is selected yet
    /\ banner = [height |-> Min(Banners), prev |-> 0, cols |-> 0]
    /\ screen = [rows |-> 0, cols |-> 0, top |-> 0, current |-> << >>]
    /\ tty \in Sizes
    /\ phys = Rows(tty.rows, Blank) /\ anchor = 0
    /\ at = "command" /\ todo = <<"RENDER", "RENDER", "BEGIN", "INPUT">> /\ seen = NoSize
    /\ changes = 0
    /\ fresh = FALSE /\ drawn = FALSE /\ place = Following

\* The renderer handles the next event posted.  INPUT shows what has been typed.
Handle ==
    /\ todo # << >>
    /\ todo' = Tail(todo)
    /\ CASE Head(todo) = "RENDER" -> RenderEvent
         [] Head(todo) = "BEGIN" -> InputBeginEvent
         [] Head(todo) = "INPUT" -> InputEvent(IF at = "prompt" THEN input.text ELSE "")
         [] Head(todo) = "FRAME" -> FrameStartEvent
    /\ at' = IF Head(todo) = "INPUT" THEN "prompt" ELSE at
    \* read_line asks for the size just before it begins
    /\ seen' = IF Head(todo) = "BEGIN" THEN tty ELSE seen

AtPrompt == at = "prompt" /\ todo = << >>
InCommand == at = "command" /\ todo = << >>
Then(events) == todo' = events /\ UNCHANGED <<at, seen>>
Change == WithinBound /\ changes' = changes + 1

Type ==
    /\ AtPrompt
    /\ \E text \in Inputs : InputEvent(text)
    /\ Then(<< >>)

\* kio_flush_wheel
Scroll ==
    /\ AtPrompt
    /\ \E rows \in {-1, 1} : ScrollEvent(rows)
    /\ Then(<<"INPUT">>)

\* command_history_notice
HistoryNotice ==
    /\ AtPrompt /\ WithinBound
    /\ \E l \in Lines : OutputEvent(l)
    /\ Then(<<"RENDER", "INPUT">>)

\* The poll in read_line times out at a new size.
NoticeSize ==
    /\ AtPrompt /\ seen # tty
    /\ RenderEvent
    /\ seen' = tty
    /\ UNCHANGED <<at, todo>>

Enter ==
    /\ AtPrompt
    /\ InputEndEvent /\ Change
    /\ at' = "command" /\ todo' = <<"FRAME">> /\ seen' = NoSize

\* What a command may post.
Output ==
    /\ InCommand /\ WithinBound
    /\ \E l \in Lines : OutputEvent(l)
    /\ Then(<< >>)
RenderOnce == InCommand /\ RenderEvent /\ Then(<< >>)
Progress == InCommand /\ Change /\ ChurnEvent(~churn) /\ Then(<< >>)
SetMode == InCommand /\ Change /\ (\E m \in {"continuous", "frame"} : ModeEvent(m)) /\ Then(<< >>)

\* The banner shows the command's context.
ContextChanges ==
    /\ InCommand /\ Change
    /\ \E b \in Banners \ {banner.height} : banner' = [banner EXCEPT !.height = b]
    /\ fresh' = FALSE
    /\ Then(<< >>)
    /\ UNCHANGED <<output, view, mode, frame, churn, input, term, small, layout, prompt, saved,
                   screen, terminal, drawn, place>>

CommandEnds ==
    /\ InCommand
    /\ Then(<<"RENDER", "BEGIN", "INPUT">>)
    /\ UNCHANGED <<output, view, mode, frame, churn, input, page, terminal, changes, history>>

\* At most once between two pages: a terminal resized back before the next page is
\* not noticed, and left out.
Resize ==
    /\ tty = term
    /\ tty' \in Sizes \ {tty}
    /\ phys' = Rows(tty'.rows, Unknown)
    /\ Change
    /\ fresh' = FALSE
    /\ UNCHANGED <<output, view, mode, frame, churn, input, page, anchor, thread, drawn, place>>

Next ==
    \/ Handle \/ Type \/ Scroll \/ HistoryNotice \/ NoticeSize \/ Enter
    \/ Output \/ RenderOnce \/ Progress \/ SetMode \/ ContextChanges \/ CommandEnds
    \/ Resize

Spec == Init /\ [][Next]_vars

----------------------------------------------------------------------------
(* Once a page is painted without a fault the terminal shows exactly what  *)
(* the lines output, the display mode and the viewport say, row for row    *)
(* with their colours, the banner over them and the prompt under them,     *)
(* whatever was cached before.  A prompt lost to a fault is shown again    *)
(* when it is next typed at: a failed page does not set KUI_INPUT_DIRTY.   *)
ScreenIsTrue ==
    fresh /\ ~small =>
        LET expected == ExpectedPage
        IN \A r \in 1 .. tty.rows :
            IF r # prompt THEN phys[r] = expected[r]
            ELSE IF ~input.active THEN phys[r] = Blank
            ELSE drawn => phys[r] = PromptRow(input.text, tty.cols)

(* A reader who follows the output stays at its end, and one who scrolled  *)
(* up keeps the row at the top, whatever is output or evicted and however  *)
(* the terminal is resized, through a window too small for the page too.   *)
(* The row can only give way when its line is evicted or a page is left    *)
(* half empty after it.  A place is lost when lines are evicted or a       *)
(* command is entered while the window is too small.                       *)
ViewStays == fresh /\ ~small => Kept(place, TrueRows(Wrap(term.cols)), offset, Height)

=============================================================================
