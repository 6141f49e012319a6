--------------------------------- MODULE Scroll ---------------------------------
(***************************************************************************)
(* The scrolling region of a page (reg.c) with the draws of win.c that     *)
(* fill it and the keys that move its highlight.  All of it runs in the    *)
(* display thread.                                                         *)
(*                                                                         *)
(* Every region is a part of one screen, so what the display thread writes *)
(* elsewhere, a warning above all, may wipe the rows of this one.          *)
(*                                                                         *)
(* What a line says is its text.  Every draw changes the texts it saves;   *)
(* a line it does not save keeps its own.                                  *)
(***************************************************************************)
EXTENDS Integers

CONSTANTS
  Rows,      \* nlines_scr
  MaxLines,  \* WIN_NLINES_MAX
  NrProc     \* target_procs.nr_proc of the automatic start

\* A page needs a screen of 24 lines (page_show), which leaves a list some rows; the
\* list of the overview has one, for its one line.
ASSUME ScrollConstants ==
  /\ Rows \in Nat /\ Rows > 0
  /\ MaxLines \in Nat /\ NrProc \in 0..MaxLines

VARIABLES
  total,       \* nlines_total
  lines,       \* the texts in buf
  highlight,   \* scroll.highlight
  page_start,  \* scroll.page_start
  screen,      \* what the rows of the window show
  marked,      \* the rows in reverse video
  complete,    \* the rows were last written for all of the lines, and not wiped since
  ready        \* target_procs.ready

vars == <<total, lines, highlight, page_start, screen, marked, complete, ready>>

RowSet == 0..(Rows - 1)
Texts == {"zero", "odd", "even"}
Line(i, buf) == [line |-> i, text |-> buf[i]]
Blank == [line |-> -1, text |-> "zero"]
Wiped == [r \in RowSet |-> Blank]

TypeOK ==
  /\ total \in 0..MaxLines
  /\ lines \in [0..(MaxLines - 1) -> Texts]
  /\ highlight \in -1..(MaxLines - 1) /\ page_start \in 0..MaxLines
  /\ screen \in [RowSet -> [line : -1..(MaxLines - 1), text : Texts]]
  /\ marked \subseteq RowSet
  /\ complete \in BOOLEAN /\ ready \in BOOLEAN
  /\ highlight = -1 => page_start = 0

\* A region when its window is made: reg_init, reg_buf_init, reg_scroll_init.
Fresh(t, l, h, p, s, m, c) ==
  /\ t = 0 /\ l = [i \in 0..(MaxLines - 1) |-> "zero"]
  /\ h = -1 /\ p = 0
  /\ s = Wiped /\ m = {} /\ c = FALSE

Init ==
  /\ Fresh(total, lines, highlight, page_start, screen, marked, complete)
  /\ ready \in BOOLEAN

-----------------------------------------------------------------------------
(* reg_scroll_show *)

Least(a, b) == IF a < b THEN a ELSE b

\* (faulty) the line after the last one
ClampedPast(n) == IF highlight > n THEN n ELSE highlight
Clamped(n) == IF highlight >= n THEN n - 1 ELSE highlight

\* (faulty) pages start at multiples of the rows
PageAligned(h) == IF h < 0 THEN 0 ELSE Rows * (h \div Rows)
\* the page that shows line h; the division of C rounds -1 to 0
PageOf(h) ==
  IF h >= page_start THEN page_start + Rows * ((h - page_start) \div Rows)
  ELSE IF h < 0 THEN 0 ELSE Rows * (h \div Rows)

ScrollShow(n, buf, asked) ==
  LET h == IF highlight = -1 THEN 0 ELSE Clamped(n)
      start == IF highlight = -1 THEN 0 ELSE PageOf(h)
      stop == start + Least(asked, Rows)
      end == IF highlight = -1 THEN stop ELSE Least(stop, n)
  IN /\ page_start' = start
     /\ screen' = [r \in RowSet |-> IF start + r < end THEN Line(start + r, buf) ELSE Blank]
     /\ IF h \in start..(end - 1)
        THEN marked' = {h - start} /\ highlight' = h
        ELSE marked' = {} /\ UNCHANGED highlight

-----------------------------------------------------------------------------
(* The draws *)

\* the texts of the first `saved' lines
Saved(saved) ==
  [i \in DOMAIN lines |->
     IF i < saved THEN IF lines[i] = "odd" THEN "even" ELSE "odd" ELSE lines[i]]

Draw(n, saved, asked) ==
  /\ total' = n /\ complete' = (asked = n)
  /\ lines' = Saved(saved)
  /\ ScrollShow(n, Saved(saved), asked)

\* The sort array may hold fewer processes than were counted (topnproc_data_show).  Each
\* draw starts with an erased region, so a warning in the middle of it does no harm.
Refresh ==
  \E n \in 0..MaxLines : \E saved \in 0..n : Draw(n, saved, n) /\ UNCHANGED ready

\* The draw of the home page that ends in proc_monitor shows nr_proc lines.
AutoStart ==
  /\ ~ready /\ ready' = TRUE
  /\ \E n \in 0..MaxLines : \E saved \in 0..n : Draw(n, saved, NrProc)

\* win_warn_msg, when a draw finds no process, no map or no sampling, and when a page
\* that is shown again first waits for a sample: its pad is over the rows.
Warn ==
  /\ screen' = Wiped /\ marked' = {} /\ complete' = FALSE
  /\ UNCHANGED <<total, lines, highlight, page_start, ready>>

\* (faulty) reg_scroll_init is left to reset the page
ResizeKept ==
  /\ Fresh(total', lines', highlight', 0, screen', marked', complete')
  /\ UNCHANGED <<page_start, ready>>
\* page_win_destroy, and the window made again
Resize ==
  /\ Fresh(total', lines', highlight', page_start', screen', marked', complete')
  /\ UNCHANGED ready

-----------------------------------------------------------------------------
(* reg_line_scroll *)

\* reg_hidden_show
Hidden(start) ==
  [r \in RowSet |-> IF start + r < total THEN Line(start + r, lines) ELSE Blank]

\* Some lines are written again.  What would be outside the window is not.
Written(shown, start, which) ==
  [r \in RowSet |-> IF start + r \in which THEN Line(start + r, lines) ELSE shown[r]]

\* (faulty) the page is turned without its lines
MoveUnshown(h, next, start) ==
  /\ page_start' = start /\ highlight' = next
  /\ screen' = Written(screen, start, {h, next})
  /\ marked' = (IF start = page_start THEN marked \ {h - start} ELSE {})
               \cup ({next - start} \cap RowSet)
  /\ complete' = (complete \/ start # page_start)
  /\ UNCHANGED <<total, lines, ready>>
\* Turn the page if need be, put out line h and light the next one.
Move(h, next, start) ==
  LET turned == start # page_start
      shown == IF turned THEN Hidden(start) ELSE screen
  IN /\ page_start' = start /\ highlight' = next
     /\ screen' = Written(shown, start, {h, next})
     /\ marked' = ((IF turned THEN {} ELSE marked) \ {h - start})
                  \cup ({next - start} \cap RowSet)
     /\ complete' = (complete \/ turned)
     /\ UNCHANGED <<total, lines, ready>>

From == IF highlight = -1 THEN 0 ELSE highlight

Up ==
  /\ From - 1 >= 0
  /\ Move(From, From - 1, IF From - 1 < page_start THEN page_start - 1 ELSE page_start)

Down ==
  /\ From + 1 < total
  /\ Move(From, From + 1,
          IF (From + 1 - page_start) % Rows = 0 THEN page_start + 1 ELSE page_start)

Next == Refresh \/ AutoStart \/ Warn \/ Resize \/ Up \/ Down

Spec == Init /\ [][Next]_vars

-----------------------------------------------------------------------------
\* The rows show a whole page of a list that is not empty.
Whole == complete /\ total > 0

\* At most one row is in reverse video, and it shows the line that ENTER opens,
\* whatever the draws, the warnings and the keys before it (reg_line_scroll,
\* reg_scroll_show, win_warn_msg, topnproc_win_scrollenter).
MarkIsChosen ==
  marked # {} =>
    marked = {highlight - page_start}
    /\ screen[highlight - page_start] = Line(highlight, lines)

\* On a whole page, one that a draw or a turn of the page wrote and no warning has
\* wiped since, the line that ENTER opens is marked and is one of the list
\* (reg_scroll_show after lines have gone, reg_line_scroll at an edge).
ChosenIsMarked == Whole => marked # {} /\ highlight \in 0..(total - 1)

\* What is marked is what ENTER opens, and on a whole page something is: the two
\* halves of the highlight, kept apart for the rows that were wiped by a warning or
\* written for fewer lines than there are (reg_scroll_show, reg_line_scroll,
\* win_warn_msg, topnproc_win_scrollenter).
HighlightRight == MarkIsChosen /\ ChosenIsMarked

\* No row ever shows the line of another row, or an old text, and on a whole page no
\* row is left out: the keys, which write two lines only, never mix two pages, not even
\* on rows that a warning has wiped (reg_hidden_show, reg_scroll_show, win_warn_msg).
PageShown ==
  \A r \in RowSet :
    /\ screen[r] # Blank => /\ page_start + r \in DOMAIN lines
                            /\ screen[r] = Line(page_start + r, lines)
    /\ Whole => (screen[r] # Blank <=> page_start + r < total)

\* A refresh that still has the selected line moves neither the selection nor the
\* page, also when it is the first one after a warning (reg_scroll_show).
SelectionKept ==
  [][Refresh /\ highlight \in 0..(Least(total, total') - 1) =>
       UNCHANGED <<highlight, page_start>>]_vars
=============================================================================
