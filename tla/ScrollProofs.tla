------------------------------ MODULE ScrollProofs ------------------------------
(***************************************************************************)
(* Theorems on Scroll, for any number of rows, lines and processes.        *)
(***************************************************************************)
EXTENDS Scroll, TLAPS

\* The page never starts behind the highlight, even one a draw did not show.
Ordered == page_start <= From

\* The highlight is not past the page, unless the list ends on the page; and a page
\* other than the first has a line of the list.
InReach ==
  /\ From < page_start + Rows \/ total <= page_start + Rows
  /\ page_start = 0 \/ page_start < total

IInv == TypeOK /\ Ordered /\ InReach /\ MarkIsChosen /\ ChosenIsMarked /\ PageShown

\* Where the division by the rows leaves a line.
LEMMA Division ==
  ASSUME NEW a \in Nat
  PROVE  /\ Rows * (a \div Rows) \in Nat
         /\ Rows * (a \div Rows) <= a /\ a < Rows * (a \div Rows) + Rows
BY ScrollConstants

\* The page reg_scroll_show chooses has the line on it.
LEMMA PageHasLine ==
  ASSUME page_start \in Nat, NEW h \in Int, h >= -1
  PROVE  /\ PageOf(h) \in Nat
         /\ h >= 0 => PageOf(h) <= h /\ h < PageOf(h) + Rows
         /\ h < 0 => PageOf(h) = 0
<1>1. CASE h >= page_start
  BY <1>1, Division, ScrollConstants DEF PageOf
<1>2. CASE h < page_start
  BY <1>2, Division, ScrollConstants DEF PageOf
<1> QED
  BY <1>1, <1>2

-----------------------------------------------------------------------------
\* A new region is of its types.
LEMMA FreshTypes ==
  ASSUME NEW t, NEW l, NEW h, NEW p, NEW s, NEW m, NEW n, Fresh(t, l, h, p, s, m, n)
  PROVE  /\ t \in 0..MaxLines /\ n \in BOOLEAN
         /\ l \in [0..(MaxLines - 1) -> Texts]
         /\ h \in -1..(MaxLines - 1) /\ p \in 0..MaxLines
         /\ s \in [RowSet -> [line : -1..(MaxLines - 1), text : Texts]]
         /\ m \subseteq RowSet /\ p = 0
<1>1. n \in BOOLEAN
  BY Zenon DEF Fresh
<1> QED
  BY <1>1, ScrollConstants DEF Fresh, Wiped, RowSet, Texts, Blank

LEMMA InitInv == Init => IInv
<1> SUFFICES ASSUME Init PROVE IInv
  OBVIOUS
<1>1. TypeOK
  BY FreshTypes DEF Init, TypeOK
<1> QED
  BY <1>1, ScrollConstants
     DEF Init, Fresh, Wiped, IInv, Ordered, InReach, From, MarkIsChosen, ChosenIsMarked, PageShown, Whole

LEMMA ResizeInv == Resize /\ TypeOK => IInv'
<1> SUFFICES ASSUME Resize, TypeOK PROVE IInv'
  OBVIOUS
<1>1. TypeOK'
  BY FreshTypes DEF Resize, TypeOK
<1> QED
  BY <1>1, ScrollConstants
     DEF Resize, Fresh, Wiped, IInv, Ordered, InReach, From, MarkIsChosen, ChosenIsMarked, PageShown, Whole

-----------------------------------------------------------------------------
(* A line that is drawn is a line of the buffer. *)

LEMMA LineType ==
  ASSUME NEW i \in 0..(MaxLines - 1), NEW buf \in [0..(MaxLines - 1) -> Texts]
  PROVE  Line(i, buf) \in [line : -1..(MaxLines - 1), text : Texts]
BY ScrollConstants DEF Line

LEMMA BlankType == Blank \in [line : -1..(MaxLines - 1), text : Texts]
BY ScrollConstants DEF Blank, Texts

LEMMA LineShown ==
  ASSUME NEW i \in 0..(MaxLines - 1), NEW buf
  PROVE  Line(i, buf) # Blank
<1>1. Line(i, buf).line = i /\ Blank.line = -1
  BY DEF Line, Blank
<1> QED
  BY <1>1, ScrollConstants

LEMMA SavedType ==
  ASSUME TypeOK, NEW n \in Nat
  PROVE  Saved(n) \in [0..(MaxLines - 1) -> Texts]
BY DEF TypeOK, Saved, Texts

LEMMA DrawInv ==
  ASSUME TypeOK, Ordered, NEW n \in 0..MaxLines, NEW saved \in 0..n,
         NEW asked \in 0..MaxLines, Draw(n, saved, asked), ready' \in BOOLEAN
  PROVE  IInv'
<1> DEFINE buf == Saved(saved)
           h == IF highlight = -1 THEN 0 ELSE Clamped(n)
           start == IF highlight = -1 THEN 0 ELSE PageOf(h)
           stop == start + Least(asked, Rows)
           end == IF highlight = -1 THEN stop ELSE Least(stop, n)
<1>0. /\ MaxLines \in Nat /\ Rows \in Nat /\ Rows > 0 /\ n \in Nat /\ asked \in Nat
      /\ highlight \in Int /\ highlight >= -1 /\ highlight <= MaxLines - 1
      /\ page_start \in Nat /\ n <= MaxLines /\ asked <= MaxLines
      /\ highlight = -1 => page_start = 0
  BY ScrollConstants DEF TypeOK
<1>1. /\ total' = n /\ complete' = (asked = n) /\ lines' = buf
      /\ page_start' = start
      /\ screen' = [r \in RowSet |-> IF start + r < end THEN Line(start + r, buf) ELSE Blank]
      /\ \/ h \in start..(end - 1) /\ marked' = {h - start} /\ highlight' = h
         \/ h \notin start..(end - 1) /\ marked' = {} /\ highlight' = highlight
  BY DEF Draw, ScrollShow
<1>2. buf \in [0..(MaxLines - 1) -> Texts]
  BY SavedType
<1>3. /\ h \in Int /\ h >= -1 /\ (highlight # -1 => h <= highlight /\ h < n)
      /\ (n > 0 => h >= 0) /\ (highlight = -1 => h = 0)
  BY <1>0 DEF Clamped
<1>31. highlight # -1 /\ h # highlight => h = n - 1
  BY <1>0 DEF Clamped
<1>4. /\ start \in Nat /\ (h < 0 => start = 0) /\ (highlight = -1 => start = 0)
      /\ (h >= 0 => start <= h /\ h < start + Rows)
  BY <1>0, <1>3, PageHasLine
<1>5. /\ end \in Int /\ end <= MaxLines /\ end <= start + Rows
      /\ (highlight # -1 => end <= n)
  BY <1>0, <1>3, <1>4 DEF Least
<1>6. asked = n /\ n > 0 =>
        /\ h < end
        /\ \A r \in RowSet : start + r < end <=> start + r < n
  BY <1>0, <1>3, <1>4 DEF Least, RowSet
<1> HIDE DEF buf, h, start, end
<1>7. TypeOK'
  <2>1. screen' \in [RowSet -> [line : -1..(MaxLines - 1), text : Texts]]
    <3>1. ASSUME NEW r \in RowSet, start + r < end
          PROVE  start + r \in 0..(MaxLines - 1)
      BY <1>0, <1>4, <1>5, <3>1 DEF RowSet
    <3> QED
      BY <1>1, <1>2, <3>1, LineType, BlankType
  <2>2. marked' \subseteq RowSet
    BY <1>0, <1>1, <1>4, <1>5 DEF RowSet
  <2>3. highlight' \in -1..(MaxLines - 1) /\ page_start' \in 0..MaxLines
    BY <1>0, <1>1, <1>3, <1>4, <1>5
  <2>4. highlight' = -1 => page_start' = 0
    BY <1>0, <1>1, <1>3, <1>4
  <2>5. complete' \in BOOLEAN
    BY <1>1, Zenon
  <2> QED
    BY <1>0, <1>1, <1>2, <2>1, <2>2, <2>3, <2>4, <2>5 DEF TypeOK
<1>8. Ordered' /\ InReach'
  <2>1. Ordered'
    BY <1>0, <1>1, <1>3, <1>4 DEF Ordered, From
  <2>2. From' < start + Rows \/ n <= start + Rows
    <3>1. CASE highlight' = h
      BY <1>0, <1>3, <1>4, <3>1 DEF From
    <3>2. CASE highlight' = highlight /\ highlight = -1
      BY <1>0, <1>4, <3>2 DEF From
    <3>3. CASE highlight' = highlight /\ highlight # -1 /\ h = n - 1
      BY <1>0, <1>3, <1>4, <3>3
    <3> QED
      BY <1>1, <1>31, <3>1, <3>2, <3>3
  <2>3. start = 0 \/ start < n
    BY <1>0, <1>3, <1>4
  <2> QED
    BY <1>1, <2>1, <2>2, <2>3 DEF InReach
<1>9. MarkIsChosen'
  <2>1. CASE marked' = {}
    BY <2>1 DEF MarkIsChosen
  <2>2. CASE h \in start..(end - 1) /\ marked' = {h - start} /\ highlight' = h
    <3>1. h - start \in RowSet /\ start + (h - start) = h /\ h < end
      BY <1>0, <1>3, <1>4, <1>5, <2>2 DEF RowSet
    <3>2. screen'[h - start] = Line(h, buf)
      BY <1>1, <3>1
    <3> QED
      BY <1>1, <2>2, <3>2 DEF MarkIsChosen
  <2> QED
    BY <1>1, <2>1, <2>2
<1>12. Whole' <=> asked = n /\ n > 0
  BY <1>1, Zenon DEF Whole
<1>10. ChosenIsMarked'
  <2> SUFFICES ASSUME asked = n, n > 0
               PROVE  marked' # {} /\ highlight' \in 0..(total' - 1)
    BY <1>12, Zenon DEF ChosenIsMarked
  <2>1. h \in start..(end - 1) /\ h \in 0..(n - 1)
    BY <1>0, <1>3, <1>4, <1>5, <1>6
  <2>2. marked' = {h - start} /\ highlight' = h
    BY <1>1, <2>1
  <2> QED
    BY <1>1, <2>1, <2>2
<1>11. PageShown'
  <2> SUFFICES ASSUME NEW r \in RowSet
               PROVE  /\ screen'[r] # Blank => /\ start + r \in DOMAIN buf
                                               /\ screen'[r] = Line(start + r, buf)
                      /\ asked = n /\ n > 0 => (screen'[r] # Blank <=> start + r < n)
    BY <1>1, <1>12, Zenon DEF PageShown
  <2>1. screen'[r] = IF start + r < end THEN Line(start + r, buf) ELSE Blank
    BY <1>1
  <2>2. start + r < end => start + r \in 0..(MaxLines - 1)
    BY <1>0, <1>4, <1>5 DEF RowSet
  <2>3. DOMAIN buf = 0..(MaxLines - 1)
    BY <1>2
  <2>4. start + r < end => Line(start + r, buf) # Blank
    BY <2>2, LineShown
  <2> QED
    BY <1>6, <2>1, <2>2, <2>3, <2>4
<1> QED
  BY <1>7, <1>8, <1>9, <1>10, <1>11 DEF IInv

-----------------------------------------------------------------------------
(* The keys *)

\* What Up and Down have in common: they go from a line to its neighbour, and the
\* page they choose has both the neighbour and what was on it.
LEMMA MoveInv ==
  ASSUME IInv, NEW next \in 0..(MaxLines - 1), NEW start \in 0..MaxLines,
         Move(From, next, start), start <= next,
         highlight # -1 => next # highlight,
         next < start + Rows \/ total <= start + Rows,
         start = 0 \/ start < total,
         From < total => next < total,
         start # page_start => From < total
  PROVE  IInv'
<1> DEFINE turned == start # page_start
           shown == IF turned THEN Hidden(start) ELSE screen
<1>0. /\ MaxLines \in Nat /\ Rows \in Nat /\ Rows > 0
      /\ total \in Nat /\ total <= MaxLines
      /\ highlight \in Int /\ highlight >= -1 /\ highlight <= MaxLines - 1
      /\ page_start \in Nat /\ marked \subseteq RowSet
      /\ lines \in [0..(MaxLines - 1) -> Texts]
      /\ screen \in [RowSet -> [line : -1..(MaxLines - 1), text : Texts]]
      /\ next \in Nat /\ start \in Nat
  BY ScrollConstants DEF IInv, TypeOK
<1>1. /\ page_start' = start /\ highlight' = next
      /\ screen' = [r \in RowSet |-> IF start + r \in {From, next}
                                     THEN Line(start + r, lines) ELSE shown[r]]
      /\ marked' = ((IF turned THEN {} ELSE marked) \ {From - start})
                   \cup ({next - start} \cap RowSet)
      /\ complete' = (complete \/ turned)
      /\ UNCHANGED <<total, lines, ready>>
  BY DEF Move, Written
<1>2. From \in 0..(MaxLines - 1)
  BY <1>0 DEF From
<1>3. marked # {} => From = highlight /\ marked = {From - page_start}
  BY <1>0 DEF IInv, MarkIsChosen, From, RowSet
<1>4. TypeOK'
  <2>1. shown \in [RowSet -> [line : -1..(MaxLines - 1), text : Texts]]
    <3>1. ASSUME NEW r \in RowSet, start + r < total
          PROVE  start + r \in 0..(MaxLines - 1)
      BY <1>0, <3>1 DEF RowSet
    <3>2. Hidden(start) \in [RowSet -> [line : -1..(MaxLines - 1), text : Texts]]
      BY <1>0, <3>1, LineType, BlankType DEF Hidden
    <3> QED
      BY <1>0, <3>2
  <2>2. screen' \in [RowSet -> [line : -1..(MaxLines - 1), text : Texts]]
    BY <1>0, <1>1, <1>2, <2>1, LineType
  <2>3. marked' \subseteq RowSet
    BY <1>0, <1>1
  <2>4. highlight' \in -1..(MaxLines - 1) /\ page_start' \in 0..MaxLines
        /\ highlight' # -1
    BY <1>0, <1>1
  <2>5. complete' \in BOOLEAN
    BY <1>1, Zenon
  <2> QED
    BY <1>0, <1>1, <2>2, <2>3, <2>4, <2>5 DEF TypeOK, IInv
<1>5. Ordered' /\ InReach'
  BY <1>0, <1>1 DEF Ordered, InReach, From
<1>6. MarkIsChosen'
  <2>1. marked' \subseteq {next - start}
    BY <1>0, <1>1, <1>3
  <2>2. next - start \in RowSet => screen'[next - start] = Line(next, lines)
    <3>1. start + (next - start) = next
      BY <1>0
    <3> QED
      BY <1>1, <3>1
  <2> QED
    BY <1>0, <1>1, <1>4, <2>1, <2>2 DEF MarkIsChosen, TypeOK
<1>7. ASSUME Whole \/ turned
      PROVE  From < total /\ next < total /\ next - start \in RowSet
  <2>1. Whole => highlight \in 0..(total - 1)
    BY DEF IInv, ChosenIsMarked
  <2>2. From < total
    BY <1>0, <1>7, <2>1 DEF From
  <2> QED
    BY <1>0, <2>2 DEF RowSet
<1>8. Whole' => Whole \/ turned
  BY <1>1 DEF Whole
<1>9. ChosenIsMarked'
  BY <1>0, <1>1, <1>7, <1>8 DEF ChosenIsMarked
<1>10. PageShown'
  <2> SUFFICES ASSUME NEW r \in RowSet
               PROVE  /\ screen'[r] # Blank => /\ start + r \in 0..(MaxLines - 1)
                                               /\ screen'[r] = Line(start + r, lines)
                      /\ Whole' => (screen'[r] # Blank <=> start + r < total)
    BY <1>0, <1>1 DEF PageShown
  <2>1. CASE start + r \in {From, next}
    <3>1. screen'[r] = Line(start + r, lines) /\ start + r \in 0..(MaxLines - 1)
      BY <1>1, <1>2, <2>1
    <3>2. Whole' => start + r < total
      BY <1>7, <1>8, <2>1
    <3> QED
      BY <3>1, <3>2, LineShown
  <2>2. CASE start + r \notin {From, next} /\ turned
    <3>1. screen'[r] = IF start + r < total THEN Line(start + r, lines) ELSE Blank
      BY <1>1, <2>2 DEF Hidden
    <3>2. start + r < total => start + r \in 0..(MaxLines - 1)
      BY <1>0 DEF RowSet
    <3> QED
      BY <3>1, <3>2, LineShown
  <2>3. CASE start + r \notin {From, next} /\ ~turned
    <3>1. screen'[r] = screen[r] /\ start = page_start /\ (Whole' => Whole)
      BY <1>1, <1>8, <2>3
    <3>2. DOMAIN lines = 0..(MaxLines - 1)
      BY <1>0
    <3> QED
      BY <3>1, <3>2 DEF IInv, PageShown
  <2> QED
    BY <2>1, <2>2, <2>3
<1> QED
  BY <1>4, <1>5, <1>6, <1>9, <1>10 DEF IInv

LEMMA UpInv == IInv /\ Up => IInv'
<1> SUFFICES ASSUME IInv, Up PROVE IInv'
  OBVIOUS
<1> DEFINE start == IF From - 1 < page_start THEN page_start - 1 ELSE page_start
<1>1. /\ From \in 0..(MaxLines - 1) /\ From - 1 >= 0 /\ page_start \in 0..MaxLines
      /\ MaxLines \in Nat /\ page_start <= From /\ Move(From, From - 1, start)
      /\ total \in 0..MaxLines /\ Rows \in Nat /\ Rows > 0
      /\ (highlight # -1 => From = highlight)
      /\ From < page_start + Rows \/ total <= page_start + Rows
      /\ page_start = 0 \/ page_start < total
  BY ScrollConstants DEF IInv, TypeOK, Ordered, InReach, From, Up
<1>2. start \in 0..MaxLines /\ start <= From - 1
  BY <1>1
<1>3. From - 1 \in 0..(MaxLines - 1) /\ (highlight # -1 => From - 1 # highlight)
  BY <1>1
<1>4. /\ From - 1 < start + Rows \/ total <= start + Rows
      /\ start = 0 \/ start < total
      /\ From < total => From - 1 < total
      /\ start # page_start => From < total
  BY <1>1
<1> HIDE DEF start
<1> QED
  BY <1>1, <1>2, <1>3, <1>4, MoveInv

LEMMA DownInv == IInv /\ Down => IInv'
<1> SUFFICES ASSUME IInv, Down PROVE IInv'
  OBVIOUS
<1> DEFINE next == From + 1
           start == IF (next - page_start) % Rows = 0 THEN page_start + 1 ELSE page_start
<1>1. /\ next \in 0..(MaxLines - 1) /\ next < total /\ page_start \in 0..MaxLines
      /\ MaxLines \in Nat /\ page_start <= next - 1 /\ Move(From, next, start)
      /\ total \in 0..MaxLines /\ Rows \in Nat /\ Rows > 0
      /\ (highlight # -1 => next # highlight)
      /\ next <= page_start + Rows \/ total <= page_start + Rows
  BY ScrollConstants DEF IInv, TypeOK, Ordered, InReach, From, Down
<1>2. start \in 0..MaxLines /\ start <= next /\ start < total
  BY <1>1
<1>3. next < start + Rows
  <2>1. Rows % Rows = 0
    BY <1>1
  <2>2. next <= page_start + Rows
    BY <1>1
  <2>3. next = page_start + Rows => (next - page_start) = Rows
    BY <1>1
  <2> QED
    BY <1>1, <2>1, <2>2, <2>3
<1>4. From < total
  BY <1>1 DEF From, IInv, TypeOK
<1> HIDE DEF next, start
<1> QED
  BY <1>1, <1>2, <1>3, <1>4, MoveInv

\* A warning leaves the rows empty and the rest as it is.
LEMMA WarnInv == IInv /\ Warn => IInv'
<1> SUFFICES ASSUME IInv, Warn PROVE IInv'
  OBVIOUS
<1>1. /\ screen' = Wiped /\ marked' = {} /\ complete' = FALSE
      /\ UNCHANGED <<total, lines, highlight, page_start, ready>>
  BY DEF Warn
<1>2. TypeOK'
  <2>1. screen' \in [RowSet -> [line : -1..(MaxLines - 1), text : Texts]]
    BY <1>1, BlankType DEF Wiped
  <2>2. complete' \in BOOLEAN
    BY <1>1, Zenon
  <2> QED
    BY <1>1, <2>1, <2>2 DEF TypeOK, IInv
<1>3. Ordered' /\ InReach'
  BY <1>1 DEF IInv, Ordered, InReach, From
<1> QED
  BY <1>1, <1>2, <1>3
     DEF IInv, MarkIsChosen, ChosenIsMarked, PageShown, Whole, Wiped

LEMMA StepInv == IInv /\ [Next]_vars => IInv'
<1> SUFFICES ASSUME IInv, [Next]_vars PROVE IInv'
  OBVIOUS
<1>0. TypeOK /\ Ordered /\ ready \in BOOLEAN
  BY DEF IInv, TypeOK
<1>1. CASE Refresh
  <2>1. PICK n \in 0..MaxLines : \E saved \in 0..n : Draw(n, saved, n) /\ UNCHANGED ready
    BY <1>1 DEF Refresh
  <2>2. PICK saved \in 0..n : Draw(n, saved, n) /\ UNCHANGED ready
    BY <2>1
  <2> QED
    BY <1>0, <2>2, DrawInv
<1>2. CASE AutoStart
  <2>1. PICK n \in 0..MaxLines : \E saved \in 0..n : Draw(n, saved, NrProc)
    BY <1>2 DEF AutoStart
  <2>2. PICK saved \in 0..n : Draw(n, saved, NrProc)
    BY <2>1
  <2>4. NrProc \in 0..MaxLines
    BY ScrollConstants
  <2>3. ready' \in BOOLEAN
    BY <1>2, Zenon DEF AutoStart
  <2> QED
    BY <1>0, <2>2, <2>3, <2>4, DrawInv
<1>3. CASE Resize
  BY <1>0, <1>3, ResizeInv
<1>4. CASE Up
  BY <1>4, UpInv
<1>5. CASE Down
  BY <1>5, DownInv
<1>7. CASE Warn
  BY <1>7, WarnInv
<1>6. CASE UNCHANGED vars
  BY <1>6 DEF vars, IInv, TypeOK, Ordered, InReach, From, MarkIsChosen, ChosenIsMarked, PageShown,
              Whole
<1> QED
  BY <1>1, <1>2, <1>3, <1>4, <1>5, <1>6, <1>7 DEF Next

LEMMA AlwaysIInv == Spec => []IInv
<1> QED
  BY InitInv, StepInv, PTL DEF Spec

\* The region keeps to its types (reg.c).
THEOREM TypeCorrect == Spec => []TypeOK
<1>1. IInv => TypeOK
  BY DEF IInv
<1> QED
  BY <1>1, AlwaysIInv, PTL

\* For any number of rows and lines, whatever warnings wiped the rows: the one row in
\* reverse video is the line that ENTER opens (reg_line_scroll, reg_scroll_show,
\* win_warn_msg).
THEOREM MarkIsAlwaysChosen == Spec => []MarkIsChosen
<1>1. IInv => MarkIsChosen
  BY DEF IInv
<1> QED
  BY <1>1, AlwaysIInv, PTL

\* For any number of rows and lines: on a whole page, not wiped since it was written,
\* the selected line exists and is marked (reg_line_scroll, reg_scroll_show).
THEOREM ChosenIsAlwaysMarked == Spec => []ChosenIsMarked
<1>1. IInv => ChosenIsMarked
  BY DEF IInv
<1> QED
  BY <1>1, AlwaysIInv, PTL

\* For any number of rows and lines, whatever warnings wiped the rows: no row shows the
\* line of another or an old text, and a whole page shows all its lines
\* (reg_hidden_show, reg_scroll_show, win_warn_msg).
THEOREM PageAlwaysShown == Spec => []PageShown
<1>1. IInv => PageShown
  BY DEF IInv
<1> QED
  BY <1>1, AlwaysIInv, PTL

\* For any number of rows and lines: what is marked is what ENTER opens, and on a
\* whole page, not wiped since it was written, something is (reg_scroll_show,
\* reg_line_scroll, win_warn_msg).
THEOREM HighlightAlwaysRight == Spec => []HighlightRight
<1>1. IInv => HighlightRight
  BY DEF IInv, HighlightRight
<1> QED
  BY <1>1, AlwaysIInv, PTL

\* A line that the list has is on the page, which is the one a draw chooses for it.
LEMMA SamePage ==
  ASSUME IInv, highlight \in 0..(total - 1)
  PROVE  /\ page_start <= highlight /\ highlight < page_start + Rows
         /\ PageOf(highlight) = page_start
<1>1. /\ highlight - page_start \in 0..(Rows - 1) /\ page_start \in Nat
      /\ highlight \in Nat /\ highlight >= page_start
  BY ScrollConstants DEF IInv, TypeOK, Ordered, InReach, From
<1>2. (highlight - page_start) \div Rows = 0
  BY <1>1, ScrollConstants
<1> QED
  BY <1>1, <1>2, ScrollConstants DEF PageOf

\* For any number of rows and lines: a refresh that still has the selected line moves
\* neither the selection nor the page, also when it is the first after a warning
\* (reg_scroll_show).
THEOREM SelectionAlwaysKept == Spec => SelectionKept
<1>1. IInv /\ [Next]_vars =>
        [Refresh /\ highlight \in 0..(Least(total, total') - 1) =>
           UNCHANGED <<highlight, page_start>>]_vars
  <2> SUFFICES ASSUME IInv, Refresh, highlight \in 0..(Least(total, total') - 1)
               PROVE  UNCHANGED <<highlight, page_start>>
    OBVIOUS
  <2>1. PICK n \in 0..MaxLines : \E saved \in 0..n : Draw(n, saved, n)
    BY DEF Refresh
  <2>2. PICK saved \in 0..n : Draw(n, saved, n)
    BY <2>1
  <2>3. total' = n /\ ScrollShow(n, Saved(saved), n)
    BY <2>2 DEF Draw
  <2>4. /\ highlight \in 0..(total - 1) /\ highlight \in 0..(n - 1) /\ highlight # -1
        /\ page_start \in Nat /\ n \in Nat /\ Rows \in Nat
    BY <2>3, ScrollConstants DEF IInv, TypeOK, Least
  <2>5. /\ page_start <= highlight /\ highlight < page_start + Rows
        /\ Clamped(n) = highlight /\ PageOf(highlight) = page_start
    BY <2>4, SamePage DEF Clamped
  <2>6. page_start' = page_start
    BY <2>3, <2>4, <2>5 DEF ScrollShow
  <2>7. highlight' = highlight
    BY <2>3, <2>4, <2>5 DEF ScrollShow, Least
  <2> QED
    BY <2>6, <2>7
<1> QED
  BY <1>1, AlwaysIInv, InitInv, StepInv, PTL DEF Spec, SelectionKept
=============================================================================
