------------------------------- MODULE PageStack -------------------------------
(***************************************************************************)
(* What the page list promises: a stack of pages whose top is the page on  *)
(* the screen, and one pending-run mark that can only be on the top page.  *)
(*                                                                         *)
(* The display thread is the only user of the list.  Module PageList holds *)
(* the pointers of page.c and is checked to implement the actions below;   *)
(* module DispPerf runs its display thread on these actions.               *)
(*                                                                         *)
(* A page is a record:                                                     *)
(*   cmd     the command the page was created with (page->cmd)             *)
(*   inited  dyn_win.inited: the window's buffers are allocated            *)
(*   ever    win_dyn_init succeeded once, so dyn_win.type and the scroll   *)
(*           callbacks are set; win_dyn_fini frees the buffers and clears  *)
(*           `inited' but leaves type and callbacks as they are            *)
(***************************************************************************)
EXTENDS Sequences, Naturals

VARIABLES
  pages,     \* s_page_list from head to tail
  next_run,  \* TRUE iff s_page_list.next_run # NULL
  scr_ok     \* the curses screen is at least 80x24

stackVars == <<pages, next_run, scr_ok>>

\* Commands that create a page (win_dyn_init's switch).
PageCmds == {"HOME", "MONITOR", "MAP_LIST", "OVERVIEW", "DETAIL"}

Page == [cmd : PageCmds, inited : BOOLEAN, ever : BOOLEAN]

StackTypeOK ==
  /\ pages \in Seq(Page)
  /\ next_run \in BOOLEAN
  /\ scr_ok \in BOOLEAN

StackInit ==
  /\ pages = << >>
  /\ next_run = FALSE
  /\ scr_ok = TRUE

\* page_current_get() # NULL
HasCur == pages # << >>
Cur == pages[Len(pages)]

\* PAGE_WIN_TYPE: a window never initialised is zeroed memory, and 0 is
\* WIN_TYPE_TOPNPROC, the type of the home page.
WinType(p) == IF p.ever THEN p.cmd ELSE "HOME"

\* The type cmd_execute looks the command up with.
CurType == IF HasCur THEN WinType(Cur) ELSE "HOME"

NewPage(c) == [cmd |-> c, inited |-> FALSE, ever |-> FALSE]

-----------------------------------------------------------------------------
(* page_show: no window on a small screen, and win_dyn_init may fail.      *)

Opened(p, ok) ==
  IF scr_ok /\ ok /\ ~p.inited
  THEN [p EXCEPT !.inited = TRUE, !.ever = TRUE]
  ELSE p

\* page_show goes on to sample or to draw the page
Shown(p, ok) == scr_ok /\ (p.inited \/ ok)

WithTop(s, p) == [s EXCEPT ![Len(s)] = p]
Below(s) == SubSeq(s, 1, Len(s) - 1)

\* op_home: page_list_fini, page_create, page_next_execute
Home(smpl, ok) ==
  /\ pages' = <<Opened(NewPage("HOME"), ok)>>
  /\ next_run' = smpl
  /\ UNCHANGED scr_ok

\* op_page_next: page_create appends after the current page
Next_(c, smpl, ok) ==
  /\ pages' = Append(pages, Opened(NewPage(c), ok))
  /\ next_run' = smpl
  /\ UNCHANGED scr_ok

\* op_page_prev with a previous page: it becomes current and is executed
Prev(smpl, ok) ==
  /\ Len(pages) > 1
  /\ pages' = WithTop(Below(pages), Opened(pages[Len(pages) - 1], ok))
  /\ next_run' = smpl
  /\ UNCHANGED scr_ok

\* op_refresh: page_next_set(cur); the sample it starts is shown later
Refresh ==
  /\ HasCur
  /\ next_run' = TRUE
  /\ UNCHANGED <<pages, scr_ok>>

\* page_next_execute(B_FALSE) on DATA_READY
Execute(ok) ==
  /\ next_run
  /\ pages' = WithTop(pages, Opened(Cur, ok))
  /\ next_run' = FALSE
  /\ UNCHANGED scr_ok

\* page_win_destroy and reg_curses_init on CMD_RESIZE: the new size is `big'
Resize(big) ==
  /\ pages' = [i \in DOMAIN pages |-> [pages[i] EXCEPT !.inited = FALSE]]
  /\ scr_ok' = big
  /\ UNCHANGED next_run

\* page_list_fini
Fini ==
  /\ pages' = << >>
  /\ next_run' = FALSE
  /\ UNCHANGED scr_ok

-----------------------------------------------------------------------------
\* The stack on its own, with any caller.
StackNext ==
  \/ \E smpl, ok \in BOOLEAN :
       Home(smpl, ok) \/ Prev(smpl, ok) \/ \E c \in PageCmds : Next_(c, smpl, ok)
  \/ Refresh \/ Fini
  \/ \E ok \in BOOLEAN : Execute(ok) \/ Resize(ok)

StackSpec == StackInit /\ [][StackNext]_stackVars
=============================================================================
