----------------------------- MODULE DispPerfProps -----------------------------
(***************************************************************************)
(* What the threads of DispPerf owe each other.                            *)
(***************************************************************************)
EXTENDS DispPerf

(* The detail page blocks the display thread in disp_flag2_wait, which has *)
(* no timeout: its one sample must be somewhere, in exactly one place.     *)
SampleInSlot == task = "SMPL2"
SampleInPerf == ptask = "SMPL2" /\ ppc \in {"work", "enum", "answer"}
SampleAnswered == flag2 # "NONE"

\* While the display thread waits on flag2 its sample is in the task slot, in
\* the perf thread or in flag2, unless the perf thread is gone; in one of them
\* only; and in none when nobody waits, so that no answer of an earlier visit
\* ends a later wait (perf_profiling_smpl, os_profiling_smpl, disp_flag2_wait).
Flag2Accounting ==
  /\ SampleInSlot \/ SampleInPerf \/ SampleAnswered => dpc = "flag2"
  /\ dpc = "flag2" /\ ppc # "exit" => SampleInSlot \/ SampleInPerf \/ SampleAnswered
  /\ ~(SampleInSlot /\ SampleInPerf)
  /\ ~(SampleInSlot /\ SampleAnswered)
  /\ ~(SampleInPerf /\ SampleAnswered)

\* The perf event is open exactly when the status says profiling, whenever the
\* perf thread is not between the two, and no event is overwritten while open:
\* os_allstop decides by the status alone (os_profiling_start, os_allstop).
EventOwned ==
  /\ leaked = 0
  /\ ppc \notin {"set", "exit"} => (held <=> status = "STARTED")

\* The sampler is in map-list mode exactly while the map-list page is on top,
\* whenever the display thread is back in its loop (switch_table_init's preops
\* against the pages their operations open and leave).
ModeMatchesPage ==
  dpc = "loop" /\ HasCur /\ fault = "none" =>
    (Cur.cmd = "MAP_LIST" <=> status = "MAPLIST")

\* A start, a stop or a quit in the task slot is taken by the perf thread, never
\* overwritten by a later request, while the perf thread lives: whoever posts one
\* waits for its status first (perf_task_set, perf_status_wait).
ControlTask == task \in {"START", "STOP", "MSTART", "QUIT"}
ControlTaskNotLost ==
  [][ControlTask /\ ppc # "exit" => task' \in {task, "INVALID"}]_vars

\* When main is past disp_consthr_quit all threads are gone, the pages are freed
\* and the event is closed, unless the last start failed half way (datop.c main,
\* disp_handler L_EXIT, perf_fini).
CleanExit ==
  mpc = "done" /\ cpc # "none" =>
    /\ dpc = "exit" /\ cpc = "exit" /\ ppc = "exit"
    /\ pages = << >>
    /\ held => status = "FAILED"

-----------------------------------------------------------------------------
\* The display thread always gets back to its loop or ends: none of its waits
\* for the perf thread is for ever (perf_status_wait, disp_flag2_wait), except the
\* detail page's for a perf thread that has ended after a failed start.
DispReturns ==
  []<>(\/ dpc \in {"none", "loop", "exit"}
       \/ dpc = "flag2" /\ ppc = "exit"
       \/ ~Running)

\* Once the display thread leaves its loop the program ends, whatever the other
\* threads were doing (disp_handler L_EXIT, perf_fini, disp_consthr_quit).
ShutdownCompletes == dpc = "list_fini" ~> mpc = "done"

\* A page waiting for its sample is shown, dropped or left in the end, however many
\* answers the flag slot lost, as long as the perf thread lives (page_next_execute,
\* the timed refresh of disp_handler).  The detail page waits for its sample in its
\* own way, and its refresh stays pending (os_page_smpl_start).
PagePending == next_run /\ HasCur /\ Cur.cmd # "DETAIL" /\ Running
PendingPageShown ==
  PagePending ~> (~PagePending \/ ppc = "exit")

-----------------------------------------------------------------------------
(* What the comments and the manual say, and the code does not do.         *)

\* "The disp thread would exit when user hits the hotkey 'Q' or press CTRL+C"
\* (datop.c:496): a QUIT in the flag slot ends the program.
QuitHonoured == flag = "QUIT" ~> mpc = "done"

\* "Destroy existing screen and curses resources and then re-init the curses
\* resources" (disp.c:299): after a resize nothing uses a destroyed window
\* (key_scroll, scroll_enter, os_op_switch2ml).
NoFreedWindow == fault # "freed_window"
=============================================================================
