-------------------------------- MODULE DispPerf --------------------------------
(***************************************************************************)
(* The threads of datop and the one-slot mailboxes between them.           *)
(*                                                                         *)
(*   main   starts perf, disp and cons, joins disp, tells cons to quit     *)
(*   cons   turns keys and pipe characters into s_disp_ctl.cmd/flag        *)
(*   disp   takes the flag, runs commands, draws, asks perf for samples    *)
(*   perf   takes s_perf_ctl.task, samples, answers through flag or flag2  *)
(*   sig    the SIGINT family, whose handler posts QUIT                    *)
(*                                                                         *)
(* One action is one critical section (or one unlocked access) of one      *)
(* thread together with the thread-local work up to its next shared        *)
(* access.  pthread_cond_wait is a guard; a timed wait also has an action  *)
(* for its timeout.                                                        *)
(***************************************************************************)
EXTENDS PageStack

CONSTANTS
  Keys,         \* what the user may type: commands, SCROLL, ENTER, ERR
  MaxKeys,      \* bound: keys typed in a behaviour
  MaxSignals,   \* bound: SIGINT/SIGTERM... delivered
  MaxResizes,   \* bound: SIGWINCH delivered
  WithPid,      \* started with -p: target_procs.ready is set from the start
  StartMayFail, \* perf_event_open, mmap or the ioctl may fail
  WinMayFail,   \* win_dyn_init may fail (malloc, newwin)
  RunLimit,     \* started with -t: the run time may expire
  Slow          \* a thread may be slower than the timeout waiting for it

KeySet == {"HOME", "REFRESH", "QUIT", "BACK", "MAP_LIST", "OVERVIEW", "SORT",
           "MAP_GET", "MAP_STOP", "SCROLL", "ENTER", "ERR"}

ASSUME ConstantsOK ==
  /\ Keys \subseteq KeySet
  /\ MaxKeys \in Nat /\ MaxSignals \in Nat /\ MaxResizes \in Nat
  /\ {WithPid, StartMayFail, WinMayFail, RunLimit, Slow} \subseteq BOOLEAN

VARIABLES
  mpc, cpc, dpc, ppc,  \* where main, cons, disp and perf are
  flag,                \* s_disp_ctl.flag, and s_disp_ctl.cmd when it is CMD
  flag2,               \* s_disp_ctl.flag2
  pipe,                \* characters in the console pipe
  task,                \* s_perf_ctl.task
  status, wake,        \* s_perf_ctl.status; status_cond signalled to a waiter
  job, smpl, want,     \* disp: command in execution, its smpl, status awaited
  ptask, pval,         \* perf: task in execution, status it will set
  held, leaked,        \* perf_fd and map_base open; events lost while open
  ready,               \* target_procs.ready
  clock,               \* run time of -t: "running", "expired", "over"
  nkeys, nsig, nwinch, \* environment used so far
  fault                \* "none", or the undefined step the program took

dispVars == <<dpc, job, smpl, want>>
perfVars == <<ppc, ptask, pval, held, leaked>>
envVars == <<nkeys, nsig, nwinch, clock, fault>>
vars == <<mpc, cpc, dpc, ppc, flag, flag2, pipe, task, status, wake, job,
          smpl, want, ptask, pval, held, leaked, ready, clock, nkeys, nsig,
          nwinch, fault, pages, next_run, scr_ok>>

Cmds == PageCmds \cup
        {"MAP_GET", "MAP_STOP", "SORT", "REFRESH", "QUIT", "BACK", "RESIZE"}
Flags == Cmds \cup {"NONE", "READY", "SCROLL", "ENTER"}
Tasks == {"INVALID", "START", "SMPL1", "SMPL2", "MSTART", "MSMPL", "STOP", "QUIT"}
Status == {"IDLE", "STARTED", "FAILED", "MAPLIST"}

TypeOK ==
  /\ StackTypeOK
  /\ mpc \in {"start", "enter", "wait", "disp_init", "join_disp", "cons_quit",
              "join_cons", "done"}
  /\ cpc \in {"none", "init", "home", "loop", "exit"}
  /\ dpc \in {"none", "start", "loop", "resize", "cmd", "op", "ready", "scroll",
              "enter_key", "enter", "wait", "flag2", "go_home", "auto",
              "auto_start", "list_fini", "perf_fini", "join_perf", "exit"}
  /\ ppc \in {"none", "loop", "work", "set", "enum", "answer", "exit"}
  /\ flag \in Flags
  /\ flag2 \in {"NONE", "READY"}
  /\ pipe \in Seq({"q", "r"})
  /\ task \in Tasks /\ ptask \in Tasks
  /\ status \in Status /\ want \in Status /\ pval \in Status
  /\ wake \in BOOLEAN /\ smpl \in BOOLEAN /\ ready \in BOOLEAN /\ held \in BOOLEAN
  /\ job \in Cmds \cup {"NONE", "AUTO"}
  /\ leaked \in Nat
  /\ clock \in {"running", "expired", "over"}
  /\ nkeys \in 0..MaxKeys /\ nsig \in 0..MaxSignals /\ nwinch \in 0..MaxResizes
  /\ fault \in {"none", "null_page", "freed_window"}

Init ==
  /\ StackInit
  /\ mpc = "start" /\ cpc = "none" /\ dpc = "none" /\ ppc = "none"
  /\ flag = "NONE" /\ flag2 = "NONE" /\ pipe = << >>
  /\ task = "INVALID" /\ status = "IDLE" /\ wake = FALSE
  /\ job = "NONE" /\ smpl = FALSE /\ want = "IDLE"
  /\ ptask = "INVALID" /\ pval = "IDLE"
  /\ held = FALSE /\ leaked = 0 /\ ready = WithPid /\ clock = "running"
  /\ nkeys = 0 /\ nsig = 0 /\ nwinch = 0 /\ fault = "none"

-----------------------------------------------------------------------------
(* Status hand-shake: perf_status_wait sleeps before it looks, so a status *)
(* set before the wait begins wakes nobody and is seen at the timeout.     *)

\* win.c holds the group mutex while proc_monitor waits for perf.
GroupHeld ==
  dpc \in {"auto", "auto_start"} \/ (dpc \in {"enter", "wait"} /\ job = "AUTO")

\* The perf thread will not set a status however long the waiter waits.
PerfStuck ==
  \/ ppc = "exit"
  \/ ppc = "loop" /\ task = "INVALID"
  \/ ppc = "enum" /\ GroupHeld

SetStatus(s) == status' = s /\ wake' = TRUE

\* A signalled waiter keeps waiting unless it finds its status or a failure.
Woken(w) == wake /\ status \in {w, "FAILED"}
WakeIdle(w) == wake /\ status \notin {w, "FAILED"}
\* (faulty) the wait gives up before its timeout
TimedOutEarly == ~wake
\* (faulty) the wait has no timeout
TimedOutNever == FALSE
TimedOut == ~wake /\ (Slow \/ PerfStuck)

Running == fault = "none" /\ mpc # "done"

-----------------------------------------------------------------------------
(* main *)

\* perf_init: create the perf thread, perf_profiling_start posts START
MainPerfInit ==
  /\ mpc = "start" /\ mpc' = "enter"
  /\ ppc' = "loop" /\ task' = "START"
  /\ UNCHANGED <<cpc, flag, flag2, pipe, status, wake, ptask, pval, held, leaked,
                 ready, dispVars, envVars, stackVars>>

MainWait ==
  /\ \/ mpc = "enter" /\ mpc' = "wait"
     \/ mpc = "wait" /\ WakeIdle("STARTED") /\ UNCHANGED mpc
  /\ wake' = FALSE
  /\ UNCHANGED <<cpc, flag, flag2, pipe, task, status, ready, dispVars, perfVars,
                 envVars, stackVars>>

\* perf_status_wait returns; on failure main gives up with perf not joined
MainWaitDone ==
  /\ mpc = "wait" /\ (Woken("STARTED") \/ TimedOut)
  /\ mpc' = IF status = "STARTED" THEN "disp_init" ELSE "done"
  /\ wake' = FALSE
  /\ UNCHANGED <<cpc, flag, flag2, pipe, task, status, ready, dispVars, perfVars,
                 envVars, stackVars>>

\* disp_ctl_init clears the mailboxes, disp_start creates both threads
MainDispInit ==
  /\ mpc = "disp_init" /\ mpc' = "join_disp"
  /\ flag' = "NONE" /\ flag2' = "NONE"
  /\ cpc' = "init" /\ dpc' = "start"
  /\ UNCHANGED <<pipe, task, status, wake, job, smpl, want, ready, perfVars,
                 envVars, stackVars>>

\* (faulty) not joined: the thread only has to be on its way out
DispLeaving == dpc \in {"list_fini", "perf_fini", "join_perf", "exit"}
DispGone == dpc = "exit"

\* disp_dispthr_quit_wait
MainJoinDisp ==
  /\ mpc = "join_disp" /\ DispGone /\ mpc' = "cons_quit"
  /\ UNCHANGED <<cpc, flag, flag2, pipe, task, status, wake, ready, dispVars,
                 perfVars, envVars, stackVars>>

\* (faulty) the console thread is not told
QuitCharForgotten == UNCHANGED pipe
QuitChar == pipe' = Append(pipe, "q")

\* disp_consthr_quit: write PIPE_CHAR_QUIT, then join
MainConsQuit ==
  /\ mpc = "cons_quit" /\ mpc' = "join_cons"
  /\ QuitChar
  /\ UNCHANGED <<cpc, flag, flag2, task, status, wake, ready, dispVars, perfVars,
                 envVars, stackVars>>

MainJoinCons ==
  /\ mpc = "join_cons" /\ cpc = "exit" /\ mpc' = "done"
  /\ UNCHANGED <<cpc, flag, flag2, pipe, task, status, wake, ready, dispVars,
                 perfVars, envVars, stackVars>>

Main == \/ MainPerfInit \/ MainWait \/ MainWaitDone \/ MainDispInit
        \/ MainJoinDisp \/ MainConsQuit \/ MainJoinCons

-----------------------------------------------------------------------------
(* Signals and the console thread *)

\* sigint_handler, installed before perf_init: disp_dispthr_quit_start
Signal ==
  /\ nsig < MaxSignals /\ nsig' = nsig + 1
  /\ flag' = "QUIT"
  /\ UNCHANGED <<mpc, cpc, flag2, pipe, task, status, wake, ready, nkeys, nwinch,
                 clock, fault, dispVars, perfVars, stackVars>>

\* disp_on_resize, installed by reg_curses_init
Winch ==
  /\ cpc \notin {"none", "init"}
  /\ nwinch < MaxResizes /\ nwinch' = nwinch + 1
  /\ pipe' = Append(pipe, "r")
  /\ UNCHANGED <<mpc, cpc, flag, flag2, task, status, wake, ready, nkeys, nsig,
                 clock, fault, dispVars, perfVars, stackVars>>

\* reg_curses_init(B_TRUE) fails on a small terminal and the thread exits
ConsInit ==
  /\ cpc = "init"
  /\ \E big \in BOOLEAN : scr_ok' = big /\ cpc' = IF big THEN "home" ELSE "exit"
  /\ UNCHANGED <<mpc, flag, flag2, pipe, task, status, wake, ready, dispVars,
                 perfVars, envVars, pages, next_run>>

\* disp_go_home
ConsHome ==
  /\ cpc = "home" /\ cpc' = "loop"
  /\ flag' = "HOME"
  /\ UNCHANGED <<mpc, flag2, pipe, task, status, wake, ready, dispVars, perfVars,
                 envVars, stackVars>>

\* select reports the pipe: it is read before stdin
ConsPipe ==
  /\ cpc = "loop" /\ pipe # << >>
  /\ pipe' = Tail(pipe)
  /\ IF Head(pipe) = "q"
     THEN cpc' = "exit" /\ UNCHANGED flag
     ELSE flag' = "RESIZE" /\ UNCHANGED cpc
  /\ UNCHANGED <<mpc, flag2, task, status, wake, ready, dispVars, perfVars,
                 envVars, stackVars>>

\* select reports stdin: a hot key, a scroll key, or a lost terminal
ConsKey ==
  /\ cpc = "loop" /\ pipe = << >>
  /\ nkeys < MaxKeys /\ nkeys' = nkeys + 1
  /\ \E k \in Keys :
       IF k = "ERR" THEN cpc' = "exit" /\ UNCHANGED flag
                    ELSE flag' = k /\ UNCHANGED cpc
  /\ UNCHANGED <<mpc, flag2, pipe, task, status, wake, ready, nsig, nwinch, clock,
                 fault, dispVars, perfVars, stackVars>>

Cons == ConsInit \/ ConsHome \/ ConsPipe

-----------------------------------------------------------------------------
(* disp: the switch table of cmd.c *)

\* (faulty) BACK from the map list forgets to switch the sampler back
PreopNoBack(type, c) ==
  CASE c = "HOME" -> "profiling"
    [] c = "OVERVIEW" /\ type \notin {"MAP_LIST", "OVERVIEW"} -> "profiling"
    [] c = "MAP_LIST" /\ type = "MONITOR" -> "ml"
    [] OTHER -> "none"

Preop(type, c) ==
  CASE c = "HOME" -> "profiling"
    [] c = "OVERVIEW" /\ type \notin {"MAP_LIST", "OVERVIEW"} -> "profiling"
    [] c = "BACK" /\ type \in {"MAP_LIST", "DETAIL"} -> "profiling"
    [] c = "MAP_LIST" /\ type = "MONITOR" -> "ml"
    [] OTHER -> "none"

Op(type, c) ==
  CASE c = "HOME" -> "home"
    [] c = "OVERVIEW" /\ type \notin {"MAP_LIST", "OVERVIEW"} -> "next"
    [] c = "MONITOR" /\ type = "HOME" -> "next"
    [] c = "DETAIL" /\ type = "OVERVIEW" -> "next"
    [] c = "MAP_LIST" /\ type = "MONITOR" -> "maplist"
    [] c = "BACK" -> "prev"
    [] c \in {"REFRESH", "RESIZE"} -> "refresh"
    [] c = "MAP_GET" /\ type = "MAP_LIST" -> "refresh"
    [] c = "SORT" /\ type \in {"HOME", "MONITOR"} -> "sort"
    [] OTHER -> "none"

\* (faulty) the command's id is posted as the task's
SampleById(c) == task' = c /\ dpc' = "loop"
\* (faulty) the page's sample is never posted
SampleDropped(c) == dpc' = "loop" /\ UNCHANGED task

\* os_page_smpl_start: post the sample the page needs
Sample(c) ==
  /\ task' = CASE c = "DETAIL" -> "SMPL2"
               [] c = "MAP_LIST" -> "MSMPL"
               [] OTHER -> "SMPL1"
  /\ dpc' = IF c = "DETAIL" THEN "flag2" ELSE "loop"

\* dyn_win.draw: the monitored process may be gone (win_invalid_proc), and
\* the home page of an automatic run may start monitoring (proc_monitor)
Draw(c) ==
  /\ \/ dpc' = "loop"
     \/ c = "MONITOR" /\ dpc' = "go_home"
     \/ c = "HOME" /\ ~ready /\ dpc' = "auto"
  /\ UNCHANGED task

\* the end of page_show for page p
Show(p, s, ok) ==
  IF ~Shown(p, ok) THEN dpc' = "loop" /\ UNCHANGED task
  ELSE IF s THEN Sample(p.cmd) ELSE Draw(p.cmd)

InitResults == IF WinMayFail THEN BOOLEAN ELSE {TRUE}

Idle == job' = "NONE" /\ smpl' = FALSE /\ want' = "IDLE"
Crash(f) == fault' = f /\ UNCHANGED <<task, dpc, stackVars>>

-----------------------------------------------------------------------------
(* disp: start, the flag, and the commands that need no page operation *)

\* consthr_init_wait sees a command and leaves it in the slot
DispStart ==
  /\ dpc = "start"
  /\ \/ flag \in Cmds /\ dpc' = "loop"
     \/ flag \notin Cmds /\ (Slow \/ cpc \in {"loop", "exit"}) /\ dpc' = "perf_fini"
  /\ UNCHANGED <<mpc, cpc, flag, flag2, pipe, task, status, wake, job, smpl, want,
                 ready, perfVars, envVars, stackVars>>

\* Take the flag.  An expired run time discards whatever was taken.
DispTake ==
  /\ dpc = "loop" /\ flag # "NONE"
  /\ flag' = "NONE"
  /\ IF clock = "expired"
     THEN clock' = "over" /\ UNCHANGED <<dpc, job>>
     ELSE /\ dpc' = CASE flag = "QUIT" -> "list_fini"
                      [] flag = "RESIZE" -> "resize"
                      [] flag = "READY" -> "ready"
                      [] flag = "SCROLL" -> "scroll"
                      [] flag = "ENTER" -> "enter_key"
                      [] OTHER -> "cmd"
          /\ job' = IF flag \in Cmds \ {"QUIT"} THEN flag ELSE "NONE"
          /\ UNCHANGED clock
  /\ UNCHANGED <<mpc, cpc, flag2, pipe, task, status, wake, smpl, want, ready,
                 nkeys, nsig, nwinch, fault, perfVars, stackVars>>

\* The wait for a flag times out: refresh the current page, if there is one.
DispTimeout ==
  /\ dpc = "loop" /\ flag = "NONE"
  /\ \/ clock = "expired" /\ clock' = "over" /\ UNCHANGED <<dpc, job>>
     \/ clock # "expired" /\ HasCur /\ dpc' = "cmd" /\ job' = "REFRESH"
        /\ UNCHANGED clock
     \/ clock # "expired" /\ ~HasCur /\ UNCHANGED <<dpc, job, clock>>
  /\ UNCHANGED <<mpc, cpc, flag, flag2, pipe, task, status, wake, smpl, want, ready,
                 nkeys, nsig, nwinch, fault, perfVars, stackVars>>

\* cmd_received(CMD_RESIZE_ID)
DispResize ==
  /\ dpc = "resize"
  /\ \E big \in BOOLEAN :
       /\ Resize(big)
       /\ dpc' = IF big THEN "cmd" ELSE "loop"
       /\ job' = IF big THEN job ELSE "NONE"
  /\ UNCHANGED <<mpc, cpc, flag, flag2, pipe, task, status, wake, smpl, want, ready,
                 perfVars, envVars>>

\* cmd_execute up to the pre-operation: unless perf is already in the wanted
\* mode, os_perf_allstop posts STOP
DispCmd ==
  /\ dpc = "cmd"
  /\ LET pre == Preop(CurType, job)
         there == \/ pre = "none"
                  \/ pre = "profiling" /\ status = "STARTED"
                  \/ pre = "ml" /\ status = "MAPLIST"
     IN IF there THEN dpc' = "op" /\ UNCHANGED <<task, want>>
        ELSE task' = "STOP" /\ want' = "IDLE" /\ dpc' = "enter"
  /\ UNCHANGED <<mpc, cpc, flag, flag2, pipe, status, wake, job, smpl, ready,
                 perfVars, envVars, stackVars>>

DispWait ==
  /\ \/ dpc = "enter" /\ dpc' = "wait"
     \/ dpc = "wait" /\ WakeIdle(want) /\ UNCHANGED dpc
  /\ wake' = FALSE
  /\ UNCHANGED <<mpc, cpc, flag, flag2, pipe, task, status, job, smpl, want, ready,
                 perfVars, envVars, stackVars>>

\* perf_status_wait returns.  The result of STOP is ignored and the start is
\* posted; the result of the start becomes smpl; proc_monitor ignores it.
DispWaitDone ==
  /\ dpc = "wait" /\ (Woken(want) \/ TimedOut)
  /\ wake' = FALSE
  /\ \/ /\ want = "IDLE"
        /\ LET ml == Preop(CurType, job) = "ml"
           IN /\ task' = IF ml THEN "MSTART" ELSE "START"
              /\ want' = IF ml THEN "MAPLIST" ELSE "STARTED"
        /\ dpc' = "enter" /\ UNCHANGED <<job, smpl>>
     \/ /\ want # "IDLE" /\ job # "AUTO"
        /\ smpl' = (status = want) /\ want' = "IDLE"
        /\ dpc' = "op" /\ UNCHANGED <<task, job>>
     \/ /\ want # "IDLE" /\ job = "AUTO"
        /\ dpc' = "loop" /\ Idle /\ UNCHANGED task
  /\ UNCHANGED <<mpc, cpc, flag, flag2, pipe, status, ready, perfVars, envVars,
                 stackVars>>

-----------------------------------------------------------------------------
(* disp: the operations *)

\* op_home and op_page_next
DispNext ==
  /\ dpc = "op" /\ Op(CurType, job) \in {"home", "next"}
  /\ \E ok \in InitResults :
       /\ IF job = "HOME" THEN Home(smpl, ok) ELSE Next_(job, smpl, ok)
       /\ Show(NewPage(job), smpl, ok)
  /\ IF dpc' = "auto" THEN job' = "AUTO" ELSE job' = "NONE"
  /\ smpl' = FALSE
  /\ UNCHANGED <<mpc, cpc, flag, flag2, pipe, status, wake, want, ready, perfVars,
                 envVars>>

\* os_op_switch2ml reads the pid of the process window
DispMapList ==
  /\ dpc = "op" /\ Op(CurType, job) = "maplist"
  /\ IF ~Cur.inited THEN Crash("freed_window")
     ELSE /\ \E ok \in InitResults : /\ Next_(job, smpl, ok)
                                 /\ Show(NewPage(job), smpl, ok)
          /\ UNCHANGED fault
  /\ Idle
  /\ UNCHANGED <<mpc, cpc, flag, flag2, pipe, status, wake, ready, perfVars, nkeys,
                 nsig, nwinch, clock>>

\* op_page_prev
DispPrev ==
  /\ dpc = "op" /\ Op(CurType, job) = "prev"
  /\ \/ \E ok \in InitResults : /\ Prev(smpl, ok)
                            /\ Show(pages[Len(pages) - 1], smpl, ok)
     \/ Len(pages) <= 1 /\ dpc' = "loop" /\ UNCHANGED <<task, stackVars>>
  /\ IF dpc' = "auto" THEN job' = "AUTO" ELSE job' = "NONE"
  /\ smpl' = FALSE
  /\ UNCHANGED <<mpc, cpc, flag, flag2, pipe, status, wake, want, ready, perfVars,
                 envVars>>

\* op_refresh, also as the tail of op_sort, which first looks for a page
DispRefresh ==
  /\ dpc = "op" /\ Op(CurType, job) \in {"refresh", "sort"}
  /\ \/ /\ Refresh /\ Sample(Cur.cmd) /\ UNCHANGED fault
     \/ /\ ~HasCur /\ Op(CurType, job) = "refresh" /\ Crash("null_page")
     \/ /\ ~HasCur /\ Op(CurType, job) = "sort" /\ dpc' = "loop"
        /\ UNCHANGED <<task, fault, stackVars>>
  /\ Idle
  /\ UNCHANGED <<mpc, cpc, flag, flag2, pipe, status, wake, ready, perfVars, nkeys,
                 nsig, nwinch, clock>>

\* no entry in the switch table
DispNop ==
  /\ dpc = "op" /\ Op(CurType, job) = "none"
  /\ dpc' = "loop" /\ Idle
  /\ UNCHANGED <<mpc, cpc, flag, flag2, pipe, task, status, wake, ready, perfVars,
                 envVars, stackVars>>

\* (faulty) the answer is not cleared when it is taken
Flag2Left == UNCHANGED flag2
TakeFlag2 == flag2' = "NONE"

\* disp_flag2_wait, called by os_page_smpl_start for the detail page
DispFlag2 ==
  /\ dpc = "flag2" /\ flag2 # "NONE"
  /\ TakeFlag2 /\ dpc' = "loop"
  /\ UNCHANGED <<mpc, cpc, flag, pipe, task, status, wake, job, smpl, want, ready,
                 perfVars, envVars, stackVars>>

\* DATA_READY: page_next_execute(B_FALSE)
DispReady ==
  /\ dpc = "ready"
  /\ \/ \E ok \in InitResults : Execute(ok) /\ Show(Cur, FALSE, ok)
     \/ ~next_run /\ dpc' = "loop" /\ UNCHANGED <<task, stackVars>>
  /\ IF dpc' = "auto" THEN job' = "AUTO" ELSE job' = "NONE"
  /\ UNCHANGED <<mpc, cpc, flag, flag2, pipe, status, wake, smpl, want, ready,
                 perfVars, envVars>>

\* key_scroll: the callback is called whether or not the window is inited
DispScroll ==
  /\ dpc = "scroll"
  /\ IF HasCur /\ Cur.ever /\ ~Cur.inited /\ Cur.cmd # "DETAIL"
     THEN Crash("freed_window")
     ELSE dpc' = "loop" /\ UNCHANGED <<task, fault, stackVars>>
  /\ UNCHANGED <<mpc, cpc, flag, flag2, pipe, status, wake, job, smpl, want, ready,
                 perfVars, nkeys, nsig, nwinch, clock>>

\* scroll_enter: the highlighted line becomes a command, if there is one
DispEnterKey ==
  /\ dpc = "enter_key"
  /\ LET opens == HasCur /\ Cur.ever /\ Cur.cmd \in {"HOME", "OVERVIEW"}
     IN IF opens /\ ~Cur.inited THEN Crash("freed_window") /\ UNCHANGED job
        ELSE /\ \/ dpc' = "loop" /\ UNCHANGED job
                \/ /\ opens /\ dpc' = "cmd"
                   /\ job' = IF Cur.cmd = "HOME" THEN "MONITOR" ELSE "DETAIL"
             /\ UNCHANGED <<task, fault, stackVars>>
  /\ UNCHANGED <<mpc, cpc, flag, flag2, pipe, status, wake, smpl, want, ready,
                 perfVars, nkeys, nsig, nwinch, clock>>

\* win_invalid_proc after its sleep: disp_go_home
DispGoHome ==
  /\ dpc = "go_home" /\ dpc' = "loop"
  /\ flag' = "HOME"
  /\ UNCHANGED <<mpc, cpc, flag2, pipe, task, status, wake, job, smpl, want, ready,
                 perfVars, envVars, stackVars>>

\* proc_monitor: perf_status_set(IDLE), then perf_profiling_start
DispAuto ==
  /\ dpc = "auto" /\ dpc' = "auto_start"
  /\ ready' = TRUE /\ SetStatus("IDLE")
  /\ UNCHANGED <<mpc, cpc, flag, flag2, pipe, task, job, smpl, want, perfVars,
                 envVars, stackVars>>

DispAutoStart ==
  /\ dpc = "auto_start" /\ dpc' = "enter"
  /\ task' = "START" /\ want' = "STARTED"
  /\ UNCHANGED <<mpc, cpc, flag, flag2, pipe, status, wake, job, smpl, ready,
                 perfVars, envVars, stackVars>>

\* L_EXIT: page_list_fini, perf_fini posts QUIT and joins
DispListFini ==
  /\ dpc = "list_fini" /\ dpc' = "perf_fini"
  /\ Fini
  /\ UNCHANGED <<mpc, cpc, flag, flag2, pipe, task, status, wake, job, smpl, want,
                 ready, perfVars, envVars>>

DispPerfFini ==
  /\ dpc = "perf_fini" /\ dpc' = "join_perf"
  /\ task' = "QUIT"
  /\ UNCHANGED <<mpc, cpc, flag, flag2, pipe, status, wake, job, smpl, want, ready,
                 perfVars, envVars, stackVars>>

DispJoinPerf ==
  /\ dpc = "join_perf" /\ ppc = "exit" /\ dpc' = "exit"
  /\ UNCHANGED <<mpc, cpc, flag, flag2, pipe, task, status, wake, job, smpl, want,
                 ready, perfVars, envVars, stackVars>>

Disp == \/ DispStart \/ DispTake \/ DispTimeout \/ DispResize \/ DispCmd \/ DispWait
        \/ DispWaitDone \/ DispNext \/ DispMapList \/ DispPrev \/ DispRefresh
        \/ DispNop \/ DispFlag2 \/ DispReady \/ DispScroll \/ DispEnterKey
        \/ DispGoHome \/ DispAuto \/ DispAutoStart \/ DispListFini \/ DispPerfFini
        \/ DispJoinPerf

-----------------------------------------------------------------------------
(* perf *)

\* take the task and mark the slot invalid
PerfTake ==
  /\ ppc = "loop" /\ task # "INVALID"
  /\ ptask' = task /\ task' = "INVALID" /\ ppc' = "work"
  /\ UNCHANGED <<mpc, cpc, flag, flag2, pipe, status, wake, pval, held, leaked, ready,
                 dispVars, envVars, stackVars>>

\* (faulty) the TODO of os_allstop taken at its word
AllStopNothing == UNCHANGED held

\* os_allstop: close the event, but only in a status it calls started
AllStop == held' = IF status = "STARTED" THEN FALSE ELSE held

\* pf_profiling_setup overwrites perf_fd and map_base, open or not
Setup(open) ==
  /\ held' = open
  /\ leaked' = IF held THEN leaked + 1 ELSE leaked

PerfStop ==
  /\ ppc = "work" /\ ptask \in {"STOP", "MSTART", "QUIT"}
  /\ AllStop
  /\ pval' = IF ptask = "MSTART" THEN "MAPLIST" ELSE "IDLE"
  /\ ppc' = IF ptask = "QUIT" THEN "exit" ELSE "set"
  /\ UNCHANGED <<mpc, cpc, flag, flag2, pipe, task, status, wake, ptask, leaked,
                 ready, dispVars, envVars, stackVars>>

\* os_profiling_start.  It may fail before the event is opened (no kdamon), in
\* the open or the mmap, or after them, and then leaves the event open.
PerfStart ==
  /\ ppc = "work" /\ ptask = "START" /\ ppc' = "set"
  /\ \/ /\ status = "STARTED" /\ pval' = "STARTED" /\ UNCHANGED <<held, leaked>>
     \/ /\ status # "STARTED" /\ pval' = "STARTED" /\ Setup(TRUE)
     \/ /\ status # "STARTED" /\ StartMayFail /\ pval' = "FAILED"
        /\ \/ UNCHANGED <<held, leaked>>
           \/ \E open \in BOOLEAN : Setup(open)
  /\ UNCHANGED <<mpc, cpc, flag, flag2, pipe, task, status, wake, ptask, ready,
                 dispVars, envVars, stackVars>>

\* a sample goes on to proc_enum_update, a map-list sample only in its mode
PerfSmpl ==
  /\ ppc = "work" /\ ptask \in {"SMPL1", "SMPL2", "MSMPL"}
  /\ ppc' = IF ptask = "MSMPL" /\ status # "MAPLIST" THEN "loop" ELSE "enum"
  /\ UNCHANGED <<mpc, cpc, flag, flag2, pipe, task, status, wake, ptask, pval, held,
                 leaked, ready, dispVars, envVars, stackVars>>

\* perf_status_set; the thread exits after a failed start
PerfSet ==
  /\ ppc = "set"
  /\ SetStatus(pval)
  /\ ppc' = IF pval = "FAILED" THEN "exit" ELSE "loop"
  /\ UNCHANGED <<mpc, cpc, flag, flag2, pipe, task, ptask, pval, held, leaked, ready,
                 dispVars, envVars, stackVars>>

\* proc_group_refresh needs the group mutex
PerfEnum ==
  /\ ppc = "enum" /\ ~GroupHeld /\ ppc' = "answer"
  /\ UNCHANGED <<mpc, cpc, flag, flag2, pipe, task, status, wake, ptask, pval, held,
                 leaked, ready, dispVars, envVars, stackVars>>

Answer == IF ptask = "SMPL2" THEN flag2' = "READY" /\ UNCHANGED flag
                             ELSE flag' = "READY" /\ UNCHANGED flag2

\* disp_profiling_data_ready, disp_maplist_data_ready or disp_flag2_set
PerfAnswer ==
  /\ ppc = "answer" /\ ppc' = "loop"
  /\ Answer
  /\ UNCHANGED <<mpc, cpc, pipe, task, status, wake, ptask, pval, held, leaked, ready,
                 dispVars, envVars, stackVars>>

Perf == PerfTake \/ PerfStop \/ PerfStart \/ PerfSmpl \/ PerfSet \/ PerfEnum \/ PerfAnswer

-----------------------------------------------------------------------------
\* the run time given with -t is over
Expire ==
  /\ RunLimit /\ clock = "running" /\ dpc \notin {"none", "start"}
  /\ clock' = "expired"
  /\ UNCHANGED <<mpc, cpc, flag, flag2, pipe, task, status, wake, ready, nkeys, nsig,
                 nwinch, fault, dispVars, perfVars, stackVars>>

\* the process has exited or was killed by an undefined step
Terminated == ~Running /\ UNCHANGED vars

Next == \/ /\ Running
           /\ Main \/ Cons \/ ConsKey \/ Disp \/ Perf \/ Signal \/ Winch \/ Expire
        \/ Terminated

Spec == Init /\ [][Next]_vars

\* Every thread that can take a step eventually does; the user, the signals
\* and the run-time clock are free.
Fairness == /\ WF_vars(Running /\ Main) /\ WF_vars(Running /\ Cons)
            /\ WF_vars(Running /\ Disp) /\ WF_vars(Running /\ Perf)

FairSpec == Spec /\ Fairness
=============================================================================
