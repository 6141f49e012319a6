----------------------------- MODULE DispPerfProofs ----------------------------
(***************************************************************************)
(* What holds of the threads for any keys, any number of them, of signals  *)
(* and of resizes, and any mix of failures and slowness.                   *)
(***************************************************************************)
EXTENDS DispPerfProps, SequenceTheorems, TLAPS

(* The page stack keeps its type. *)

LEMMA CurIsPage ==
  ASSUME pages \in Seq(Page), HasCur
  PROVE  Cur \in Page /\ Len(pages) \in Nat \ {0}
BY DEF HasCur, Cur

LEMMA OpenedIsPage ==
  ASSUME NEW p \in Page, NEW ok \in BOOLEAN PROVE Opened(p, ok) \in Page
BY DEF Opened, Page

LEMMA NewIsPage == ASSUME NEW c \in PageCmds PROVE NewPage(c) \in Page
BY DEF NewPage, Page

LEMMA WithTopIsSeq ==
  ASSUME NEW s \in Seq(Page), s # << >>, NEW p \in Page
  PROVE  WithTop(s, p) \in Seq(Page) /\ Len(WithTop(s, p)) = Len(s)
<1>1. Len(s) \in 1..Len(s)
  OBVIOUS
<1> QED BY <1>1, ExceptSeq DEF WithTop

\* A pending run is a run of the page on the screen.
StackInv == StackTypeOK /\ (next_run => HasCur)

\* The three parts of the invariant after a step, each proved by what suits it.
LEMMA StackParts ==
  ASSUME pages' \in Seq(Page), next_run' \in BOOLEAN, scr_ok' \in BOOLEAN,
         next_run' => pages' # << >>
  PROVE  StackInv'
BY DEF StackInv, StackTypeOK, HasCur

LEMMA HomeStep ==
  ASSUME StackInv, NEW ok \in BOOLEAN, NEW s \in BOOLEAN, Home(s, ok) PROVE StackInv'
<1>1. Opened(NewPage("HOME"), ok) \in Page
  BY NewIsPage, OpenedIsPage DEF PageCmds
<1>2. pages' \in Seq(Page) /\ pages' # << >>
  BY <1>1 DEF Home
<1>3. next_run' \in BOOLEAN /\ scr_ok' \in BOOLEAN
  BY Zenon DEF Home, StackInv, StackTypeOK
<1> QED BY <1>2, <1>3, StackParts

LEMMA NextStep ==
  ASSUME StackInv, NEW ok \in BOOLEAN, NEW s \in BOOLEAN, NEW c \in PageCmds,
         Next_(c, s, ok)
  PROVE  StackInv'
<1>1. Opened(NewPage(c), ok) \in Page
  BY NewIsPage, OpenedIsPage
<1>2. pages' \in Seq(Page) /\ pages' # << >>
  BY <1>1 DEF Next_, StackInv, StackTypeOK
<1>3. next_run' \in BOOLEAN /\ scr_ok' \in BOOLEAN
  BY Zenon DEF Next_, StackInv, StackTypeOK
<1> QED BY <1>2, <1>3, StackParts

LEMMA PrevStep ==
  ASSUME StackInv, NEW ok \in BOOLEAN, NEW s \in BOOLEAN, Prev(s, ok) PROVE StackInv'
<1>1. Len(pages) \in Nat /\ Len(pages) > 1 /\ pages[Len(pages) - 1] \in Page
  BY DEF Prev, StackInv, StackTypeOK
<1>2. Opened(pages[Len(pages) - 1], ok) \in Page
  BY <1>1, OpenedIsPage
<1>3. Below(pages) \in Seq(Page) /\ Len(Below(pages)) = Len(pages) - 1
  BY <1>1 DEF Below, StackInv, StackTypeOK
<1>4. Below(pages) # << >>
  BY <1>1, <1>3
<1>5. WithTop(Below(pages), Opened(pages[Len(pages) - 1], ok)) \in Seq(Page)
  BY <1>2, <1>3, <1>4, WithTopIsSeq
<1>6. Len(WithTop(Below(pages), Opened(pages[Len(pages) - 1], ok))) = Len(pages) - 1
  BY <1>2, <1>3, <1>4, WithTopIsSeq
<1>7. pages' \in Seq(Page) /\ pages' # << >>
  BY <1>1, <1>5, <1>6 DEF Prev
<1>8. next_run' \in BOOLEAN /\ scr_ok' \in BOOLEAN
  BY Zenon DEF Prev, StackInv, StackTypeOK
<1> QED BY <1>7, <1>8, StackParts

LEMMA RefreshStep == ASSUME StackInv, Refresh PROVE StackInv'
<1>1. pages' \in Seq(Page) /\ pages' # << >>
  BY DEF Refresh, HasCur, StackInv, StackTypeOK
<1>2. next_run' \in BOOLEAN /\ scr_ok' \in BOOLEAN
  BY Zenon DEF Refresh, StackInv, StackTypeOK
<1> QED BY <1>1, <1>2, StackParts

LEMMA ExecuteStep == ASSUME StackInv, NEW ok \in BOOLEAN, Execute(ok) PROVE StackInv'
<1>1. Opened(Cur, ok) \in Page
  BY CurIsPage, OpenedIsPage DEF Execute, StackInv, StackTypeOK
<1>2. pages' \in Seq(Page)
  BY <1>1, WithTopIsSeq DEF Execute, StackInv, StackTypeOK, HasCur
<1>3. next_run' \in BOOLEAN /\ scr_ok' \in BOOLEAN
  BY Zenon DEF Execute, StackInv, StackTypeOK
<1>4. ~next_run'
  BY Zenon DEF Execute
<1> QED BY <1>2, <1>3, <1>4, StackParts

LEMMA ResizeStep == ASSUME StackInv, NEW big \in BOOLEAN, Resize(big) PROVE StackInv'
<1>1. pages' \in Seq(Page) /\ Len(pages') = Len(pages)
  <2>1. \A i \in DOMAIN pages : [pages[i] EXCEPT !.inited = FALSE] \in Page
    <3>1. \A p \in Page : [p EXCEPT !.inited = FALSE] \in Page
      BY DEF Page
    <3> QED BY <3>1 DEF StackInv, StackTypeOK
  <2> QED BY <2>1 DEF Resize, StackInv, StackTypeOK
<1>2. next_run' \in BOOLEAN /\ scr_ok' \in BOOLEAN /\ (next_run' <=> next_run)
  BY Zenon DEF Resize, StackInv, StackTypeOK
<1>3. pages # << >> => pages' # << >>
  BY <1>1 DEF StackInv, StackTypeOK
<1> QED BY <1>1, <1>2, <1>3, StackParts DEF StackInv, HasCur

LEMMA FiniStep == ASSUME StackInv, Fini PROVE StackInv'
<1>1. pages' \in Seq(Page)
  BY DEF Fini
<1>2. next_run' \in BOOLEAN /\ scr_ok' \in BOOLEAN /\ ~next_run'
  BY Zenon DEF Fini, StackInv, StackTypeOK
<1> QED BY <1>1, <1>2, StackParts

LEMMA StackSame == ASSUME StackInv, UNCHANGED stackVars PROVE StackInv'
<1>1. /\ pages' = pages /\ next_run' = next_run /\ scr_ok' = scr_ok
  BY Zenon DEF stackVars
<1> QED BY <1>1, Zenon DEF StackInv, StackTypeOK, HasCur

-----------------------------------------------------------------------------
(* Types.  Boolean variables are kept apart: Zenon proves what is about    *)
(* them, SMT the rest.                                                     *)

BoolOK == wake \in BOOLEAN /\ smpl \in BOOLEAN /\ ready \in BOOLEAN /\ held \in BOOLEAN

DataOK ==
  /\ mpc \in {"start", "enter", "wait", "disp_init", "join_disp", "cons_quit",
              "join_cons", "done"}
  /\ cpc \in {"none", "init", "home", "loop", "exit"}
  /\ dpc \in {"none", "start", "loop", "resize", "cmd", "op", "ready", "scroll",
              "enter_key", "enter", "wait", "flag2", "go_home", "auto",
              "auto_start", "list_fini", "perf_fini", "join_perf", "exit"}
  /\ ppc \in {"none", "loop", "work", "set", "enum", "answer", "exit"}
  /\ flag \in Flags
  /\ flag2 \in {"NONE", "READY"}
  /\ pipe \in Seq({"q", "r"})
  /\ task \in Tasks /\ ptask \in Tasks
  /\ status \in Status /\ want \in Status /\ pval \in Status
  /\ job \in Cmds \cup {"NONE", "AUTO"}
  /\ leaked \in Nat
  /\ clock \in {"running", "expired", "over"}
  /\ nkeys \in 0..MaxKeys /\ nsig \in 0..MaxSignals /\ nwinch \in 0..MaxResizes
  /\ fault \in {"none", "null_page", "freed_window"}

Types == StackInv /\ BoolOK /\ DataOK

\* What page_show leaves to do, for whatever page and arguments.
LEMMA ShowStep ==
  ASSUME NEW p, NEW s, NEW ok, Show(p, s, ok)
  PROVE  \/ dpc' = "flag2" /\ task' = "SMPL2"
         \/ dpc' \in {"loop", "go_home"} /\ task' \in {task, "SMPL1", "MSMPL"}
         \/ dpc' = "auto" /\ task' = task /\ ~ready
BY DEF Show, Draw, Sample

LEMMA SampleStep ==
  ASSUME NEW c, Sample(c)
  PROVE  \/ dpc' = "flag2" /\ task' = "SMPL2"
         \/ dpc' = "loop" /\ task' \in {"SMPL1", "MSMPL"}
BY DEF Sample

LEMMA OpCommands ==
  ASSUME NEW c
  PROVE  /\ Op(CurType, c) \in {"home", "next"} => c \in PageCmds
         /\ Op(CurType, c) = "maplist" => c = "MAP_LIST"
BY DEF Op, PageCmds

LEMMA InitTypes == Init => Types
<1> SUFFICES ASSUME Init PROVE Types
  OBVIOUS
<1>1. StackInv
  <2>1. pages = << >> /\ ~next_run
    BY Zenon DEF Init, StackInit
  <2>2. next_run \in BOOLEAN /\ scr_ok \in BOOLEAN
    BY Zenon DEF Init, StackInit
  <2> QED BY <2>1, <2>2 DEF StackInv, StackTypeOK
<1>2. BoolOK
  BY ConstantsOK, Zenon DEF Init, BoolOK
<1>3. DataOK
  BY ConstantsOK DEF Init, DataOK, Flags, Cmds, Tasks, Status
<1> QED BY <1>1, <1>2, <1>3 DEF Types

LEMMA StackStep == ASSUME Types, [Next]_vars PROVE StackInv'
<1>0. StackInv
  BY DEF Types
<1>1. CASE ConsInit
  <2>1. pages' = pages /\ next_run' = next_run
    BY <1>1, Zenon DEF ConsInit
  <2>2. scr_ok' \in BOOLEAN
    BY <1>1, Zenon DEF ConsInit
  <2> QED BY <2>1, <2>2, Zenon DEF Types, StackInv, StackTypeOK, HasCur
<1>2. CASE DispResize
  BY <1>2, ResizeStep DEF DispResize, Types
<1>3. CASE DispNext
  <2>1. PICK ok \in InitResults :
          IF job = "HOME" THEN Home(smpl, ok) ELSE Next_(job, smpl, ok)
    BY <1>3 DEF DispNext
  <2>2. ok \in BOOLEAN /\ smpl \in BOOLEAN
    BY Zenon DEF InitResults, Types, BoolOK
  <2>3. job \in PageCmds
    BY <1>3, OpCommands DEF DispNext
  <2> QED BY <2>1, <2>2, <2>3, HomeStep, NextStep DEF Types
<1>4. CASE DispMapList
  <2>1. ASSUME NEW ok \in InitResults, Next_(job, smpl, ok) PROVE StackInv'
    <3>1. ok \in BOOLEAN /\ smpl \in BOOLEAN
      BY Zenon DEF InitResults, Types, BoolOK
    <3>2. job \in PageCmds
      BY <1>4, OpCommands DEF DispMapList, PageCmds
    <3> QED BY <2>1, <3>1, <3>2, NextStep DEF Types
  <2>2. ASSUME UNCHANGED stackVars PROVE StackInv'
    BY <2>2, StackSame DEF Types
  <2> QED BY <1>4, <2>1, <2>2 DEF DispMapList, Crash
<1>5. CASE DispPrev
  <2>1. ASSUME NEW ok \in InitResults, Prev(smpl, ok) PROVE StackInv'
    <3>1. ok \in BOOLEAN /\ smpl \in BOOLEAN
      BY Zenon DEF InitResults, Types, BoolOK
    <3> QED BY <2>1, <3>1, PrevStep DEF Types
  <2>2. ASSUME UNCHANGED stackVars PROVE StackInv'
    BY <2>2, StackSame DEF Types
  <2> QED BY <1>5, <2>1, <2>2 DEF DispPrev
<1>6. CASE DispRefresh
  BY <1>6, RefreshStep, StackSame DEF DispRefresh, Crash, Types
<1>7. CASE DispReady
  <2>1. ASSUME NEW ok \in InitResults, Execute(ok) PROVE StackInv'
    <3>1. ok \in BOOLEAN
      BY Zenon DEF InitResults
    <3> QED BY <2>1, <3>1, ExecuteStep DEF Types
  <2>2. ASSUME UNCHANGED stackVars PROVE StackInv'
    BY <2>2, StackSame DEF Types
  <2> QED BY <1>7, <2>1, <2>2 DEF DispReady
<1>8. CASE DispListFini
  BY <1>8, FiniStep DEF DispListFini, Types
<1>9. CASE UNCHANGED stackVars
  BY <1>9, <1>0, StackSame
<1> QED BY <1>1, <1>2, <1>3, <1>4, <1>5, <1>6, <1>7, <1>8, <1>9
  DEF Next, vars, stackVars, Main, Cons, Disp, Perf, Terminated, MainPerfInit, MainWait,
      MainWaitDone, MainDispInit, MainJoinDisp, MainConsQuit, MainJoinCons, ConsHome,
      ConsPipe, DispStart, DispTake, DispTimeout, DispCmd, DispWait, DispWaitDone,
      DispNop, DispFlag2, DispScroll, DispEnterKey, DispGoHome, DispAuto, DispAutoStart,
      DispPerfFini, DispJoinPerf, PerfTake, PerfStop, PerfStart, PerfSmpl, PerfSet,
      PerfEnum, PerfAnswer, ConsKey, Signal, Winch, Expire, Crash

LEMMA BoolStep == ASSUME Types, [Next]_vars PROVE BoolOK'
<1> USE DEF Types, BoolOK
<1>1. CASE MainPerfInit
  BY <1>1, Zenon DEF MainPerfInit, dispVars, perfVars, envVars
<1>2. CASE MainWait
  BY <1>2, Zenon DEF MainWait, dispVars, perfVars, envVars
<1>3. CASE MainWaitDone
  BY <1>3, Zenon DEF MainWaitDone, dispVars, perfVars, envVars
<1>4. CASE MainDispInit
  BY <1>4, Zenon DEF MainDispInit, dispVars, perfVars, envVars
<1>5. CASE MainJoinDisp
  BY <1>5, Zenon DEF MainJoinDisp, dispVars, perfVars, envVars
<1>6. CASE MainConsQuit
  BY <1>6, Zenon DEF MainConsQuit, dispVars, perfVars, envVars
<1>7. CASE MainJoinCons
  BY <1>7, Zenon DEF MainJoinCons, dispVars, perfVars, envVars
<1>8. CASE ConsInit
  BY <1>8, Zenon DEF ConsInit, dispVars, perfVars, envVars
<1>9. CASE ConsHome
  BY <1>9, Zenon DEF ConsHome, dispVars, perfVars, envVars
<1>10. CASE ConsPipe
  BY <1>10, Zenon DEF ConsPipe, dispVars, perfVars, envVars
<1>11. CASE DispStart
  BY <1>11, Zenon DEF DispStart, dispVars, perfVars, envVars
<1>12. CASE DispTake
  BY <1>12, Zenon DEF DispTake, dispVars, perfVars, envVars
<1>13. CASE DispTimeout
  BY <1>13, Zenon DEF DispTimeout, dispVars, perfVars, envVars
<1>14. CASE DispResize
  BY <1>14, Zenon DEF DispResize, dispVars, perfVars, envVars
<1>15. CASE DispCmd
  BY <1>15, Zenon DEF DispCmd, dispVars, perfVars, envVars
<1>16. CASE DispWait
  BY <1>16, Zenon DEF DispWait, dispVars, perfVars, envVars
<1>17. CASE DispWaitDone
  BY <1>17, Zenon DEF DispWaitDone, Idle, dispVars, perfVars, envVars
<1>18. CASE DispNext
  BY <1>18, Zenon DEF DispNext, dispVars, perfVars, envVars
<1>19. CASE DispMapList
  BY <1>19, Zenon DEF DispMapList, Idle, dispVars, perfVars, envVars
<1>20. CASE DispPrev
  BY <1>20, Zenon DEF DispPrev, dispVars, perfVars, envVars
<1>21. CASE DispRefresh
  BY <1>21, Zenon DEF DispRefresh, Idle, dispVars, perfVars, envVars
<1>22. CASE DispNop
  BY <1>22, Zenon DEF DispNop, Idle, dispVars, perfVars, envVars
<1>23. CASE DispFlag2
  BY <1>23, Zenon DEF DispFlag2, dispVars, perfVars, envVars
<1>24. CASE DispReady
  BY <1>24, Zenon DEF DispReady, dispVars, perfVars, envVars
<1>25. CASE DispScroll
  BY <1>25, Zenon DEF DispScroll, dispVars, perfVars, envVars
<1>26. CASE DispEnterKey
  BY <1>26, Zenon DEF DispEnterKey, dispVars, perfVars, envVars
<1>27. CASE DispGoHome
  BY <1>27, Zenon DEF DispGoHome, dispVars, perfVars, envVars
<1>28. CASE DispAuto
  BY <1>28, Zenon DEF DispAuto, SetStatus, dispVars, perfVars, envVars
<1>29. CASE DispAutoStart
  BY <1>29, Zenon DEF DispAutoStart, dispVars, perfVars, envVars
<1>30. CASE DispListFini
  BY <1>30, Zenon DEF DispListFini, dispVars, perfVars, envVars
<1>31. CASE DispPerfFini
  BY <1>31, Zenon DEF DispPerfFini, dispVars, perfVars, envVars
<1>32. CASE DispJoinPerf
  BY <1>32, Zenon DEF DispJoinPerf, dispVars, perfVars, envVars
<1>33. CASE PerfTake
  BY <1>33, Zenon DEF PerfTake, dispVars, perfVars, envVars
<1>34. CASE PerfStop
  BY <1>34, Zenon DEF PerfStop, AllStop, dispVars, perfVars, envVars
<1>35. CASE PerfStart
  BY <1>35, Zenon DEF PerfStart, Setup, dispVars, perfVars, envVars
<1>36. CASE PerfSmpl
  BY <1>36, Zenon DEF PerfSmpl, dispVars, perfVars, envVars
<1>37. CASE PerfSet
  BY <1>37, Zenon DEF PerfSet, SetStatus, dispVars, perfVars, envVars
<1>38. CASE PerfEnum
  BY <1>38, Zenon DEF PerfEnum, dispVars, perfVars, envVars
<1>39. CASE PerfAnswer
  BY <1>39, Zenon DEF PerfAnswer, dispVars, perfVars, envVars
<1>40. CASE ConsKey
  BY <1>40, Zenon DEF ConsKey, dispVars, perfVars, envVars
<1>41. CASE Signal
  BY <1>41, Zenon DEF Signal, dispVars, perfVars, envVars
<1>42. CASE Winch
  BY <1>42, Zenon DEF Winch, dispVars, perfVars, envVars
<1>43. CASE Expire
  BY <1>43, Zenon DEF Expire, dispVars, perfVars, envVars
<1>44. CASE UNCHANGED vars
  BY <1>44, Zenon DEF vars
<1> QED BY <1>1, <1>2, <1>3, <1>4, <1>5, <1>6, <1>7, <1>8, <1>9, <1>10, <1>11, <1>12,
         <1>13, <1>14, <1>15, <1>16, <1>17, <1>18, <1>19, <1>20, <1>21, <1>22, <1>23,
         <1>24, <1>25, <1>26, <1>27, <1>28, <1>29, <1>30, <1>31, <1>32, <1>33, <1>34,
         <1>35, <1>36, <1>37, <1>38, <1>39, <1>40, <1>41, <1>42, <1>43, <1>44
  DEF Next, Main, Cons, Disp, Perf, Terminated

LEMMA DataStep == ASSUME Types, [Next]_vars PROVE DataOK'
<1> USE ConstantsOK DEF Types, DataOK, Flags, Cmds, Tasks, Status
<1>1. CASE MainPerfInit
  BY <1>1 DEF MainPerfInit, dispVars, perfVars, envVars, PageCmds
<1>2. CASE MainWait
  BY <1>2 DEF MainWait, WakeIdle, dispVars, perfVars, envVars, PageCmds
<1>3. CASE MainWaitDone
  BY <1>3 DEF MainWaitDone, Woken, TimedOut, dispVars, perfVars, envVars, PageCmds
<1>4. CASE MainDispInit
  BY <1>4 DEF MainDispInit, dispVars, perfVars, envVars, PageCmds
<1>5. CASE MainJoinDisp
  BY <1>5 DEF MainJoinDisp, DispGone, dispVars, perfVars, envVars, PageCmds
<1>6. CASE MainConsQuit
  BY <1>6 DEF MainConsQuit, QuitChar, dispVars, perfVars, envVars, PageCmds
<1>7. CASE MainJoinCons
  BY <1>7 DEF MainJoinCons, dispVars, perfVars, envVars, PageCmds
<1>8. CASE ConsInit
  BY <1>8 DEF ConsInit, dispVars, perfVars, envVars, PageCmds
<1>9. CASE ConsHome
  BY <1>9 DEF ConsHome, dispVars, perfVars, envVars, PageCmds
<1>10. CASE ConsPipe
  BY <1>10 DEF ConsPipe, dispVars, perfVars, envVars, PageCmds
<1>11. CASE DispStart
  BY <1>11 DEF DispStart, dispVars, perfVars, envVars, PageCmds
<1>12. CASE DispTake
  BY <1>12 DEF DispTake, dispVars, perfVars, envVars, PageCmds
<1>13. CASE DispTimeout
  BY <1>13 DEF DispTimeout, dispVars, perfVars, envVars, PageCmds
<1>14. CASE DispResize
  BY <1>14 DEF DispResize, dispVars, perfVars, envVars, PageCmds
<1>15. CASE DispCmd
  BY <1>15 DEF DispCmd, dispVars, perfVars, envVars, PageCmds
<1>16. CASE DispWait
  BY <1>16 DEF DispWait, WakeIdle, dispVars, perfVars, envVars, PageCmds
<1>17. CASE DispWaitDone
  BY <1>17 DEF DispWaitDone, Woken, TimedOut, Idle, dispVars, perfVars, envVars,
      PageCmds
<1>18. CASE DispNext
  BY <1>18, ShowStep DEF DispNext, dispVars, perfVars, envVars, PageCmds
<1>19. CASE DispMapList
  BY <1>19, ShowStep DEF DispMapList, Idle, Crash, dispVars, perfVars, envVars, PageCmds
<1>20. CASE DispPrev
  BY <1>20, ShowStep DEF DispPrev, dispVars, perfVars, envVars, PageCmds
<1>21. CASE DispRefresh
  BY <1>21, SampleStep DEF DispRefresh, Idle, Crash, dispVars, perfVars, envVars,
      PageCmds
<1>22. CASE DispNop
  BY <1>22 DEF DispNop, Idle, dispVars, perfVars, envVars, PageCmds
<1>23. CASE DispFlag2
  BY <1>23 DEF DispFlag2, TakeFlag2, dispVars, perfVars, envVars, PageCmds
<1>24. CASE DispReady
  <2>1. dpc' \in {"flag2", "loop", "go_home", "auto"} /\ task' \in {task, "SMPL1", "SMPL2", "MSMPL"}
    <3>1. ASSUME NEW ok \in InitResults, Show(Cur, FALSE, ok)
          PROVE  dpc' \in {"flag2", "loop", "go_home", "auto"} /\ task' \in {task, "SMPL1", "SMPL2", "MSMPL"}
      BY <3>1, ShowStep
    <3> QED BY <1>24, <3>1, Zenon DEF DispReady
  <2>2. job' \in {"AUTO", "NONE"}
    BY <1>24 DEF DispReady
  <2>3. UNCHANGED <<mpc, cpc, flag, flag2, pipe, status, want, perfVars, envVars>>
    BY <1>24 DEF DispReady
  <2> QED BY <2>1, <2>2, <2>3 DEF perfVars, envVars
<1>25. CASE DispScroll
  BY <1>25 DEF DispScroll, Crash, dispVars, perfVars, envVars, PageCmds
<1>26. CASE DispEnterKey
  BY <1>26 DEF DispEnterKey, Crash, dispVars, perfVars, envVars, PageCmds
<1>27. CASE DispGoHome
  BY <1>27 DEF DispGoHome, dispVars, perfVars, envVars, PageCmds
<1>28. CASE DispAuto
  BY <1>28 DEF DispAuto, SetStatus, dispVars, perfVars, envVars, PageCmds
<1>29. CASE DispAutoStart
  BY <1>29 DEF DispAutoStart, dispVars, perfVars, envVars, PageCmds
<1>30. CASE DispListFini
  BY <1>30 DEF DispListFini, dispVars, perfVars, envVars, PageCmds
<1>31. CASE DispPerfFini
  BY <1>31 DEF DispPerfFini, dispVars, perfVars, envVars, PageCmds
<1>32. CASE DispJoinPerf
  BY <1>32 DEF DispJoinPerf, dispVars, perfVars, envVars, PageCmds
<1>33. CASE PerfTake
  BY <1>33 DEF PerfTake, dispVars, perfVars, envVars, PageCmds
<1>34. CASE PerfStop
  BY <1>34 DEF PerfStop, AllStop, dispVars, perfVars, envVars, PageCmds
<1>35. CASE PerfStart
  BY <1>35 DEF PerfStart, Setup, dispVars, perfVars, envVars, PageCmds
<1>36. CASE PerfSmpl
  BY <1>36 DEF PerfSmpl, dispVars, perfVars, envVars, PageCmds
<1>37. CASE PerfSet
  BY <1>37 DEF PerfSet, SetStatus, dispVars, perfVars, envVars, PageCmds
<1>38. CASE PerfEnum
  BY <1>38 DEF PerfEnum, dispVars, perfVars, envVars, PageCmds
<1>39. CASE PerfAnswer
  BY <1>39 DEF PerfAnswer, Answer, dispVars, perfVars, envVars, PageCmds
<1>40. CASE ConsKey
  BY <1>40 DEF ConsKey, dispVars, perfVars, envVars, KeySet, PageCmds
<1>41. CASE Signal
  BY <1>41 DEF Signal, dispVars, perfVars, envVars, PageCmds
<1>42. CASE Winch
  BY <1>42 DEF Winch, dispVars, perfVars, envVars, PageCmds
<1>43. CASE Expire
  BY <1>43 DEF Expire, dispVars, perfVars, envVars, PageCmds
<1>44. CASE UNCHANGED vars
  BY <1>44 DEF vars
<1> QED BY <1>1, <1>2, <1>3, <1>4, <1>5, <1>6, <1>7, <1>8, <1>9, <1>10, <1>11, <1>12,
         <1>13, <1>14, <1>15, <1>16, <1>17, <1>18, <1>19, <1>20, <1>21, <1>22, <1>23,
         <1>24, <1>25, <1>26, <1>27, <1>28, <1>29, <1>30, <1>31, <1>32, <1>33, <1>34,
         <1>35, <1>36, <1>37, <1>38, <1>39, <1>40, <1>41, <1>42, <1>43, <1>44
  DEF Next, Main, Cons, Disp, Perf, Terminated

-----------------------------------------------------------------------------
\* All variables keep their types.
THEOREM TypeCorrect == Spec => []TypeOK
<1>1. Types /\ [Next]_vars => Types'
  BY StackStep, BoolStep, DataStep DEF Types
<1>2. Types => TypeOK
  BY DEF Types, StackInv, BoolOK, DataOK, TypeOK
<1> QED BY InitTypes, <1>1, <1>2, PTL DEF Spec

-----------------------------------------------------------------------------
(***************************************************************************)
(* What the display and the perf thread never lose between them: the one   *)
(* sample the detail page waits for, the perf event, the control tasks and *)
(* the mode that goes with the page on the screen.                         *)
(***************************************************************************)

(* What a step of each thread leaves alone. *)

\* The operations that run a page: they end in a sample or in a drawing.
PageOp == DispNext \/ DispMapList \/ DispPrev \/ DispRefresh \/ DispReady

LEMMA PageOpFrame ==
  ASSUME PageOp
  PROVE  /\ dpc \in {"op", "ready"}
         /\ UNCHANGED <<mpc, cpc, flag2, status, wake, ready, ppc, ptask, pval, held,
                        leaked>>
         /\ \/ dpc' = dpc /\ task' = task
            \/ dpc' = "flag2" /\ task' = "SMPL2"
            \/ dpc' \in {"loop", "go_home"} /\ task' \in {task, "SMPL1", "MSMPL"}
            \/ dpc' = "auto" /\ task' = task /\ ~ready
<1> USE DEF perfVars
<1>1. CASE DispNext
  <2>1. PICK ok : Show(NewPage(job), smpl, ok)
    BY <1>1 DEF DispNext
  <2> QED BY <1>1, <2>1, ShowStep DEF DispNext
<1>2. CASE DispMapList
  <2>1. CASE \E ok : Show(NewPage(job), smpl, ok)
    BY <1>2, <2>1, ShowStep DEF DispMapList
  <2>2. CASE UNCHANGED <<task, dpc>>
    BY <1>2, <2>2 DEF DispMapList
  <2> QED BY <1>2, <2>1, <2>2 DEF DispMapList, Crash
<1>3. CASE DispPrev
  <2>1. CASE \E ok : Show(pages[Len(pages) - 1], smpl, ok)
    BY <1>3, <2>1, ShowStep DEF DispPrev
  <2>2. CASE dpc' = "loop" /\ task' = task
    BY <1>3, <2>2 DEF DispPrev
  <2> QED BY <1>3, <2>1, <2>2 DEF DispPrev
<1>4. CASE DispRefresh
  BY <1>4, SampleStep DEF DispRefresh, Crash
<1>5. CASE DispReady
  <2>1. CASE \E ok : Show(Cur, FALSE, ok)
    BY <1>5, <2>1, ShowStep DEF DispReady
  <2>2. CASE dpc' = "loop" /\ task' = task
    BY <1>5, <2>2 DEF DispReady
  <2> QED BY <1>5, <2>1, <2>2 DEF DispReady
<1> QED BY <1>1, <1>2, <1>3, <1>4, <1>5 DEF PageOp

\* A step of the display thread other than the end of disp_flag2_wait starts
\* outside that wait, and enters it only by posting SMPL2.
LEMMA DispFrame ==
  ASSUME Disp, ~DispFlag2
  PROVE  /\ dpc \notin {"none", "flag2"} /\ dpc' # "none"
         /\ UNCHANGED <<mpc, ppc, ptask, pval, held, leaked, flag2>>
         /\ \/ dpc' = "flag2" /\ task' = "SMPL2"
            \/ dpc' # "flag2" /\ (task' # "SMPL2" \/ task' = task)
<1> USE DEF perfVars
<1>1. CASE PageOp
  BY <1>1, PageOpFrame
<1>2. CASE DispStart \/ DispTake \/ DispTimeout \/ DispResize
  BY <1>2 DEF DispStart, DispTake, DispTimeout, DispResize
<1>3. CASE DispCmd \/ DispWait \/ DispWaitDone \/ DispNop
  BY <1>3 DEF DispCmd, DispWait, DispWaitDone, DispNop
<1>4. CASE DispScroll \/ DispEnterKey \/ DispGoHome \/ DispAuto \/ DispAutoStart
  BY <1>4 DEF DispScroll, DispEnterKey, DispGoHome, DispAuto, DispAutoStart, Crash
<1>5. CASE DispListFini \/ DispPerfFini \/ DispJoinPerf
  BY <1>5 DEF DispListFini, DispPerfFini, DispJoinPerf
<1> QED BY <1>1, <1>2, <1>3, <1>4, <1>5 DEF PageOp, Disp

-----------------------------------------------------------------------------
(* The sample of the detail page. *)

\* main creates perf first, and disp only after the first status wait.
StartOrder ==
  /\ mpc \in {"start", "enter", "wait", "disp_init"} => dpc = "none"
  /\ mpc = "start" => ppc = "none"

Flag2Inv == StartOrder /\ Flag2Accounting

LEMMA Flag2Same ==
  ASSUME Flag2Inv, UNCHANGED <<mpc, dpc, ppc, task, ptask, flag2>> PROVE Flag2Inv'
BY DEF Flag2Inv, StartOrder, Flag2Accounting, SampleInSlot, SampleInPerf, SampleAnswered

LEMMA DispOrder == ASSUME StartOrder, Disp PROVE StartOrder'
<1>1. CASE DispFlag2
  BY <1>1 DEF DispFlag2, StartOrder, perfVars
<1>2. CASE ~DispFlag2
  BY <1>2, DispFrame DEF StartOrder
<1> QED BY <1>1, <1>2

LEMMA Flag2Main == ASSUME Flag2Inv, Main PROVE Flag2Inv'
<1> USE DEF Flag2Inv, StartOrder, Flag2Accounting, SampleInSlot, SampleInPerf,
            SampleAnswered, dispVars, perfVars
<1>1. CASE MainPerfInit
  BY <1>1 DEF MainPerfInit
<1>2. CASE MainDispInit
  BY <1>2 DEF MainDispInit
<1>3. CASE MainWait \/ MainWaitDone
  BY <1>3 DEF MainWait, MainWaitDone
<1>4. CASE MainJoinDisp \/ MainConsQuit \/ MainJoinCons
  BY <1>4 DEF MainJoinDisp, MainConsQuit, MainJoinCons
<1> QED BY <1>1, <1>2, <1>3, <1>4 DEF Main

LEMMA Flag2Disp == ASSUME Flag2Inv, Disp PROVE Flag2Inv'
<1> USE DEF Flag2Inv, StartOrder, Flag2Accounting, SampleInSlot, SampleInPerf,
            SampleAnswered
<1>1. CASE DispFlag2
  BY <1>1 DEF DispFlag2, TakeFlag2, perfVars
<1>2. CASE ~DispFlag2
  BY <1>2, DispFrame
<1> QED BY <1>1, <1>2

LEMMA Flag2Perf == ASSUME Flag2Inv, Perf PROVE Flag2Inv'
<1> USE DEF Flag2Inv, StartOrder, Flag2Accounting, SampleInSlot, SampleInPerf,
            SampleAnswered, dispVars
<1>1. CASE PerfTake
  BY <1>1 DEF PerfTake
<1>2. CASE PerfStop \/ PerfStart
  BY <1>2 DEF PerfStop, PerfStart
<1>3. CASE PerfSmpl
  BY <1>3 DEF PerfSmpl
<1>4. CASE PerfSet \/ PerfEnum
  BY <1>4 DEF PerfSet, PerfEnum
<1>5. CASE PerfAnswer
  BY <1>5 DEF PerfAnswer, Answer
<1> QED BY <1>1, <1>2, <1>3, <1>4, <1>5 DEF Perf

\* The sample the display thread waits for without a timeout is always in
\* exactly one place (disp_flag2_wait, os_profiling_smpl).
THEOREM Flag2AlwaysAccounted == Spec => []Flag2Accounting
<1>1. Init => Flag2Inv
  BY DEF Init, Flag2Inv, StartOrder, Flag2Accounting, SampleInSlot, SampleInPerf,
         SampleAnswered
<1>2. Flag2Inv /\ [Next]_vars => Flag2Inv'
  <2> SUFFICES ASSUME Flag2Inv, [Next]_vars PROVE Flag2Inv'
    OBVIOUS
  <2>1. CASE Main
    BY <2>1, Flag2Main
  <2>2. CASE Disp
    BY <2>2, Flag2Disp
  <2>3. CASE Perf
    BY <2>3, Flag2Perf
  <2>4. CASE Cons \/ ConsKey \/ Signal \/ Winch \/ Expire \/ UNCHANGED vars
    <3>1. UNCHANGED <<mpc, dpc, ppc, task, ptask, flag2>>
      BY <2>4 DEF Cons, ConsInit, ConsHome, ConsPipe, ConsKey, Signal, Winch, Expire,
                  vars, dispVars, perfVars
    <3> QED BY <3>1, Flag2Same
  <2> QED BY <2>1, <2>2, <2>3, <2>4 DEF Next, Terminated
<1>3. Flag2Inv => Flag2Accounting
  BY DEF Flag2Inv
<1> QED BY <1>1, <1>2, <1>3, PTL DEF Spec

-----------------------------------------------------------------------------
(* The perf event, when the processes to watch were given with -p: the     *)
(* automatic start of proc_monitor, which sets the status by hand, is out. *)

EventInv ==
  /\ ready /\ dpc \notin {"auto", "auto_start"}
  /\ leaked = 0
  /\ ppc \notin {"set", "exit"} => (held <=> status = "STARTED")
  /\ ppc = "set" /\ pval # "FAILED" => (held <=> pval = "STARTED")

\* Once target_procs.ready is set no step of the display thread touches the status.
LEMMA ReadyFrame ==
  ASSUME Disp, ready, dpc \notin {"auto", "auto_start"}
  PROVE  /\ ready' /\ dpc' \notin {"auto", "auto_start"}
         /\ UNCHANGED <<mpc, status, ppc, pval, held, leaked>>
<1> USE DEF perfVars
<1>1. CASE PageOp
  BY <1>1, PageOpFrame
<1>2. CASE DispStart \/ DispTake \/ DispTimeout \/ DispResize \/ DispFlag2
  BY <1>2 DEF DispStart, DispTake, DispTimeout, DispResize, DispFlag2
<1>3. CASE DispCmd \/ DispWait \/ DispWaitDone \/ DispNop
  BY <1>3 DEF DispCmd, DispWait, DispWaitDone, DispNop
<1>4. CASE DispScroll \/ DispEnterKey \/ DispGoHome \/ DispAuto \/ DispAutoStart
  BY <1>4 DEF DispScroll, DispEnterKey, DispGoHome, DispAuto, DispAutoStart, Crash
<1>5. CASE DispListFini \/ DispPerfFini \/ DispJoinPerf
  BY <1>5 DEF DispListFini, DispPerfFini, DispJoinPerf
<1> QED BY <1>1, <1>2, <1>3, <1>4, <1>5 DEF PageOp, Disp

LEMMA EventSame ==
  ASSUME EventInv, ready', dpc' \notin {"auto", "auto_start"},
         UNCHANGED <<status, ppc, pval, held, leaked>>
  PROVE  EventInv'
BY DEF EventInv

LEMMA EventPerf == ASSUME EventInv, StartOrder, Perf PROVE EventInv'
<1>0. ready' /\ dpc' = dpc
  BY DEF EventInv, Perf, PerfTake, PerfStop, PerfStart, PerfSmpl, PerfSet, PerfEnum,
         PerfAnswer, dispVars
<1> USE <1>0 DEF EventInv
<1>1. CASE PerfTake
  BY <1>1 DEF PerfTake
<1>2. CASE PerfStop
  BY <1>2 DEF PerfStop, AllStop
<1>3. CASE PerfStart
  <2>1. CASE status = "STARTED"
    BY <1>3, <2>1 DEF PerfStart
  <2>2. CASE status # "STARTED"
    BY <1>3, <2>2 DEF PerfStart, Setup
  <2> QED BY <2>1, <2>2
<1>4. CASE PerfSmpl
  BY <1>4 DEF PerfSmpl
<1>5. CASE PerfSet
  BY <1>5 DEF PerfSet, SetStatus
<1>6. CASE PerfEnum \/ PerfAnswer
  BY <1>6 DEF PerfEnum, PerfAnswer
<1> QED BY <1>1, <1>2, <1>3, <1>4, <1>5, <1>6 DEF Perf

LEMMA EventStep ==
  ASSUME StartOrder, EventInv, [Next]_vars PROVE StartOrder' /\ EventInv'
<1>1. CASE MainPerfInit
  BY <1>1 DEF MainPerfInit, StartOrder, EventInv, dispVars
<1>2. CASE MainDispInit
  BY <1>2 DEF MainDispInit, StartOrder, EventInv, perfVars
<1>3. CASE MainWait \/ MainWaitDone \/ MainJoinDisp \/ MainConsQuit \/ MainJoinCons
  <2>1. UNCHANGED <<dpc, ready, status, ppc, pval, held, leaked>>
    BY <1>3 DEF MainWait, MainWaitDone, MainJoinDisp, MainConsQuit, MainJoinCons,
                dispVars, perfVars
  <2>2. StartOrder'
    BY <1>3, <2>1 DEF MainWait, MainWaitDone, MainJoinDisp, MainConsQuit,
                      MainJoinCons, StartOrder
  <2>3. ready' /\ dpc' \notin {"auto", "auto_start"}
    BY <2>1, Zenon DEF EventInv
  <2> QED BY <2>1, <2>2, <2>3, EventSame
<1>4. CASE Disp
  <2>1. StartOrder'
    BY <1>4, ReadyFrame, DispOrder DEF EventInv
  <2> QED BY <1>4, <2>1, ReadyFrame, EventSame DEF EventInv
<1>5. CASE Perf
  <2>1. StartOrder'
    BY <1>5 DEF StartOrder, Perf, PerfTake, PerfStop, PerfStart, PerfSmpl, PerfSet,
                PerfEnum, PerfAnswer, dispVars
  <2> QED BY <1>5, <2>1, EventPerf
<1>6. CASE Cons \/ ConsKey \/ Signal \/ Winch \/ Expire \/ UNCHANGED vars
  <2>1. UNCHANGED <<mpc, dpc, ready, status, ppc, pval, held, leaked>>
    BY <1>6 DEF Cons, ConsInit, ConsHome, ConsPipe, ConsKey, Signal, Winch, Expire,
                vars, dispVars, perfVars
  <2>2. StartOrder'
    BY <2>1 DEF StartOrder
  <2>3. ready' /\ dpc' \notin {"auto", "auto_start"}
    BY <2>1, Zenon DEF EventInv
  <2> QED BY <2>1, <2>2, <2>3, EventSame
<1> QED BY <1>1, <1>2, <1>3, <1>4, <1>5, <1>6 DEF Next, Main, Terminated

\* With -p the event is open exactly when the status says profiling, and none
\* is opened over an open one (os_allstop, os_profiling_start).
THEOREM EventAlwaysOwned == ASSUME WithPid PROVE Spec => []EventOwned
<1> DEFINE Inv == StartOrder /\ EventInv
<1>1. Init => Inv
  BY DEF Init, StartOrder, EventInv
<1>2. Inv /\ [Next]_vars => Inv'
  BY EventStep
<1>3. Inv => EventOwned
  BY DEF EventInv, EventOwned
<1> QED BY <1>1, <1>2, <1>3, PTL DEF Spec

-----------------------------------------------------------------------------
(* The control tasks, with -p and when no thread is slower than the waits. *)

ControlTasks == {"START", "STOP", "MSTART", "QUIT"}
PerfBusy == ptask \in ControlTasks /\ ppc \in {"work", "set"}
Settled == ~ControlTask /\ ~PerfBusy
Waiting == mpc \in {"enter", "wait"} \/ dpc \in {"enter", "wait", "join_perf"}

\* A control task is under way only while its poster waits, and a signalled
\* poster finds nothing under way.
ControlInv ==
  /\ StartOrder
  /\ ppc = "set" => ptask \in ControlTasks
  /\ PerfBusy => ~ControlTask
  /\ ~Waiting /\ ppc # "exit" => Settled
  /\ wake /\ (mpc = "wait" \/ dpc = "wait") /\ ppc # "exit" => Settled

NoAuto == ready /\ dpc \notin {"auto", "auto_start"} /\ job # "AUTO"

\* A wait that ends early ends because nothing is under way.
LEMMA WaitOver ==
  ASSUME ~Slow, NoAuto, ControlInv, NEW w, Woken(w) \/ TimedOut,
         mpc = "wait" \/ dpc = "wait"
  PROVE  ppc # "exit" => Settled
BY DEF NoAuto, ControlInv, Woken, TimedOut, PerfStuck, GroupHeld, Settled, ControlTask,
       PerfBusy

\* Outside its waits the display thread posts a control task only by entering one.
LEMMA PostFrame ==
  ASSUME Disp, NoAuto, ~DispWait, ~DispWaitDone, ~DispJoinPerf
  PROVE  /\ dpc \notin {"none", "enter", "wait", "join_perf"}
         /\ dpc' \notin {"none", "wait"}
         /\ UNCHANGED <<mpc, ppc, ptask>>
         /\ task' \in ControlTasks => task' = task \/ dpc' \in {"enter", "join_perf"}
<1> USE DEF perfVars, ControlTasks, NoAuto
<1>1. CASE PageOp
  BY <1>1, PageOpFrame
<1>2. CASE DispStart \/ DispTake \/ DispTimeout \/ DispResize \/ DispFlag2
  BY <1>2 DEF DispStart, DispTake, DispTimeout, DispResize, DispFlag2
<1>3. CASE DispCmd \/ DispNop
  BY <1>3 DEF DispCmd, DispNop
<1>4. CASE DispScroll \/ DispEnterKey \/ DispGoHome \/ DispAuto \/ DispAutoStart
  BY <1>4 DEF DispScroll, DispEnterKey, DispGoHome, DispAuto, DispAutoStart, Crash
<1>5. CASE DispListFini \/ DispPerfFini
  BY <1>5 DEF DispListFini, DispPerfFini
<1> QED BY <1>1, <1>2, <1>3, <1>4, <1>5 DEF PageOp, Disp

LEMMA NoAutoDisp == ASSUME Disp, NoAuto PROVE NoAuto'
<1>1. ready' /\ dpc' \notin {"auto", "auto_start"}
  BY ReadyFrame DEF NoAuto
<1>2. job' # "AUTO"
  BY <1>1 DEF NoAuto, Disp, DispStart, DispTake, DispTimeout, DispResize, DispCmd,
              DispWait, DispWaitDone, DispNext, DispMapList, DispPrev, DispRefresh,
              DispNop, DispFlag2, DispReady, DispScroll, DispEnterKey, DispGoHome,
              DispAuto, DispAutoStart, DispListFini, DispPerfFini, DispJoinPerf, Idle,
              Crash, Cmds, PageCmds
<1> QED BY <1>1, <1>2 DEF NoAuto

LEMMA ControlSame ==
  ASSUME ControlInv, UNCHANGED <<mpc, dpc, ppc, task, ptask, wake>> PROVE ControlInv'
BY DEF ControlInv, StartOrder, Settled, ControlTask, PerfBusy, Waiting

LEMMA ControlMain == ASSUME ~Slow, NoAuto, ControlInv, Main PROVE ControlInv'
<1> USE DEF ControlInv, StartOrder, Settled, ControlTask, ControlTasks, PerfBusy, Waiting
<1>1. CASE MainPerfInit
  BY <1>1 DEF MainPerfInit, dispVars
<1>2. CASE MainWait
  <2>1. /\ mpc \in {"enter", "wait"} /\ mpc' = "wait"
        /\ ~wake' /\ UNCHANGED <<dpc, ppc, task, ptask>>
    BY <1>2 DEF MainWait, dispVars, perfVars
  <2> QED BY <2>1
<1>3. CASE MainWaitDone
  <2>1. /\ mpc = "wait" /\ mpc' \in {"disp_init", "done"}
        /\ ~wake' /\ UNCHANGED <<dpc, ppc, task, ptask>>
    BY <1>3 DEF MainWaitDone, dispVars, perfVars
  <2>2. ppc # "exit" => Settled
    BY <1>3, WaitOver DEF MainWaitDone
  <2> QED BY <2>1, <2>2
<1>4. CASE MainDispInit
  <2>1. /\ mpc = "disp_init" /\ mpc' = "join_disp" /\ dpc = "none" /\ dpc' = "start"
        /\ UNCHANGED <<ppc, task, ptask, wake>>
    BY <1>4 DEF MainDispInit, perfVars
  <2> QED BY <2>1
<1>5. CASE MainJoinDisp \/ MainConsQuit \/ MainJoinCons
  <2>1. /\ mpc \in {"join_disp", "cons_quit", "join_cons"}
        /\ mpc' \in {"cons_quit", "join_cons", "done"}
        /\ UNCHANGED <<dpc, ppc, task, ptask, wake>>
    BY <1>5 DEF MainJoinDisp, MainConsQuit, MainJoinCons, dispVars, perfVars
  <2> QED BY <2>1
<1> QED BY <1>1, <1>2, <1>3, <1>4, <1>5 DEF Main

LEMMA ControlDisp == ASSUME ~Slow, NoAuto, ControlInv, Disp PROVE ControlInv'
<1>0. StartOrder' /\ mpc \notin {"start", "enter", "wait", "disp_init"} /\ mpc' = mpc
  <2>1. dpc # "none" /\ mpc' = mpc
    BY DispFrame DEF DispFlag2
  <2> QED BY <2>1, DispOrder DEF ControlInv, StartOrder
<1> USE DEF Settled, ControlTask, ControlTasks, PerfBusy, Waiting
<1>1. CASE DispWait
  <2>1. /\ dpc \in {"enter", "wait"} /\ dpc' = "wait"
        /\ ~wake' /\ UNCHANGED <<ppc, task, ptask>>
    BY <1>1 DEF DispWait, perfVars
  <2> QED BY <1>0, <2>1 DEF ControlInv
<1>2. CASE DispWaitDone
  <2>1. /\ dpc = "wait" /\ ~wake' /\ UNCHANGED <<ppc, ptask>>
        /\ dpc' = "enter" \/ (dpc' \in {"op", "loop"} /\ task' = task)
    BY <1>2 DEF DispWaitDone, perfVars
  <2>2. ppc # "exit" => Settled
    BY <1>2, WaitOver DEF DispWaitDone
  <2> QED BY <1>0, <2>1, <2>2 DEF ControlInv
<1>3. CASE DispJoinPerf
  BY <1>0, <1>3 DEF DispJoinPerf, ControlInv, perfVars
<1>4. CASE ~DispWait /\ ~DispWaitDone /\ ~DispJoinPerf
  BY <1>0, <1>4, PostFrame DEF ControlInv
<1> QED BY <1>1, <1>2, <1>3, <1>4

LEMMA ControlPerf == ASSUME ControlInv, Perf PROVE ControlInv'
<1>0. UNCHANGED <<mpc, dpc>> /\ ppc # "none" /\ ppc' # "none"
  BY DEF Perf, PerfTake, PerfStop, PerfStart, PerfSmpl, PerfSet, PerfEnum, PerfAnswer,
         dispVars
<1> USE <1>0 DEF ControlInv, StartOrder, Settled, ControlTask, ControlTasks, PerfBusy,
                 Waiting
<1>1. CASE PerfTake
  BY <1>1 DEF PerfTake
<1>2. CASE PerfStop
  BY <1>2 DEF PerfStop
<1>3. CASE PerfStart
  BY <1>3 DEF PerfStart
<1>4. CASE PerfSmpl \/ PerfEnum \/ PerfAnswer
  BY <1>4 DEF PerfSmpl, PerfEnum, PerfAnswer
<1>5. CASE PerfSet
  <2>1. ppc = "set" /\ ppc' \in {"loop", "exit"} /\ UNCHANGED <<task, ptask>>
    BY <1>5 DEF PerfSet
  <2> QED BY <2>1
<1> QED BY <1>1, <1>2, <1>3, <1>4, <1>5 DEF Perf

LEMMA ControlInvStep ==
  ASSUME ~Slow, NoAuto, ControlInv, [Next]_vars PROVE NoAuto' /\ ControlInv'
<1>1. CASE Disp
  BY <1>1, ControlDisp, NoAutoDisp
<1>2. CASE Main
  <2>1. ready' /\ job' = job /\ dpc' \notin {"auto", "auto_start"}
    BY <1>2, Zenon DEF Main, NoAuto, MainPerfInit, MainWait, MainWaitDone, MainDispInit,
                MainJoinDisp, MainConsQuit, MainJoinCons, dispVars
  <2> QED BY <1>2, <2>1, ControlMain DEF NoAuto
<1>3. CASE Perf
  <2>1. ready' = ready /\ job' = job /\ dpc' = dpc
    BY <1>3 DEF Perf, PerfTake, PerfStop, PerfStart, PerfSmpl, PerfSet, PerfEnum,
                PerfAnswer, dispVars
  <2> QED BY <1>3, <2>1, ControlPerf DEF NoAuto
<1>4. CASE Cons \/ ConsKey \/ Signal \/ Winch \/ Expire \/ UNCHANGED vars
  <2>1. UNCHANGED <<mpc, dpc, ppc, task, ptask, wake, ready, job>>
    BY <1>4 DEF Cons, ConsInit, ConsHome, ConsPipe, ConsKey, Signal, Winch, Expire,
                vars, dispVars, perfVars
  <2> QED BY <2>1, ControlSame DEF NoAuto
<1> QED BY <1>1, <1>2, <1>3, <1>4 DEF Next, Terminated

LEMMA ControlKept ==
  ASSUME ~Slow, NoAuto, ControlInv, [Next]_vars, ControlTask, ppc # "exit"
  PROVE  task' \in {task, "INVALID"}
<1>1. Waiting
  BY DEF ControlInv, Settled
<1>2. CASE Disp
  <2>1. mpc \notin {"enter", "wait"} /\ dpc \in {"enter", "wait", "join_perf"}
    BY <1>1, <1>2, DispFrame DEF Waiting, ControlInv, StartOrder, DispFlag2
  <2>2. ~DispWaitDone
    BY <2>1, WaitOver DEF DispWaitDone, Settled
  <2>3. DispWait \/ DispJoinPerf
    BY <1>2, <2>1, <2>2, PostFrame
  <2> QED BY <2>3 DEF DispWait, DispJoinPerf
<1>3. CASE Main
  <2>1. mpc # "start"
    BY DEF ControlInv, StartOrder, ControlTask, Settled, Waiting
  <2> QED BY <1>3, <2>1 DEF Main, MainPerfInit, MainWait, MainWaitDone, MainDispInit,
                MainJoinDisp, MainConsQuit, MainJoinCons
<1>4. CASE Perf
  BY <1>4 DEF Perf, PerfTake, PerfStop, PerfStart, PerfSmpl, PerfSet, PerfEnum, PerfAnswer
<1>5. CASE Cons \/ ConsKey \/ Signal \/ Winch \/ Expire \/ UNCHANGED vars
  BY <1>5 DEF Cons, ConsInit, ConsHome, ConsPipe, ConsKey, Signal, Winch, Expire, vars
<1> QED BY <1>2, <1>3, <1>4, <1>5 DEF Next, Terminated

\* With -p, and when no thread outlasts the waits for it, a start, a stop or a
\* quit posted to a living perf thread is taken before the slot is written again
\* (perf_task_set, perf_status_wait).
THEOREM ControlNeverLost == ASSUME WithPid, ~Slow PROVE Spec => ControlTaskNotLost
<1>1. Init => NoAuto /\ ControlInv
  BY DEF Init, NoAuto, ControlInv, StartOrder, Settled, ControlTask, ControlTasks,
         PerfBusy, Waiting
<1>2. NoAuto /\ ControlInv /\ [Next]_vars => NoAuto' /\ ControlInv'
  BY ControlInvStep
<1>3. NoAuto /\ ControlInv /\ [Next]_vars =>
        [ControlTask /\ ppc # "exit" => task' \in {task, "INVALID"}]_vars
  BY ControlKept
<1> QED BY <1>1, <1>2, <1>3, PTL DEF Spec, ControlTaskNotLost

-----------------------------------------------------------------------------
(* The end of the program, with -p. *)

\* Where the display thread has no page: before its first and after the last.
Pageless == {"none", "start", "perf_fini", "join_perf", "exit"}

ExitInv ==
  /\ mpc \in {"start", "enter", "wait", "disp_init"} => cpc = "none"
  /\ mpc \in {"cons_quit", "join_cons"} => dpc = "exit"
  /\ mpc = "done" /\ cpc # "none" => dpc = "exit" /\ cpc = "exit"
  /\ dpc = "exit" => ppc = "exit"
  /\ dpc \in Pageless => pages = << >>
  /\ ppc = "exit" /\ held => status = "FAILED"

\* The display thread drops its pages before it enters its exit sequence.
LEMMA ExitFrame ==
  ASSUME Disp
  PROVE  /\ dpc \notin {"none", "exit"} /\ UNCHANGED <<mpc, cpc, ppc>>
         /\ dpc' = "exit" => ppc = "exit"
         /\ \/ dpc' \notin Pageless
            \/ pages' = << >>
            \/ dpc \in Pageless /\ pages' = pages
<1> USE DEF perfVars, Pageless, stackVars
<1>1. CASE PageOp
  BY <1>1, PageOpFrame
<1>2. CASE DispStart \/ DispTake \/ DispTimeout \/ DispResize \/ DispFlag2
  BY <1>2 DEF DispStart, DispTake, DispTimeout, DispResize, DispFlag2
<1>3. CASE DispCmd \/ DispWait \/ DispWaitDone \/ DispNop
  BY <1>3 DEF DispCmd, DispWait, DispWaitDone, DispNop
<1>4. CASE DispScroll \/ DispEnterKey \/ DispGoHome \/ DispAuto \/ DispAutoStart
  BY <1>4 DEF DispScroll, DispEnterKey, DispGoHome, DispAuto, DispAutoStart, Crash
<1>5. CASE DispListFini \/ DispPerfFini \/ DispJoinPerf
  BY <1>5 DEF DispListFini, DispPerfFini, DispJoinPerf, Fini
<1> QED BY <1>1, <1>2, <1>3, <1>4, <1>5 DEF PageOp, Disp

LEMMA ExitMain == ASSUME StartOrder, ExitInv, Main PROVE ExitInv'
<1>0. UNCHANGED <<pages, held, status>>
  BY DEF Main, MainPerfInit, MainWait, MainWaitDone, MainDispInit, MainJoinDisp,
         MainConsQuit, MainJoinCons, stackVars, perfVars
<1> USE <1>0 DEF ExitInv, StartOrder, Pageless, dispVars, perfVars
<1>1. CASE MainPerfInit
  BY <1>1 DEF MainPerfInit
<1>2. CASE MainWait \/ MainWaitDone
  <2>1. /\ mpc \in {"enter", "wait"} /\ mpc' \in {"wait", "disp_init", "done"}
        /\ UNCHANGED <<cpc, dpc, ppc>>
    BY <1>2 DEF MainWait, MainWaitDone
  <2> QED BY <2>1
<1>3. CASE MainDispInit
  BY <1>3 DEF MainDispInit
<1>4. CASE MainJoinDisp
  BY <1>4 DEF MainJoinDisp, DispGone
<1>5. CASE MainConsQuit
  BY <1>5 DEF MainConsQuit
<1>6. CASE MainJoinCons
  BY <1>6 DEF MainJoinCons
<1> QED BY <1>1, <1>2, <1>3, <1>4, <1>5, <1>6 DEF Main

LEMMA ExitPerf == ASSUME EventInv, ExitInv, Perf PROVE ExitInv'
<1>0. ppc # "exit" /\ UNCHANGED <<mpc, cpc, dpc, pages>>
  BY DEF Perf, PerfTake, PerfStop, PerfStart, PerfSmpl, PerfSet, PerfEnum, PerfAnswer,
         dispVars, stackVars
<1>1. ppc' = "exit" /\ held' => status' = "FAILED"
  <2>1. CASE PerfStop
    BY <2>1 DEF PerfStop, AllStop, EventInv
  <2>2. CASE PerfSet
    BY <2>2 DEF PerfSet, SetStatus
  <2>3. CASE PerfTake \/ PerfStart \/ PerfSmpl \/ PerfEnum \/ PerfAnswer
    BY <2>3 DEF PerfTake, PerfStart, PerfSmpl, PerfEnum, PerfAnswer
  <2> QED BY <2>1, <2>2, <2>3 DEF Perf
<1> QED BY <1>0, <1>1 DEF ExitInv

LEMMA ExitStep ==
  ASSUME StartOrder, EventInv, ExitInv, [Next]_vars PROVE ExitInv'
<1>1. CASE Main
  BY <1>1, ExitMain
<1>2. CASE Disp
  <2>1. UNCHANGED <<held, status>>
    BY <1>2, ReadyFrame DEF EventInv
  <2> QED BY <1>2, <2>1, ExitFrame DEF ExitInv
<1>3. CASE Perf
  BY <1>3, ExitPerf
<1>4. CASE Cons \/ ConsKey
  <2>1. /\ cpc \notin {"none", "exit"} /\ cpc' # "none"
        /\ UNCHANGED <<mpc, dpc, ppc, pages, held, status>>
    BY <1>4 DEF Cons, ConsInit, ConsHome, ConsPipe, ConsKey, dispVars, perfVars, stackVars
  <2> QED BY <2>1 DEF ExitInv
<1>5. CASE Signal \/ Winch \/ Expire \/ UNCHANGED vars
  <2>1. UNCHANGED <<mpc, cpc, dpc, ppc, pages, held, status>>
    BY <1>5 DEF Signal, Winch, Expire, vars, dispVars, perfVars, stackVars
  <2> QED BY <2>1 DEF ExitInv
<1> QED BY <1>1, <1>2, <1>3, <1>4, <1>5 DEF Next, Terminated

\* With -p, when main is done no thread is left, the pages are freed and the event
\* is closed unless the last start failed (disp_handler L_EXIT, perf_fini, main).
THEOREM ExitAlwaysClean == ASSUME WithPid PROVE Spec => []CleanExit
<1> DEFINE Inv == StartOrder /\ EventInv /\ ExitInv
<1>1. Init => Inv
  <2> SUFFICES ASSUME Init PROVE Inv
    OBVIOUS
  <2>1. StartOrder /\ EventInv
    BY DEF Init, StartOrder, EventInv
  <2>2. ExitInv
    BY DEF Init, StackInit, ExitInv
  <2> QED BY <2>1, <2>2
<1>2. Inv /\ [Next]_vars => Inv'
  BY EventStep, ExitStep
<1>3. Inv => CleanExit
  BY DEF ExitInv, CleanExit, Pageless
<1> QED BY <1>1, <1>2, <1>3, PTL DEF Spec

-----------------------------------------------------------------------------
(* The mode of the sampler and the page, with -p and when nothing fails.   *)

\* The status a control task ends in, and the status that is set or under way.
Outcome(t) == CASE t = "START" -> "STARTED" [] t = "MSTART" -> "MAPLIST" [] OTHER -> "IDLE"
Coming ==
  IF ControlTask THEN Outcome(task)
  ELSE IF ppc = "work" /\ ptask \in ControlTasks THEN Outcome(ptask)
  ELSE IF ppc = "set" THEN pval ELSE status

MapListOn == HasCur /\ Cur.cmd = "MAP_LIST"

\* The map list lies on another page and under none, and its window was set up; a
\* window is only set up on a screen that is large enough.
PagesOK ==
  \A i \in 1..Len(pages) :
    /\ pages[i].inited => scr_ok
    /\ pages[i].cmd = "MAP_LIST" => i = Len(pages) /\ i > 1 /\ pages[i].ever

\* Until the console thread has measured the screen there is nothing to draw.
Samples == {"SMPL1", "SMPL2", "MSMPL"}
Leaving == {"list_fini", "perf_fini", "join_perf", "exit"}
EarlyOK ==
  /\ mpc \in {"start", "enter", "wait", "disp_init"} => cpc = "none"
  /\ cpc \in {"none", "init"} =>
       /\ pages = << >> /\ flag \in {"NONE", "QUIT"}
       /\ dpc \in {"none", "start", "loop"} \cup Leaving
       /\ task \notin Samples /\ (ppc = "work" => ptask \notin Samples)
       /\ ppc \notin {"enum", "answer"}

\* The perf thread lives until it is told to quit.
AliveOK ==
  /\ ppc = "set" => pval # "FAILED"
  /\ dpc \notin {"join_perf", "exit"} =>
       ppc # "exit" /\ task # "QUIT" /\ (ppc = "work" => ptask # "QUIT")

\* The mode is that of the page on top, but for a command that is changing it: while
\* its waits go on what is to come is what it waits for, and its operation starts in
\* the mode its preop asks for.
Wanted == Preop(CurType, job)
ModeOK ==
  /\ dpc = "none" => Coming # "MAPLIST"
  /\ dpc \in {"enter", "wait"} =>
       /\ Coming = want /\ Wanted # "none"
       /\ want # "IDLE" => want = IF Wanted = "ml" THEN "MAPLIST" ELSE "STARTED"
  /\ dpc = "op" /\ Wanted # "none" =>
       Coming = IF Wanted = "ml" THEN "MAPLIST" ELSE "STARTED"
  /\ \/ dpc \in {"none", "enter", "wait"} \cup Leaving
     \/ dpc = "op" /\ Wanted # "none"
     \/ Coming = "MAPLIST" <=> MapListOn

ModeInv == PagesOK /\ EarlyOK /\ AliveOK /\ (fault = "none" => ModeOK)

LEMMA TopType ==
  ASSUME StackInv, PagesOK
  PROVE  /\ CurType = "MAP_LIST" <=> MapListOn
         /\ MapListOn => Len(pages) > 1
<1>1. CASE ~HasCur
  BY <1>1 DEF CurType, MapListOn
<1>2. CASE HasCur
  <2>1. Len(pages) \in 1..Len(pages)
    BY <1>2 DEF StackInv, StackTypeOK, HasCur
  <2> QED BY <1>2, <2>1 DEF CurType, MapListOn, WinType, Cur, PagesOK
<1> QED BY <1>1, <1>2

\* What the preops and the operations are for each command.
LEMMA Table ==
  /\ Wanted = "none" =>
       /\ Op(CurType, job) # "home" /\ Op(CurType, job) # "maplist"
       /\ Op(CurType, job) = "prev" => CurType # "MAP_LIST"
  /\ Wanted = "ml" <=> Op(CurType, job) = "maplist"
  /\ Op(CurType, job) \in {"refresh", "sort", "none"} => Wanted = "none"
  /\ Op(CurType, job) = "next" => job \in PageCmds \ {"HOME", "MAP_LIST"} /\ CurType # "MAP_LIST"
  /\ Op(CurType, job) = "home" => job = "HOME"
  /\ Op(CurType, job) = "maplist" => job = "MAP_LIST" /\ CurType = "MONITOR"
  /\ Wanted \in {"none", "profiling", "ml"}
BY DEF Wanted, Preop, Op, PageCmds

LEMMA HomeMode ==
  ASSUME NEW ok \in BOOLEAN, NEW s \in BOOLEAN, Home(s, ok)
  PROVE  PagesOK' /\ ~MapListOn'
<1> DEFINE p == Opened(NewPage("HOME"), ok)
<1>1. p \in Page
  BY NewIsPage, OpenedIsPage DEF PageCmds
<1>2. p.cmd = "HOME" /\ (p.inited => scr_ok)
  BY DEF Opened, NewPage
<1>3. pages' = <<p>> /\ scr_ok' = scr_ok
  BY DEF Home
<1> HIDE DEF p
<1>4. Len(pages') = 1 /\ pages'[1] = p
  BY <1>3
<1> QED BY <1>2, <1>3, <1>4 DEF PagesOK, MapListOn, HasCur, Cur

LEMMA NextMode ==
  ASSUME StackInv, PagesOK, ~MapListOn, NEW c \in PageCmds, NEW s \in BOOLEAN,
         c = "MAP_LIST" => HasCur /\ Cur.inited, Next_(c, s, TRUE)
  PROVE  PagesOK' /\ (MapListOn' <=> c = "MAP_LIST")
<1> DEFINE p == Opened(NewPage(c), TRUE)
           n == Len(pages)
<1>1. p \in Page
  BY NewIsPage, OpenedIsPage
<1>2. p.cmd = c /\ (p.inited => scr_ok) /\ (scr_ok => p.ever)
  BY DEF Opened, NewPage
<1>3. pages' = Append(pages, p) /\ scr_ok' = scr_ok
  BY DEF Next_
<1>4. pages \in Seq(Page) /\ n \in Nat
  BY DEF StackInv, StackTypeOK
<1> HIDE DEF p
<1>5. /\ Len(pages') = n + 1 /\ pages'[n + 1] = p /\ pages' # << >>
      /\ \A i \in 1..n : pages'[i] = pages[i]
  BY <1>1, <1>3, <1>4
<1>6. \A i \in 1..n : pages[i].cmd # "MAP_LIST"
  BY <1>4 DEF PagesOK, MapListOn, HasCur, Cur
<1>7. c = "MAP_LIST" => scr_ok /\ n > 0
  BY <1>4 DEF PagesOK, HasCur, Cur
<1>8. ASSUME NEW i \in 1..(n + 1)
      PROVE  /\ pages'[i].inited => scr_ok
             /\ pages'[i].cmd = "MAP_LIST" => i = n + 1 /\ i > 1 /\ pages'[i].ever
  <2>1. CASE i = n + 1
    BY <1>2, <1>4, <1>5, <1>7, <2>1
  <2>2. CASE i # n + 1
    <3>1. i \in 1..n
      BY <1>4, <2>2
    <3> QED BY <1>5, <1>6, <3>1 DEF PagesOK
  <2> QED BY <2>1, <2>2
<1> QED BY <1>2, <1>3, <1>5, <1>8 DEF PagesOK, MapListOn, HasCur, Cur

LEMMA PrevMode ==
  ASSUME StackInv, PagesOK, NEW ok \in BOOLEAN, NEW s \in BOOLEAN, Prev(s, ok)
  PROVE  PagesOK' /\ ~MapListOn'
<1> DEFINE n == Len(pages)
           b == Below(pages)
           p == Opened(pages[n - 1], ok)
<1>1. pages \in Seq(Page) /\ n \in Nat /\ n > 1 /\ n - 1 \in 1..n
  BY DEF StackInv, StackTypeOK, Prev
<1>2. p \in Page /\ p.cmd = pages[n - 1].cmd /\ (p.inited => scr_ok)
  <2>1. pages[n - 1] \in Page /\ (pages[n - 1].inited => scr_ok)
    BY <1>1 DEF PagesOK
  <2>2. p \in Page
    BY <2>1, OpenedIsPage
  <2> QED BY <2>1, <2>2 DEF Opened, Page
<1>3. b \in Seq(Page) /\ Len(b) = n - 1 /\ \A i \in 1..(n - 1) : b[i] = pages[i]
  BY <1>1 DEF Below
<1>4. pages' = [b EXCEPT ![n - 1] = p] /\ scr_ok' = scr_ok
  BY <1>3 DEF Prev, WithTop
<1> HIDE DEF p, b
<1>5. /\ pages' \in Seq(Page) /\ Len(pages') = n - 1 /\ pages'[n - 1] = p
      /\ \A i \in 1..(n - 1) : i # n - 1 => pages'[i] = pages[i]
  BY <1>1, <1>2, <1>3, <1>4, ExceptSeq
<1>6. \A i \in 1..(n - 1) : pages[i].cmd # "MAP_LIST"
  BY <1>1 DEF PagesOK
<1>7. ASSUME NEW i \in 1..(n - 1)
      PROVE  (pages'[i].inited => scr_ok) /\ pages'[i].cmd # "MAP_LIST"
  <2>1. CASE i = n - 1
    BY <1>1, <1>2, <1>5, <1>6, <2>1
  <2>2. CASE i # n - 1
    <3>1. i \in 1..n
      BY <1>1
    <3> QED BY <1>5, <1>6, <2>2, <3>1 DEF PagesOK
  <2> QED BY <2>1, <2>2
<1> QED BY <1>1, <1>4, <1>5, <1>7 DEF PagesOK, MapListOn, HasCur, Cur

LEMMA ExecuteMode ==
  ASSUME StackInv, PagesOK, NEW ok \in BOOLEAN, Execute(ok)
  PROVE  PagesOK' /\ MapListOn' = MapListOn
<1> DEFINE n == Len(pages)
           p == Opened(Cur, ok)
<1>1. pages \in Seq(Page) /\ n \in Nat /\ HasCur /\ n \in 1..n
  BY DEF StackInv, StackTypeOK, Execute, HasCur
<1>2. /\ p \in Page /\ p.cmd = pages[n].cmd /\ (p.inited => scr_ok)
      /\ pages[n].ever => p.ever
  <2>1. pages[n] \in Page /\ (pages[n].inited => scr_ok)
    BY <1>1 DEF PagesOK
  <2>2. p \in Page
    BY <2>1, OpenedIsPage DEF Cur
  <2> QED BY <2>1, <2>2 DEF Opened, Page, Cur
<1>3. pages' = [pages EXCEPT ![n] = p] /\ scr_ok' = scr_ok
  BY DEF Execute, WithTop
<1> HIDE DEF p
<1>4. /\ pages' \in Seq(Page) /\ Len(pages') = n /\ pages'[n] = p
      /\ \A i \in 1..n : i # n => pages'[i] = pages[i]
  BY <1>1, <1>2, <1>3, ExceptSeq
<1>5. ASSUME NEW i \in 1..n
      PROVE  /\ pages'[i].inited => scr_ok
             /\ pages'[i].cmd = "MAP_LIST" => i = n /\ i > 1 /\ pages'[i].ever
  <2>1. CASE i = n
    BY <1>1, <1>2, <1>4, <2>1 DEF PagesOK
  <2>2. CASE i # n
    BY <1>4, <2>2 DEF PagesOK
  <2> QED BY <2>1, <2>2
<1>6. PagesOK'
  BY <1>3, <1>4, <1>5 DEF PagesOK
<1>7. MapListOn' <=> MapListOn
  BY <1>1, <1>2, <1>4 DEF MapListOn, HasCur, Cur
<1>8. MapListOn \in BOOLEAN /\ MapListOn' \in BOOLEAN
  BY Zenon DEF MapListOn
<1> QED BY <1>6, <1>7, <1>8, Zenon

LEMMA ResizeMode ==
  ASSUME StackInv, PagesOK, NEW big \in BOOLEAN, Resize(big)
  PROVE  PagesOK' /\ (MapListOn' <=> MapListOn)
<1>1. pages \in Seq(Page) /\ Len(pages) \in Nat
  BY DEF StackInv, StackTypeOK
<1>2. /\ Len(pages') = Len(pages) /\ pages' \in Seq(Page)
      /\ \A i \in 1..Len(pages) : pages'[i] = [pages[i] EXCEPT !.inited = FALSE]
  <2>1. \A q \in Page : [q EXCEPT !.inited = FALSE] \in Page
    BY DEF Page
  <2>2. pages' = [i \in 1..Len(pages) |-> [pages[i] EXCEPT !.inited = FALSE]]
    BY <1>1 DEF Resize
  <2> QED BY <1>1, <2>1, <2>2
<1>3. ASSUME NEW i \in 1..Len(pages)
      PROVE  ~pages'[i].inited /\ pages'[i].cmd = pages[i].cmd /\ pages'[i].ever = pages[i].ever
  <2>1. pages[i] \in Page
    BY <1>1
  <2> QED BY <1>2, <2>1 DEF Page
<1> QED BY <1>1, <1>2, <1>3 DEF PagesOK, MapListOn, HasCur, Cur

LEMMA SameMode ==
  ASSUME PagesOK, UNCHANGED <<pages, scr_ok>>
  PROVE  PagesOK' /\ (MapListOn' <=> MapListOn) /\ CurType' = CurType
<1>1. pages' = pages /\ scr_ok' = scr_ok
  OBVIOUS
<1>2. PagesOK'
  BY <1>1 DEF PagesOK
<1>3. MapListOn' <=> MapListOn
  BY <1>1 DEF MapListOn, HasCur, Cur
<1>4. CurType' = CurType
  BY <1>1 DEF CurType, HasCur, Cur, WinType
<1> QED BY <1>2, <1>3, <1>4

\* The perf thread carries out what is under way, and does nothing else to the status.
LEMMA PerfMode ==
  ASSUME ~StartMayFail, ControlInv, AliveOK, Perf
  PROVE  /\ AliveOK'
         /\ dpc \notin {"join_perf", "exit"} => Coming' = Coming
<1>0. dpc' = dpc
  BY DEF Perf, PerfTake, PerfStop, PerfStart, PerfSmpl, PerfSet, PerfEnum, PerfAnswer,
         dispVars
<1> USE <1>0 DEF AliveOK, Coming, ControlTask, ControlTasks, Outcome
<1>1. CASE PerfTake
  BY <1>1 DEF PerfTake
<1>2. CASE PerfStop
  BY <1>2 DEF PerfStop, ControlInv, PerfBusy
<1>3. CASE PerfStart
  BY <1>3 DEF PerfStart, ControlInv, PerfBusy
<1>4. CASE PerfSmpl
  BY <1>4 DEF PerfSmpl
<1>5. CASE PerfSet
  BY <1>5 DEF PerfSet, SetStatus, ControlInv, PerfBusy
<1>6. CASE PerfEnum \/ PerfAnswer
  BY <1>6 DEF PerfEnum, PerfAnswer
<1> QED BY <1>1, <1>2, <1>3, <1>4, <1>5, <1>6 DEF Perf

\* When nothing is under way the status is what is to come.
LEMMA Rested == ASSUME ControlInv, Settled PROVE Coming = status
BY DEF ControlInv, Settled, PerfBusy, Coming

LEMMA MainMode ==
  ASSUME ~Slow, NoAuto, ControlInv, EarlyOK, AliveOK, Main
  PROVE  /\ EarlyOK' /\ AliveOK' /\ UNCHANGED <<pages, scr_ok, fault, job, want>>
         /\ \/ dpc' = dpc
            \/ dpc = "none" /\ dpc' = "start" /\ pages = << >>
         /\ Coming' = Coming \/ (dpc' = "none" /\ Coming' # "MAPLIST")
<1>0. UNCHANGED <<pages, scr_ok, fault, job, want>>
  BY DEF Main, MainPerfInit, MainWait, MainWaitDone, MainDispInit, MainJoinDisp,
         MainConsQuit, MainJoinCons, dispVars, envVars, stackVars
<1> USE <1>0 DEF EarlyOK, AliveOK, ControlInv, StartOrder, Leaving, Samples
<1>1. CASE MainPerfInit
  BY <1>1 DEF MainPerfInit, dispVars, Coming, ControlTask, Outcome
<1>2. CASE MainWait \/ MainWaitDone
  <2>1. /\ mpc \in {"enter", "wait"} /\ mpc' \in {"wait", "disp_init", "done"}
        /\ UNCHANGED <<cpc, dpc, ppc, task, ptask, flag, status, pval>>
    BY <1>2 DEF MainWait, MainWaitDone, dispVars, perfVars
  <2> QED BY <2>1 DEF Coming, ControlTask
<1>3. CASE MainDispInit
  <2>1. /\ mpc = "disp_init" /\ mpc' = "join_disp" /\ flag' = "NONE"
        /\ cpc' = "init" /\ dpc' = "start"
        /\ UNCHANGED <<ppc, task, ptask, status, pval>>
    BY <1>3 DEF MainDispInit, perfVars
  <2> QED BY <2>1 DEF Coming, ControlTask
<1>4. CASE MainJoinDisp \/ MainConsQuit \/ MainJoinCons
  <2>1. /\ mpc' \in {"cons_quit", "join_cons", "done"}
        /\ UNCHANGED <<cpc, dpc, ppc, task, ptask, flag, status, pval>>
    BY <1>4 DEF MainJoinDisp, MainConsQuit, MainJoinCons, dispVars, perfVars
  <2> QED BY <2>1 DEF Coming, ControlTask
<1> QED BY <1>1, <1>2, <1>3, <1>4 DEF Main

\* Before the console thread is through, neither perf nor disp has anything to do
\* with a page.
LEMMA EarlyPerf == ASSUME EarlyOK, Perf PROVE EarlyOK'
<1>0. UNCHANGED <<mpc, cpc, dpc, pages>>
  BY DEF Perf, PerfTake, PerfStop, PerfStart, PerfSmpl, PerfSet, PerfEnum, PerfAnswer,
         dispVars, stackVars
<1> USE <1>0 DEF EarlyOK, Samples
<1>1. CASE PerfTake
  BY <1>1 DEF PerfTake
<1>2. CASE PerfStop \/ PerfStart \/ PerfSet
  BY <1>2 DEF PerfStop, PerfStart, PerfSet
<1>3. CASE PerfSmpl
  BY <1>3 DEF PerfSmpl
<1>4. CASE PerfEnum \/ PerfAnswer
  BY <1>4 DEF PerfEnum, PerfAnswer
<1> QED BY <1>1, <1>2, <1>3, <1>4 DEF Perf

LEMMA EarlyDisp == ASSUME EarlyOK, Disp PROVE EarlyOK'
<1>0. UNCHANGED <<mpc, cpc, ppc, ptask>>
  <2>1. UNCHANGED <<mpc, cpc, ppc>>
    BY ExitFrame
  <2>2. ptask' = ptask
    BY DispFrame DEF DispFlag2, perfVars
  <2> QED BY <2>1, <2>2
<1>1. CASE cpc \notin {"none", "init"}
  BY <1>0, <1>1 DEF EarlyOK
<1>2. CASE cpc \in {"none", "init"}
  <2>1. pages = << >> /\ flag \in {"NONE", "QUIT"} /\ dpc \in {"start", "loop"} \cup Leaving
    BY <1>2, DispFrame DEF EarlyOK, DispFlag2
  <2>2. DispStart \/ DispTake \/ DispTimeout \/ DispListFini \/ DispPerfFini \/ DispJoinPerf
    BY <2>1 DEF Leaving, Disp, DispResize, DispCmd, DispWait, DispWaitDone, DispNext,
        DispMapList, DispPrev, DispRefresh, DispNop, DispFlag2, DispReady, DispScroll,
        DispEnterKey, DispGoHome, DispAuto, DispAutoStart
  <2>3. flag' \in {"NONE", "QUIT"} /\ task' \in {task, "QUIT"}
    BY <2>1, <2>2 DEF DispStart, DispTake, DispTimeout, DispListFini, DispPerfFini, DispJoinPerf
  <2>4. dpc' \in {"start", "loop"} \cup Leaving
    BY <2>1, <2>2 DEF DispStart, DispTake, DispTimeout, DispListFini, DispPerfFini,
       DispJoinPerf, HasCur, Leaving
  <2>5. pages' = << >>
    BY <2>1, <2>2 DEF DispStart, DispTake, DispTimeout, DispListFini, DispPerfFini,
       DispJoinPerf, Fini, stackVars
  <2> QED BY <1>0, <1>2, <2>3, <2>4, <2>5 DEF EarlyOK, Samples
<1> QED BY <1>1, <1>2

\* Only the exit sequence tells the perf thread to quit.
LEMMA AliveDisp == ASSUME AliveOK, NoAuto, Disp PROVE AliveOK'
<1>1. UNCHANGED <<ppc, ptask, pval>>
  BY DispFrame DEF DispFlag2, perfVars
<1>2. CASE DispWaitDone
  BY <1>1, <1>2 DEF AliveOK, DispWaitDone
<1>3. CASE DispWait \/ DispJoinPerf \/ DispPerfFini
  BY <1>1, <1>3 DEF AliveOK, DispWait, DispJoinPerf, DispPerfFini
<1>4. CASE ~DispWait /\ ~DispWaitDone /\ ~DispJoinPerf /\ ~DispPerfFini
  <2>1. dpc \notin {"join_perf", "exit"}
    BY <1>4, PostFrame, ExitFrame
  <2>2. task' # "QUIT"
    <3>1. CASE PageOp
      BY <2>1, <3>1, PageOpFrame DEF AliveOK
    <3>2. CASE ~PageOp
      BY <1>4, <2>1, <3>2 DEF AliveOK, PageOp, Disp, DispStart, DispTake, DispTimeout,
         DispResize, DispCmd, DispNop, DispFlag2, DispScroll, DispEnterKey, DispGoHome,
         DispAuto, DispAutoStart, DispListFini, Crash
    <3> QED BY <3>1, <3>2
  <2> QED BY <1>1, <2>1, <2>2 DEF AliveOK
<1> QED BY <1>2, <1>3, <1>4

\* The operations of the switch table on the page stack.
LEMMA OpMode ==
  ASSUME Types, PagesOK, ModeOK, NoAuto, ~WinMayFail,
         DispNext \/ DispMapList \/ DispPrev \/ DispRefresh \/ DispNop, fault' = "none"
  PROVE  PagesOK' /\ (Coming = "MAPLIST" <=> MapListOn')
<1>0. StackInv /\ smpl \in BOOLEAN /\ dpc = "op" /\ InitResults = {TRUE}
  BY DEF Types, BoolOK, InitResults, DispNext, DispMapList, DispPrev, DispRefresh, DispNop
<1>a. /\ Wanted = "none" => (Coming = "MAPLIST" <=> MapListOn)
      /\ Wanted # "none" => Coming = IF Wanted = "ml" THEN "MAPLIST" ELSE "STARTED"
  BY <1>0 DEF ModeOK, Leaving
<1>1. CASE DispNext
  <2>1. PICK ok \in {TRUE} : IF job = "HOME" THEN Home(smpl, ok) ELSE Next_(job, smpl, ok)
    BY <1>0, <1>1 DEF DispNext
  <2>2. CASE job = "HOME"
    <3>1. PagesOK' /\ ~MapListOn'
      BY <1>0, <2>1, <2>2, HomeMode
    <3>2. Wanted = "profiling"
      BY <2>2 DEF Wanted, Preop
    <3> QED BY <1>a, <3>1, <3>2
  <2>3. CASE job # "HOME"
    <3>1. job \in PageCmds \ {"HOME", "MAP_LIST"} /\ CurType # "MAP_LIST" /\ Wanted # "ml"
      BY <1>1, <2>3, Table DEF DispNext
    <3>2. ~MapListOn
      BY <1>0, <3>1, TopType
    <3>3. PagesOK' /\ ~MapListOn'
      BY <1>0, <2>1, <2>3, <3>1, <3>2, NextMode
    <3> QED BY <1>a, <3>1, <3>2, <3>3
  <2> QED BY <2>2, <2>3
<1>2. CASE DispMapList
  <2>1. job = "MAP_LIST" /\ CurType = "MONITOR" /\ Wanted = "ml"
    BY <1>2, Table DEF DispMapList
  <2>2. Cur.inited /\ Next_(job, smpl, TRUE)
    BY <1>0, <1>2 DEF DispMapList, Crash
  <2>3. HasCur /\ ~MapListOn
    BY <1>0, <2>1, TopType DEF CurType
  <2>4. PagesOK' /\ MapListOn'
    BY <1>0, <2>1, <2>2, <2>3, NextMode DEF PageCmds
  <2> QED BY <1>a, <2>1, <2>4
<1>3. CASE DispPrev
  <2>1. Wanted # "ml" /\ (Wanted = "none" => ~MapListOn)
    BY <1>0, <1>3, Table, TopType DEF DispPrev
  <2>2. CASE \E ok \in InitResults : Prev(smpl, ok)
    BY <1>0, <1>a, <2>1, <2>2, PrevMode
  <2>3. CASE Len(pages) <= 1 /\ UNCHANGED stackVars
    <3>1. ~MapListOn
      BY <1>0, <2>3, TopType DEF StackInv, StackTypeOK
    <3>2. PagesOK' /\ (MapListOn' <=> MapListOn)
      BY <2>3, SameMode DEF stackVars
    <3> QED BY <1>a, <2>1, <3>1, <3>2
  <2> QED BY <1>3, <2>2, <2>3 DEF DispPrev
<1>4. CASE DispRefresh \/ DispNop
  <2>1. UNCHANGED <<pages, scr_ok>>
    BY <1>4 DEF DispRefresh, DispNop, Refresh, Crash, stackVars
  <2>2. Wanted = "none"
    BY <1>4, Table DEF DispRefresh, DispNop
  <2> QED BY <1>a, <2>1, <2>2, SameMode
<1> QED BY <1>1, <1>2, <1>3, <1>4

\* A step of the display thread outside its waits finds nothing under way.
LEMMA DispSettled ==
  ASSUME ControlInv, AliveOK, Disp, dpc \notin {"enter", "wait", "join_perf"}
  PROVE  Settled /\ Coming = status
<1>1. dpc \notin {"none", "exit"}
  BY ExitFrame
<1>2. ~Waiting /\ ppc # "exit"
  BY <1>1 DEF Waiting, ControlInv, StartOrder, AliveOK
<1> QED BY <1>2, Rested DEF ControlInv

LEMMA StillRested ==
  ASSUME ControlInv, Settled, ~ControlTask', UNCHANGED <<status, ppc, ptask, pval>>
  PROVE  Coming' = status
BY DEF ControlInv, Settled, PerfBusy, Coming

LEMMA RestMode ==
  ASSUME Types, PagesOK, ModeOK, NoAuto, ControlInv, AliveOK,
         DispStart \/ DispTake \/ DispTimeout \/ DispResize \/ DispFlag2 \/ DispReady
           \/ DispScroll \/ DispEnterKey \/ DispGoHome,
         fault' = "none"
  PROVE  PagesOK' /\ ModeOK'
<1>1. Disp /\ StackInv
  BY DEF Disp, Types
<1>2. dpc \in {"start", "loop", "resize", "flag2", "ready", "scroll", "enter_key", "go_home"}
  BY DEF DispStart, DispTake, DispTimeout, DispResize, DispFlag2, DispReady, DispScroll,
         DispEnterKey, DispGoHome
<1>3. Settled /\ Coming = status /\ (Coming = "MAPLIST" <=> MapListOn)
  BY <1>1, <1>2, DispSettled DEF ModeOK, Leaving
<1>4. PagesOK' /\ (MapListOn' <=> MapListOn)
  <2>1. CASE DispResize
    BY <1>1, <2>1, ResizeMode DEF DispResize
  <2>2. CASE DispReady
    <3>1. ASSUME NEW ok \in InitResults, Execute(ok) PROVE PagesOK' /\ (MapListOn' <=> MapListOn)
      <4>1. ok \in BOOLEAN
        BY Zenon DEF InitResults
      <4> QED BY <1>1, <3>1, <4>1, ExecuteMode
    <3>2. ASSUME UNCHANGED stackVars PROVE PagesOK' /\ (MapListOn' <=> MapListOn)
      BY <3>2, SameMode DEF stackVars
    <3> QED BY <2>2, <3>1, <3>2 DEF DispReady
  <2>3. CASE ~DispResize /\ ~DispReady
    <3>1. UNCHANGED <<pages, scr_ok>>
      BY <2>3 DEF DispStart, DispTake, DispTimeout, DispFlag2, DispScroll, DispEnterKey,
         DispGoHome, Crash, stackVars
    <3> QED BY <3>1, SameMode
  <2> QED BY <2>1, <2>2, <2>3
<1>5. /\ dpc' \in {"start", "loop", "resize", "cmd", "flag2", "ready", "scroll", "enter_key",
                  "go_home"} \cup Leaving
      /\ UNCHANGED <<status, ppc, ptask, pval>>
      /\ task' \in {task} \cup Samples \cup {"INVALID"}
  <2>1. CASE DispReady
    <3>1. dpc' \notin {"auto", "auto_start"}
      BY <1>1, ReadyFrame DEF NoAuto
    <3> QED BY <1>2, <2>1, <3>1, PageOpFrame DEF PageOp, Samples, NoAuto
  <2>2. CASE ~DispReady
    BY <2>2 DEF DispStart, DispTake, DispTimeout, DispResize, DispFlag2, DispScroll,
       DispEnterKey, DispGoHome, Crash, Leaving, perfVars
  <2> QED BY <2>1, <2>2
<1>6. Coming' = status
  <2>1. ~ControlTask'
    BY <1>3, <1>5 DEF Settled, ControlTask, Samples
  <2> QED BY <1>3, <1>5, <2>1, StillRested
<1> HIDE DEF Coming
<1>7. dpc' \notin {"none", "enter", "wait", "op"}
  BY <1>5 DEF Leaving
<1> QED BY <1>3, <1>4, <1>6, <1>7 DEF ModeOK

LEMMA DispMode ==
  ASSUME ~Slow, ~WinMayFail, Types, PagesOK, ModeOK, NoAuto, ControlInv, AliveOK, Disp,
         fault' = "none"
  PROVE  PagesOK' /\ ModeOK'
<1>0. StackInv
  BY DEF Types
<1>1. CASE DispStart \/ DispTake \/ DispTimeout \/ DispResize \/ DispFlag2 \/ DispReady
             \/ DispScroll \/ DispEnterKey \/ DispGoHome
  BY <1>1, RestMode
<1>2. CASE DispCmd
  <2>1. dpc = "cmd" /\ UNCHANGED <<pages, scr_ok, job, status, ppc, ptask, pval>>
    BY <1>2 DEF DispCmd, perfVars, stackVars
  <2>2. Settled /\ Coming = status /\ (Coming = "MAPLIST" <=> MapListOn)
    BY <1>2, <2>1, DispSettled DEF ModeOK, Leaving
  <2>3. PagesOK' /\ (MapListOn' <=> MapListOn) /\ Wanted' = Wanted
    BY <2>1, SameMode DEF Wanted, Preop
  <2>4. CASE dpc' = "op" /\ task' = task
    <3>1. Coming' = status
      BY <2>1, <2>2, <2>4, StillRested DEF Settled, ControlTask
    <3>2. /\ Wanted = "profiling" => status = "STARTED"
          /\ Wanted = "ml" => status = "MAPLIST"
      BY <1>2, <2>4 DEF DispCmd, Wanted
    <3> QED BY <2>2, <2>3, <2>4, <3>1, <3>2, Table DEF ModeOK
  <2>5. CASE dpc' = "enter" /\ task' = "STOP" /\ want' = "IDLE"
    <3>1. Coming' = "IDLE"
      BY <2>5 DEF Coming, ControlTask, Outcome
    <3>2. Wanted # "none"
      BY <1>2, <2>5 DEF DispCmd, Wanted
    <3> QED BY <2>3, <2>5, <3>1, <3>2 DEF ModeOK
  <2> QED BY <1>2, <2>4, <2>5 DEF DispCmd
<1>3. CASE DispWait
  <2>1. /\ dpc \in {"enter", "wait"} /\ dpc' = "wait"
        /\ UNCHANGED <<pages, scr_ok, job, want, task, status, ppc, ptask, pval>>
    BY <1>3 DEF DispWait, perfVars, stackVars
  <2>2. PagesOK' /\ Wanted' = Wanted /\ Coming' = Coming
    BY <2>1, SameMode DEF Wanted, Preop, Coming, ControlTask
  <2> QED BY <2>1, <2>2 DEF ModeOK
<1>4. CASE DispWaitDone
  <2>1. /\ dpc = "wait" /\ UNCHANGED <<pages, scr_ok, job, status, ppc, ptask, pval>>
    BY <1>4 DEF DispWaitDone, perfVars, stackVars, NoAuto
  <2>2. Settled
    BY <1>4, <2>1, WaitOver DEF DispWaitDone, AliveOK
  <2>3. Coming = status /\ status = want /\ Wanted # "none"
    BY <2>1, <2>2, Rested DEF ModeOK
  <2>4. PagesOK' /\ Wanted' = Wanted
    BY <2>1, SameMode DEF Wanted, Preop
  <2>5. CASE want = "IDLE"
    <3>1. /\ task' = IF Wanted = "ml" THEN "MSTART" ELSE "START"
          /\ want' = IF Wanted = "ml" THEN "MAPLIST" ELSE "STARTED"
          /\ dpc' = "enter"
      BY <1>4, <2>5 DEF DispWaitDone, Wanted
    <3>2. Coming' = want'
      BY <3>1 DEF Coming, ControlTask, Outcome
    <3> QED BY <2>3, <2>4, <3>1, <3>2 DEF ModeOK
  <2>6. CASE want # "IDLE"
    <3>1. dpc' = "op" /\ task' = task
      BY <1>4, <2>6 DEF DispWaitDone, NoAuto
    <3>2. Coming' = status
      BY <2>1, <2>2, <3>1, StillRested DEF Settled, ControlTask
    <3>3. status = IF Wanted = "ml" THEN "MAPLIST" ELSE "STARTED"
      BY <2>1, <2>3, <2>6 DEF ModeOK
    <3> QED BY <2>3, <2>4, <3>1, <3>2, <3>3 DEF ModeOK
  <2> QED BY <2>5, <2>6
<1>5. CASE DispNext \/ DispMapList \/ DispPrev \/ DispRefresh \/ DispNop
  <2>1. PagesOK' /\ (Coming = "MAPLIST" <=> MapListOn')
    BY <1>5, OpMode
  <2>2. dpc = "op"
    BY <1>5 DEF DispNext, DispMapList, DispPrev, DispRefresh, DispNop
  <2>3. Settled /\ Coming = status
    BY <2>2, DispSettled
  <2>4. UNCHANGED <<status, ppc, ptask, pval>> /\ task' \in {task} \cup Samples
    BY <1>5, PageOpFrame DEF PageOp, DispNop, Samples, perfVars
  <2>5. dpc' \in {"flag2", "loop", "go_home"}
    <3>1. dpc' \notin {"auto", "auto_start"}
      BY ReadyFrame DEF NoAuto
    <3>2. CASE DispNext
      BY <3>1, <3>2, ShowStep DEF DispNext
    <3>3. CASE DispMapList
      BY <3>1, <3>3, ShowStep DEF DispMapList, Crash
    <3>4. CASE DispPrev
      BY <3>1, <3>4, ShowStep DEF DispPrev
    <3>5. CASE DispRefresh
      BY <3>1, <3>5, SampleStep DEF DispRefresh, Crash
    <3>6. CASE DispNop
      BY <3>6 DEF DispNop
    <3> QED BY <1>5, <3>2, <3>3, <3>4, <3>5, <3>6
  <2>6. Coming' = status
    <3>1. ~ControlTask'
      BY <2>3, <2>4 DEF Settled, ControlTask, Samples
    <3> QED BY <2>3, <2>4, <3>1, StillRested
  <2> QED BY <2>1, <2>3, <2>5, <2>6 DEF ModeOK
<1>6. CASE DispListFini \/ DispPerfFini \/ DispJoinPerf
  <2>1. dpc' \in {"perf_fini", "join_perf", "exit"}
    BY <1>6 DEF DispListFini, DispPerfFini, DispJoinPerf
  <2>2. ModeOK'
    BY <2>1 DEF ModeOK, Leaving
  <2>3. pages' = << >> \/ UNCHANGED <<pages, scr_ok>>
    BY <1>6 DEF DispListFini, DispPerfFini, DispJoinPerf, Fini, stackVars
  <2>4. PagesOK'
    BY <2>3, SameMode DEF PagesOK
  <2> QED BY <2>2, <2>4
<1>7. ~DispAuto /\ ~DispAutoStart
  BY DEF DispAuto, DispAutoStart, NoAuto
<1> QED BY <1>1, <1>2, <1>3, <1>4, <1>5, <1>6, <1>7 DEF Disp

LEMMA ModeStep ==
  ASSUME ~Slow, ~StartMayFail, ~WinMayFail, Types, NoAuto, ControlInv, ModeInv, [Next]_vars
  PROVE  ModeInv'
<1>1. CASE Running /\ Disp
  <2>1. EarlyOK' /\ AliveOK'
    BY <1>1, EarlyDisp, AliveDisp DEF ModeInv
  <2>2. CASE fault' = "none"
    BY <1>1, <2>1, <2>2, DispMode DEF ModeInv, Running
  <2>3. CASE fault' # "none"
    <3>1. UNCHANGED <<pages, scr_ok>>
      BY <1>1, <2>3 DEF Running, Disp, DispStart, DispTake, DispTimeout, DispResize,
         DispCmd, DispWait, DispWaitDone, DispNext, DispMapList, DispPrev, DispRefresh,
         DispNop, DispFlag2, DispReady, DispScroll, DispEnterKey, DispGoHome, DispAuto,
         DispAutoStart, DispListFini, DispPerfFini, DispJoinPerf, Crash, envVars, stackVars
    <3> QED BY <2>1, <2>3, <3>1, SameMode DEF ModeInv
  <2> QED BY <2>2, <2>3
<1>2. CASE Running /\ Main
  <2>1. /\ EarlyOK' /\ AliveOK' /\ UNCHANGED <<pages, scr_ok, fault, job, want>>
        /\ \/ dpc' = dpc
           \/ dpc = "none" /\ dpc' = "start" /\ pages = << >>
        /\ Coming' = Coming \/ (dpc' = "none" /\ Coming' # "MAPLIST")
    BY <1>2, MainMode DEF ModeInv
  <2>2. PagesOK' /\ (MapListOn' <=> MapListOn) /\ Wanted' = Wanted
    BY <2>1, SameMode DEF ModeInv, Wanted, Preop
  <2>3. ModeOK'
    <3>1. CASE dpc' = dpc
      BY <1>2, <2>1, <2>2, <3>1 DEF ModeInv, ModeOK, Running, Leaving
    <3>2. CASE dpc = "none" /\ dpc' = "start" /\ pages = << >>
      <4>1. ~MapListOn /\ Coming' # "MAPLIST"
        BY <1>2, <2>1, <3>2 DEF ModeInv, ModeOK, Running, MapListOn, HasCur
      <4> QED BY <2>2, <3>2, <4>1 DEF ModeOK
    <3> QED BY <2>1, <3>1, <3>2
  <2> QED BY <2>1, <2>2, <2>3 DEF ModeInv
<1>3. CASE Running /\ Perf
  <2>1. EarlyOK' /\ AliveOK' /\ (dpc \notin {"join_perf", "exit"} => Coming' = Coming)
    BY <1>3, EarlyPerf, PerfMode DEF ModeInv
  <2>2. UNCHANGED <<pages, scr_ok, dpc, job, want>>
    BY <1>3 DEF Perf, PerfTake, PerfStop, PerfStart, PerfSmpl, PerfSet, PerfEnum,
       PerfAnswer, dispVars, stackVars
  <2>3. PagesOK' /\ (MapListOn' <=> MapListOn) /\ Wanted' = Wanted
    BY <2>2, SameMode DEF ModeInv, Wanted, Preop
  <2>4. ModeOK'
    BY <1>3, <2>1, <2>2, <2>3 DEF ModeInv, ModeOK, Running, Leaving
  <2> QED BY <2>1, <2>3, <2>4 DEF ModeInv
<1>4. CASE Cons
  <2>1. /\ cpc \in {"init", "home", "loop"} /\ cpc' # "none"
        /\ UNCHANGED <<mpc, dpc, ppc, task, ptask, status, pval, job, want, fault, pages>>
    BY <1>4 DEF Cons, ConsInit, ConsHome, ConsPipe, dispVars, perfVars, envVars, stackVars
  <2>2. EarlyOK'
    BY <1>4, <2>1 DEF Cons, ConsInit, ConsHome, ConsPipe, ModeInv, EarlyOK
  <2>3. PagesOK'
    <3>1. CASE pages = << >>
      BY <2>1, <3>1 DEF PagesOK
    <3>2. CASE pages # << >>
      <4>1. scr_ok' = scr_ok
        BY <1>4, <3>2 DEF Cons, ConsInit, ConsHome, ConsPipe, ModeInv, EarlyOK, stackVars
      <4> QED BY <2>1, <4>1, SameMode DEF ModeInv
    <3> QED BY <3>1, <3>2
  <2>4. AliveOK' /\ Coming' = Coming /\ Wanted' = Wanted /\ (MapListOn' <=> MapListOn)
    BY <2>1 DEF ModeInv, AliveOK, Coming, ControlTask, Wanted, Preop, CurType, WinType,
       MapListOn, HasCur, Cur
  <2>5. fault' = "none" => ModeOK'
    BY <2>1, <2>4 DEF ModeInv, ModeOK
  <2> QED BY <2>2, <2>3, <2>4, <2>5 DEF ModeInv
<1>5. CASE ConsKey \/ Signal \/ Winch \/ Expire \/ UNCHANGED vars
  <2>1. /\ UNCHANGED <<mpc, dpc, ppc, task, ptask, status, pval, job, want, fault, pages,
                       scr_ok>>
        /\ \/ cpc' = cpc /\ flag' \in {flag, "QUIT"}
           \/ cpc = "loop" /\ cpc' \in {"loop", "exit"}
    BY <1>5 DEF ConsKey, Signal, Winch, Expire, vars, dispVars, perfVars, stackVars
  <2>2. EarlyOK' /\ AliveOK' /\ Coming' = Coming
    BY <2>1 DEF ModeInv, EarlyOK, AliveOK, Coming, ControlTask
  <2>3. PagesOK' /\ (MapListOn' <=> MapListOn) /\ Wanted' = Wanted
    BY <2>1, SameMode DEF ModeInv, Wanted, Preop
  <2>4. fault' = "none" => ModeOK'
    BY <2>1, <2>2, <2>3 DEF ModeInv, ModeOK
  <2> QED BY <2>2, <2>3, <2>4 DEF ModeInv
<1> QED BY <1>1, <1>2, <1>3, <1>4, <1>5 DEF Next, Terminated

\* With -p, and when no start and no window fails and no thread outlasts the waits for
\* it, the sampler is in map-list mode exactly while the map list is on top, whatever
\* is typed, signalled or resized (switch_table_init, os_op_switch2ml, op_page_prev).
THEOREM ModeAlwaysMatches ==
  ASSUME WithPid, ~Slow, ~StartMayFail, ~WinMayFail PROVE Spec => []ModeMatchesPage
<1> DEFINE Inv == Types /\ NoAuto /\ ControlInv /\ ModeInv
<1>1. Init => Inv
  <2> SUFFICES ASSUME Init PROVE Inv
    OBVIOUS
  <2>1. Types
    BY InitTypes
  <2>2. NoAuto /\ ControlInv
    BY DEF Init, NoAuto, ControlInv, StartOrder, Settled, ControlTask, ControlTasks,
           PerfBusy, Waiting
  <2>3. /\ mpc = "start" /\ cpc = "none" /\ dpc = "none" /\ ppc = "none" /\ flag = "NONE"
        /\ task = "INVALID" /\ status = "IDLE" /\ pages = << >>
    BY DEF Init, StackInit
  <2>4. ModeInv
    BY <2>3 DEF ModeInv, PagesOK, EarlyOK, AliveOK, ModeOK, Coming, ControlTask, Samples
  <2> QED BY <2>1, <2>2, <2>4
<1>2. Inv /\ [Next]_vars => Inv'
  <2> SUFFICES ASSUME Inv, [Next]_vars PROVE Inv'
    OBVIOUS
  <2>1. Types'
    BY StackStep, BoolStep, DataStep DEF Types
  <2> QED BY <2>1, ControlInvStep, ModeStep
<1>3. Inv => ModeMatchesPage
  <2> SUFFICES ASSUME Inv, dpc = "loop", fault = "none", HasCur
               PROVE  Cur.cmd = "MAP_LIST" <=> status = "MAPLIST"
    BY DEF ModeMatchesPage
  <2>1. ~Waiting /\ ppc # "exit"
    BY DEF Waiting, ControlInv, StartOrder, ModeInv, AliveOK
  <2>2. Coming = status
    BY <2>1, Rested DEF ControlInv
  <2> QED BY <2>2 DEF ModeInv, ModeOK, Leaving, MapListOn
<1> QED BY <1>1, <1>2, <1>3, PTL DEF Spec

-----------------------------------------------------------------------------
(* The threads together use the pages as PageStack has it.  The console    *)
(* thread writes the size of the screen without looking at the pages; that *)
(* is a Resize of an empty stack, because nothing opens a page before.     *)

LEMMA EarlyMain == ASSUME EarlyOK, Main PROVE EarlyOK'
<1>0. pages' = pages
  BY DEF Main, MainPerfInit, MainWait, MainWaitDone, MainDispInit, MainJoinDisp,
         MainConsQuit, MainJoinCons, stackVars
<1> USE <1>0 DEF EarlyOK, Samples, Leaving, dispVars, perfVars
<1>1. CASE MainPerfInit
  BY <1>1 DEF MainPerfInit
<1>2. CASE MainWait \/ MainWaitDone
  <2>1. /\ mpc \in {"enter", "wait"} /\ mpc' \in {"wait", "disp_init", "done"}
        /\ UNCHANGED <<cpc, dpc, ppc, task, ptask, flag>>
    BY <1>2 DEF MainWait, MainWaitDone
  <2> QED BY <2>1
<1>3. CASE MainDispInit
  BY <1>3 DEF MainDispInit
<1>4. CASE MainJoinDisp \/ MainConsQuit \/ MainJoinCons
  <2>1. /\ mpc' \in {"cons_quit", "join_cons", "done"}
        /\ UNCHANGED <<cpc, dpc, ppc, task, ptask, flag>>
    BY <1>4 DEF MainJoinDisp, MainConsQuit, MainJoinCons
  <2> QED BY <2>1
<1> QED BY <1>1, <1>2, <1>3, <1>4 DEF Main

LEMMA EarlyStep == ASSUME EarlyOK, [Next]_vars PROVE EarlyOK'
<1>1. CASE Main
  BY <1>1, EarlyMain
<1>2. CASE Disp
  BY <1>2, EarlyDisp
<1>3. CASE Perf
  BY <1>3, EarlyPerf
<1>4. CASE Cons
  <2>1. /\ cpc \in {"init", "home", "loop"} /\ cpc' \notin {"none", "init"}
        /\ UNCHANGED mpc
    BY <1>4 DEF Cons, ConsInit, ConsHome, ConsPipe
  <2> QED BY <2>1 DEF EarlyOK
<1>5. CASE ConsKey \/ Signal \/ Winch \/ Expire \/ UNCHANGED vars
  <2>1. /\ UNCHANGED <<mpc, dpc, ppc, task, ptask, pages>>
        /\ \/ cpc' = cpc /\ flag' \in {flag, "QUIT"}
           \/ cpc = "loop" /\ cpc' \in {"loop", "exit"}
    BY <1>5 DEF ConsKey, Signal, Winch, Expire, vars, dispVars, perfVars, stackVars
  <2> QED BY <2>1 DEF EarlyOK
<1> QED BY <1>1, <1>2, <1>3, <1>4, <1>5 DEF Next, Terminated

\* Measuring the screen before there is a page is a Resize of the empty stack.
LEMMA MeasureStep ==
  ASSUME pages = << >>, NEW big \in BOOLEAN, scr_ok' = big,
         pages' = pages, next_run' = next_run
  PROVE  Resize(big)
<1>1. pages' = [i \in DOMAIN pages |-> [pages[i] EXCEPT !.inited = FALSE]]
  OBVIOUS
<1> QED BY <1>1, Zenon DEF Resize

\* Which step of the stack each step of the threads is.
LEMMA StackUse == ASSUME Types, EarlyOK, [Next]_vars PROVE [StackNext]_stackVars
<1>0. smpl \in BOOLEAN /\ \A ok \in InitResults : ok \in BOOLEAN
  BY Zenon DEF InitResults, Types, BoolOK
<1>1. CASE ConsInit
  <2>1. PICK big \in BOOLEAN : scr_ok' = big
    BY <1>1, Zenon DEF ConsInit
  <2>2. pages = << >>
    BY <1>1 DEF ConsInit, EarlyOK
  <2>3. pages' = pages /\ next_run' = next_run
    BY <1>1, Zenon DEF ConsInit
  <2>4. Resize(big)
    BY <2>1, <2>2, <2>3, MeasureStep
  <2> QED BY <2>4, Zenon DEF StackNext
<1>2. CASE DispResize
  BY <1>2, Zenon DEF DispResize, StackNext
<1>3. CASE DispNext
  <2>1. PICK ok \in InitResults :
          IF job = "HOME" THEN Home(smpl, ok) ELSE Next_(job, smpl, ok)
    BY <1>3 DEF DispNext
  <2>2. job \in PageCmds
    BY <1>3, OpCommands DEF DispNext
  <2>3. Home(smpl, ok) \/ Next_(job, smpl, ok)
    BY <2>1, Zenon
  <2> QED BY <1>0, <2>2, <2>3, Zenon DEF StackNext
<1>4. CASE DispMapList
  <2>1. ASSUME NEW ok \in InitResults, Next_(job, smpl, ok) PROVE StackNext
    <3>1. job \in PageCmds
      BY <1>4, OpCommands DEF DispMapList, PageCmds
    <3> QED BY <1>0, <2>1, <3>1, Zenon DEF StackNext
  <2> QED BY <1>4, <2>1 DEF DispMapList, Crash
<1>5. CASE DispPrev
  <2>1. ASSUME NEW ok \in InitResults, Prev(smpl, ok) PROVE StackNext
    BY <1>0, <2>1, Zenon DEF StackNext
  <2> QED BY <1>5, <2>1 DEF DispPrev
<1>6. CASE DispRefresh
  <2>1. Refresh => StackNext
    BY Zenon DEF StackNext
  <2> QED BY <1>6, <2>1 DEF DispRefresh, Crash
<1>7. CASE DispReady
  <2>1. ASSUME NEW ok \in InitResults, Execute(ok) PROVE StackNext
    BY <1>0, <2>1, Zenon DEF StackNext
  <2> QED BY <1>7, <2>1 DEF DispReady
<1>8. CASE DispListFini
  BY <1>8, Zenon DEF DispListFini, StackNext
<1>9. CASE UNCHANGED stackVars
  BY <1>9
<1> QED BY <1>1, <1>2, <1>3, <1>4, <1>5, <1>6, <1>7, <1>8, <1>9
  DEF Next, vars, stackVars, Main, Cons, Disp, Perf, Terminated, MainPerfInit, MainWait,
      MainWaitDone, MainDispInit, MainJoinDisp, MainConsQuit, MainJoinCons, ConsHome,
      ConsPipe, DispStart, DispTake, DispTimeout, DispCmd, DispWait, DispWaitDone,
      DispNop, DispFlag2, DispScroll, DispEnterKey, DispGoHome, DispAuto, DispAutoStart,
      DispPerfFini, DispJoinPerf, PerfTake, PerfStop, PerfStart, PerfSmpl, PerfSet,
      PerfEnum, PerfAnswer, ConsKey, Signal, Winch, Expire, Crash

\* The threads implement the stack of pages: no thread but disp touches the list, disp
\* only through its operations, and the console thread, which takes no lock, settles the
\* size of the screen before there is a page (disp_cons_handler, reg_curses_init,
\* disp_handler).  With ImplementsAlways of PageListProofs, the list of page.c does
\* what the display thread's model relies on.
THEOREM UsesStackOnly == Spec => StackSpec
<1> DEFINE Inv == Types /\ EarlyOK
<1>1. Init => Inv
  <2> SUFFICES ASSUME Init PROVE Inv
    OBVIOUS
  <2>1. /\ mpc = "start" /\ cpc = "none" /\ dpc = "none" /\ ppc = "none" /\ flag = "NONE"
        /\ task = "INVALID" /\ pages = << >>
    BY DEF Init, StackInit
  <2>2. EarlyOK
    BY <2>1 DEF EarlyOK, Samples
  <2> QED BY <2>2, InitTypes
<1>2. Inv /\ [Next]_vars => Inv'
  <2> SUFFICES ASSUME Inv, [Next]_vars PROVE Inv'
    OBVIOUS
  <2> QED BY EarlyStep, StackStep, BoolStep, DataStep DEF Types
<1>3. Init => StackInit
  BY DEF Init
<1>4. Inv /\ [Next]_vars => [StackNext]_stackVars
  BY StackUse
<1> QED BY <1>1, <1>2, <1>3, <1>4, PTL DEF Spec, StackSpec
=============================================================================
