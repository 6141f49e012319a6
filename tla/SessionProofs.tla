------------------------------ MODULE SessionProofs ------------------------------
(***************************************************************************)
(* Theorems on Session, for any set of instances and whatever may fail.    *)
(***************************************************************************)
EXTENDS Session, TLAPS

\* What an instance may have up at a place: main runs straight through its
\* initialisations, and each label stands where exactly its predecessors are up.
UpAt(place) ==
  CASE place \in {"check", "target", "start"} -> {{}, Parts}
    [] place = "run" -> {Parts}
    [] place = "disp" -> {{"debug", "dump", "map", "group", "cons", "perf"}}
    [] place \in {"perf", "L_EXIT7"} -> {{"debug", "dump", "map", "group", "cons"}}
    [] place \in {"cons", "L_EXIT5", "off", "attrs", "group_fini"} ->
         {{"debug", "dump", "map", "group"}}
    [] place \in {"group", "L_EXIT4"} -> {{"debug", "dump", "map"}}
    [] place \in {"map", "L_EXIT3"} -> {{"debug", "dump"}}
    [] place \in {"dump", "L_EXIT2"} -> {{"debug"}}
    [] OTHER -> {{}}

UpInv == \A i \in Instances : up[i] \in UpAt(pc[i])

\* The places from which the straight way leads to monitor_exit.
BeforeOff == {"check", "target", "start", "plat", "run", "L_EXIT7", "L_EXIT5", "off"}
             \cup Parts

OffInv == on => \E i \in Instances : skipped[i] \/ pc[i] \in BeforeOff

\* main's way from place to place
LEMMA Ways ==
  /\ Writes[1] = "target" /\ Writes[2] = "start"
  /\ After["L_EXIT7"] = "L_EXIT5" /\ After["group_fini"] = "L_EXIT4"
  /\ After["L_EXIT4"] = "L_EXIT3" /\ After["L_EXIT3"] = "L_EXIT2"
  /\ After["L_EXIT2"] = "L_EXIT1" /\ After["L_EXIT1"] = "ended"
  /\ After.L_EXIT5 = "off" /\ After.off = "attrs" /\ After.attrs = "group_fini"
  /\ NextPart["debug"] = "dump" /\ NextPart["dump"] = "map"
  /\ NextPart["map"] = "group" /\ NextPart["group"] = "cons"
  /\ NextPart["cons"] = "perf" /\ NextPart["perf"] = "disp"
  /\ NextPart["disp"] = "run"
BY DEF Writes, After, NextPart

\* Where the calls behind the labels lead, and what they take down.
LEMMA FiniWays ==
  ASSUME NEW place \in {"L_EXIT7", "group_fini", "L_EXIT4", "L_EXIT3", "L_EXIT2", "L_EXIT1"}
  PROVE  After[place] \in {"L_EXIT5", "L_EXIT4", "L_EXIT3", "L_EXIT2", "L_EXIT1", "ended"}
BY Ways

LEMMA InitWays ==
  ASSUME NEW part \in Parts
  PROVE  /\ NextPart[part] \in Parts \cup {"run"}
         /\ Label(part) \in {"L_EXIT7", "L_EXIT5", "L_EXIT4", "L_EXIT3", "L_EXIT2", "L_EXIT1"}
BY Ways DEF Parts, Label

-----------------------------------------------------------------------------
LEMMA InitTypes == Init => TypeOK
<1> SUFFICES ASSUME Init PROVE TypeOK
  OBVIOUS
<1>1. /\ on \in BOOLEAN /\ overlap \in BOOLEAN
      /\ refused \in [Instances -> BOOLEAN] /\ skipped \in [Instances -> BOOLEAN]
  BY Zenon DEF Init
<1>2. opt \in [Instances -> Options]
  <2>1. [pid |-> FALSE, reg |-> FALSE, auto |-> FALSE] \in Options
    BY Zenon DEF Options
  <2> QED
    BY <2>1, Zenon DEF Init
<1> QED
  BY <1>1, <1>2 DEF Init, TypeOK, Attrs, Places

LEMMA StepTypes == TypeOK /\ [Next]_vars => TypeOK'
<1> SUFFICES ASSUME TypeOK, [Next]_vars PROVE TypeOK'
  OBVIOUS
<1> USE DEF TypeOK
<1>1. ASSUME NEW i \in Instances, Launch(i) PROVE TypeOK'
  <2>1. pc' \in [Instances -> Places] /\ orig' \in [Instances -> Attrs]
    BY <1>1 DEF Launch, ReadAs, Attrs, Goto, Places
  <2>2. UNCHANGED <<on, targets, attrs, opt, up, refused, skipped, found>>
    BY <1>1, Zenon DEF Launch, damon
  <2>3. overlap' \in BOOLEAN
    BY <1>1, Zenon DEF Launch
  <2> QED BY <2>1, <2>2, <2>3, Zenon
<1>2. ASSUME NEW i \in Instances, Parse(i) PROVE TypeOK'
  BY <1>2 DEF Parse, Goto, LeaveEarly, WriteAttrs, Attrs, Places
<1>3. ASSUME NEW i \in Instances, Check(i) PROVE TypeOK'
  <2>1. \E place \in {"target", "run", "ended"} : Goto(i, place)
    BY <1>3, Ways DEF Check, LeaveEarly
  <2>2. pc' \in [Instances -> Places]
    BY <2>1 DEF Goto, Places
  <2>3. skipped' \in [Instances -> BOOLEAN]
    BY <1>3, Zenon DEF Check, LeaveEarly
  <2>4. UNCHANGED <<on, targets, attrs, opt, orig, up, refused, overlap, found>>
    BY <1>3, Zenon DEF Check, damon
  <2> QED BY <2>2, <2>3, <2>4, Zenon
<1>4. ASSUME NEW i \in Instances, Target(i) PROVE TypeOK'
  <2>1. pc' \in [Instances -> Places]
    <3>1. \E place \in {"start", "run", "plat"} : Goto(i, place)
      BY <1>4, Ways DEF Target, Wrote
    <3> QED BY <3>1 DEF Goto, Places
  <2>2. targets' \in Instances \cup {"orig"} /\ refused' \in [Instances -> BOOLEAN]
    <3>1. PICK gone \in BOOLEAN :
            /\ targets' = IF on \/ gone THEN targets ELSE i
            /\ refused' = [refused EXCEPT ![i] = gone]
      BY <1>4, Zenon DEF Target
    <3>2. targets' \in {targets, i}
      BY <3>1, Zenon
    <3>3. refused' \in [Instances -> BOOLEAN]
      BY <3>1, Zenon
    <3> QED BY <3>2, <3>3
  <2>3. UNCHANGED <<on, attrs, opt, orig, up, skipped, overlap, found>>
    BY <1>4, Zenon DEF Target
  <2> QED BY <2>1, <2>2, <2>3, Zenon
<1>5. ASSUME NEW i \in Instances, TurnOn(i) PROVE TypeOK'
  <2>1. pc' \in [Instances -> Places]
    BY <1>5, Ways DEF TurnOn, Wrote, Goto, Places
  <2>2. on' \in BOOLEAN
    BY <1>5, Zenon DEF TurnOn
  <2>3. UNCHANGED <<targets, attrs, opt, orig, up, refused, skipped, overlap, found>>
    BY <1>5, Zenon DEF TurnOn
  <2> QED BY <2>1, <2>2, <2>3, Zenon
<1>6. ASSUME NEW i \in Instances, Detect(i) PROVE TypeOK'
  BY <1>6 DEF Detect, damon, Goto, LeaveEarly, Places, Parts
<1>7. ASSUME NEW i \in Instances, NEW part \in Parts, InitPart(i, part) PROVE TypeOK'
  <2>1. skipped' \in [Instances -> BOOLEAN]
    BY <1>7, Zenon DEF InitPart
  <2>2. UNCHANGED <<on, targets, attrs, opt, orig, refused, overlap, found>>
    BY <1>7, Zenon DEF InitPart, damon
  <2>3. up' \in [Instances -> SUBSET Parts]
    BY <1>7 DEF InitPart
  <2>4. pc' \in [Instances -> Places]
    <3>1. NextPart[part] \in Places /\ Label(part) \in Places
      BY InitWays DEF Places, Exits
    <3> QED
      BY <1>7, <3>1, Zenon DEF InitPart, Goto
  <2> QED
    BY <2>1, <2>2, <2>3, <2>4
<1>8. ASSUME NEW i \in Instances, AutoStart(i) PROVE TypeOK'
  BY <1>8 DEF AutoStart, damon, Goto, Places, Options
<1>9. ASSUME NEW i \in Instances, Quit(i) PROVE TypeOK'
  BY <1>9 DEF Quit, damon, Goto, Places, Exits
<1>10. ASSUME NEW i \in Instances, Fini(i) PROVE TypeOK'
  BY <1>10, FiniWays DEF Fini, damon, Goto, Places, Exits
<1>11. ASSUME NEW i \in Instances, ReadOn(i) PROVE TypeOK'
  BY <1>11, Ways DEF ReadOn, damon, Goto, Places, Exits
<1>12. ASSUME NEW i \in Instances, TurnOff(i) PROVE TypeOK'
  BY <1>12, Ways DEF TurnOff, Goto, Places, Exits
<1>13. ASSUME NEW i \in Instances, Restore(i) PROVE TypeOK'
  BY <1>13, Ways DEF Restore, WriteAttrs, Goto, Places, Exits, Attrs
<1>14. ASSUME NEW i \in Instances, Kill(i) PROVE TypeOK'
  BY <1>14 DEF Kill, damon, LeaveEarly, Goto, Places
<1>15. CASE UNCHANGED vars
  BY <1>15 DEF vars, damon, mine
<1> QED
  BY <1>1, <1>2, <1>3, <1>4, <1>5, <1>6, <1>7, <1>8, <1>9, <1>10, <1>11, <1>12, <1>13,
     <1>14, <1>15 DEF Next, Instance, Terminated

\* main, its options and DAMON keep to their types (main of datop.c).
THEOREM TypeCorrect == Spec => []TypeOK
<1>1. Init => TypeOK
  BY InitTypes
<1>2. TypeOK /\ [Next]_vars => TypeOK'
  BY StepTypes
<1> QED
  BY <1>1, <1>2, PTL DEF Spec

-----------------------------------------------------------------------------
(* What is up *)

LEMMA UpOne ==
  ASSUME UpInv, NEW i \in Instances,
         \A j \in Instances \ {i} : pc'[j] = pc[j] /\ up'[j] = up[j],
         up'[i] \in UpAt(pc'[i])
  PROVE  UpInv'
BY DEF UpInv, UpAt

LEMMA InitUp == Init => UpInv
BY DEF Init, UpInv, UpAt, Parts

\* What is up when a failed initialisation jumps is what its label expects.
LEMMA StepUpInit ==
  ASSUME TypeOK, UpInv, NEW i \in Instances, NEW part \in Parts, InitPart(i, part)
  PROVE  UpInv'
<1>1. /\ up \in [Instances -> SUBSET Parts] /\ pc \in [Instances -> Places]
      /\ pc[i] = part
  BY Zenon DEF TypeOK, InitPart
<1>2. up[i] \in UpAt(part)
  BY <1>1 DEF UpInv
<1>3. CASE up' = [up EXCEPT ![i] = @ \cup {part}] /\ Goto(i, NextPart[part])
  <2>1. up'[i] = up[i] \cup {part} /\ pc'[i] = NextPart[part]
    BY <1>1, <1>3 DEF Goto
  <2>2. \A j \in Instances \ {i} : pc'[j] = pc[j] /\ up'[j] = up[j]
    BY <1>1, <1>3 DEF Goto
  <2>3. up'[i] \in UpAt(pc'[i])
    BY <1>2, <2>1, Ways DEF UpAt, Parts
  <2> QED
    BY <2>2, <2>3, UpOne
<1>4. CASE up' = [up EXCEPT ![i] = @ \ {"perf"}] /\ Goto(i, Label(part))
  <2>1. up'[i] = up[i] \ {"perf"} /\ pc'[i] = Label(part)
    BY <1>1, <1>4 DEF Goto
  <2>2. \A j \in Instances \ {i} : pc'[j] = pc[j] /\ up'[j] = up[j]
    BY <1>1, <1>4 DEF Goto
  <2>3. up'[i] \in UpAt(pc'[i])
    BY <1>2, <2>1 DEF UpAt, Parts, Label
  <2> QED
    BY <2>2, <2>3, UpOne
<1> QED
  BY <1>3, <1>4, Zenon DEF InitPart

LEMMA StepUpFini ==
  ASSUME TypeOK, UpInv, NEW i \in Instances, Fini(i)
  PROVE  UpInv'
<1>1. /\ up \in [Instances -> SUBSET Parts] /\ pc \in [Instances -> Places]
      /\ pc[i] \in {"L_EXIT7", "group_fini", "L_EXIT4", "L_EXIT3", "L_EXIT2", "L_EXIT1"}
  BY Zenon DEF TypeOK, Fini
<1>2. up[i] \in UpAt(pc[i])
  BY DEF UpInv
<1>3. up'[i] = up[i] \ Frees(pc[i]) /\ pc'[i] = After[pc[i]]
  BY <1>1 DEF Fini, Goto
<1>4. \A j \in Instances \ {i} : pc'[j] = pc[j] /\ up'[j] = up[j]
  BY <1>1 DEF Fini, Goto
<1>5. up'[i] \in UpAt(pc'[i])
  BY <1>1, <1>2, <1>3, Ways DEF UpAt, Frees
<1> QED
  BY <1>4, <1>5, UpOne

LEMMA StepUp == TypeOK /\ UpInv /\ [Next]_vars => UpInv'
<1> SUFFICES ASSUME TypeOK, UpInv, [Next]_vars PROVE UpInv'
  OBVIOUS
<1>0. /\ up \in [Instances -> SUBSET Parts] /\ pc \in [Instances -> Places]
      /\ \A i \in Instances : up[i] \in UpAt(pc[i])
  BY Zenon DEF TypeOK, UpInv
<1>1. ASSUME NEW i \in Instances, Launch(i) PROVE UpInv'
  BY <1>0, <1>1, UpOne DEF Launch, Goto, UpAt
<1>2. ASSUME NEW i \in Instances, Parse(i) PROVE UpInv'
  BY <1>0, <1>2, UpOne DEF Parse, Goto, LeaveEarly, UpAt
<1>3. ASSUME NEW i \in Instances, Check(i) PROVE UpInv'
  BY <1>0, <1>3, UpOne, Ways DEF Check, Goto, LeaveEarly, UpAt, Running, Parts
<1>4. ASSUME NEW i \in Instances, Target(i) \/ TurnOn(i) PROVE UpInv'
  BY <1>0, <1>4, UpOne, Ways DEF Target, TurnOn, Wrote, Goto, UpAt, Running, Parts
<1>5. ASSUME NEW i \in Instances, Detect(i) PROVE UpInv'
  BY <1>0, <1>5, UpOne DEF Detect, Goto, LeaveEarly, UpAt
<1>6. ASSUME NEW i \in Instances, AutoStart(i) PROVE UpInv'
  BY <1>0, <1>6, UpOne DEF AutoStart, Goto, UpAt
<1>7. ASSUME NEW i \in Instances, Quit(i) PROVE UpInv'
  BY <1>0, <1>7, UpOne DEF Quit, Goto, UpAt, Parts
<1>8. ASSUME NEW i \in Instances, ReadOn(i) PROVE UpInv'
  BY <1>0, <1>8, UpOne, Ways DEF ReadOn, Goto, UpAt
<1>9. ASSUME NEW i \in Instances, TurnOff(i) \/ Restore(i) PROVE UpInv'
  BY <1>0, <1>9, UpOne, Ways DEF TurnOff, Restore, Goto, UpAt
<1>10. ASSUME NEW i \in Instances, Kill(i) PROVE UpInv'
  BY <1>0, <1>10, UpOne DEF Kill, LeaveEarly, Goto, UpAt
<1>11. CASE UNCHANGED vars
  BY <1>11 DEF vars, mine, UpInv, UpAt
<1> QED
  BY <1>1, <1>2, <1>3, <1>4, <1>5, <1>6, <1>7, <1>8, <1>9, <1>10, <1>11,
     StepUpInit, StepUpFini DEF Next, Instance, Terminated

\* An instance that has ended has nothing left initialised, whichever initialisation
\* failed (the goto labels of main).
THEOREM AllAlwaysDown == Spec => []AllDown
<1>1. UpInv => AllDown
  BY DEF UpInv, AllDown, UpAt
<1> QED
  BY <1>1, InitTypes, StepTypes, InitUp, StepUp, PTL DEF Spec

\* No exit label takes down what is not up (the goto labels of main).
THEOREM OnlyEverWhatIsUp == Spec => OnlyWhatIsUp
<1>1. TypeOK /\ UpInv /\ [Next]_vars =>
        [\A i \in Instances :
           pc'[i] \notin {pc[i], "ended"} => Frees(pc[i]) \subseteq up[i]]_vars
  BY DEF UpInv, UpAt, Frees
<1> QED
  BY <1>1, InitTypes, StepTypes, InitUp, StepUp, PTL DEF Spec, OnlyWhatIsUp

-----------------------------------------------------------------------------
(* DAMON is off at the end *)

LEMMA InitOff == Init => OffInv
BY DEF Init, OffInv

\* An instance that moves takes the duty of turning DAMON off along, or it was not
\* its own.
LEMMA OffOne ==
  ASSUME OffInv, NEW i \in Instances, on' => on,
         \A j \in Instances \ {i} : pc'[j] = pc[j] /\ skipped'[j] = skipped[j],
         skipped[i] => skipped'[i],
         pc[i] \in BeforeOff => pc'[i] \in BeforeOff \/ skipped'[i]
  PROVE  OffInv'
BY DEF OffInv

LEMMA StepOff == TypeOK /\ OffInv /\ [Next]_vars => OffInv'
<1> SUFFICES ASSUME TypeOK, OffInv, [Next]_vars PROVE OffInv'
  OBVIOUS
<1>0. skipped \in [Instances -> BOOLEAN] /\ pc \in [Instances -> Places]
  BY Zenon DEF TypeOK
<1>1. ASSUME NEW i \in Instances, Launch(i) PROVE OffInv'
  BY <1>0, <1>1, OffOne DEF Launch, damon, Goto, BeforeOff, Parts
<1>2. ASSUME NEW i \in Instances, Parse(i) PROVE OffInv'
  BY <1>0, <1>2, OffOne DEF Parse, Goto, LeaveEarly, BeforeOff, Parts
<1>3. ASSUME NEW i \in Instances, Check(i) PROVE OffInv'
  BY <1>0, <1>3, OffOne, Ways DEF Check, damon, Goto, LeaveEarly, BeforeOff
<1>4. ASSUME NEW i \in Instances, Target(i) PROVE OffInv'
  BY <1>0, <1>4, OffOne, Ways DEF Target, Wrote, Goto, BeforeOff
<1>5. ASSUME NEW i \in Instances, TurnOn(i) PROVE OffInv'
  BY <1>0, <1>5, Ways DEF TurnOn, Wrote, Goto, BeforeOff, OffInv
<1>6. ASSUME NEW i \in Instances, Detect(i) PROVE OffInv'
  BY <1>0, <1>6, OffOne DEF Detect, damon, Goto, LeaveEarly, BeforeOff, Parts
<1>7. ASSUME NEW i \in Instances, NEW part \in Parts, InitPart(i, part) PROVE OffInv'
  <2>1. on' = on /\ pc[i] = part
    BY <1>7, Zenon DEF InitPart, damon
  <2>2. CASE Goto(i, NextPart[part]) /\ UNCHANGED skipped
    BY <1>0, <2>1, <2>2, OffOne, InitWays DEF Goto, BeforeOff
  <2>3. CASE /\ Goto(i, Label(part))
             /\ skipped' = [skipped EXCEPT ![i] = Label(part) \notin {"L_EXIT7", "L_EXIT5"}]
    <3>1. CASE Label(part) \in {"L_EXIT7", "L_EXIT5"}
      <4>1. pc'[i] \in BeforeOff
        BY <1>0, <2>3, <3>1 DEF Goto, BeforeOff
      <4>2. \A j \in Instances \ {i} : pc'[j] = pc[j]
        BY <1>0, <2>3 DEF Goto
      <4>3. \A j \in Instances \ {i} : skipped'[j] = skipped[j]
        BY <1>0, <2>3, Zenon
      <4> QED
        BY <2>1, <4>1, <4>2, <4>3 DEF OffInv
    <3>2. CASE Label(part) \notin {"L_EXIT7", "L_EXIT5"}
      <4>1. skipped' = [skipped EXCEPT ![i] = TRUE]
        BY <2>3, <3>2, Zenon
      <4> QED
        BY <1>0, <4>1 DEF OffInv
    <3> QED
      BY <3>1, <3>2
  <2> QED
    BY <1>7, <2>2, <2>3, Zenon DEF InitPart
<1>8. ASSUME NEW i \in Instances, AutoStart(i) PROVE OffInv'
  BY <1>0, <1>8, OffOne DEF AutoStart, damon, Goto, BeforeOff
<1>9. ASSUME NEW i \in Instances, Quit(i) PROVE OffInv'
  BY <1>0, <1>9, OffOne DEF Quit, damon, Goto, BeforeOff
<1>10. ASSUME NEW i \in Instances, Fini(i) PROVE OffInv'
  <2>1. pc'[i] \in BeforeOff \/ pc[i] \notin BeforeOff
    BY <1>0, <1>10, Ways DEF Fini, Goto, BeforeOff, Parts
  <2> QED
    BY <1>0, <1>10, <2>1, OffOne DEF Fini, damon, Goto
<1>11. ASSUME NEW i \in Instances, ReadOn(i) PROVE OffInv'
  BY <1>0, <1>11, Ways DEF ReadOn, damon, Goto, BeforeOff, OffInv
<1>12. ASSUME NEW i \in Instances, TurnOff(i) PROVE OffInv'
  BY <1>12 DEF TurnOff, OffInv
<1>13. ASSUME NEW i \in Instances, Restore(i) PROVE OffInv'
  BY <1>0, <1>13, OffOne DEF Restore, Goto, BeforeOff, Parts
<1>14. ASSUME NEW i \in Instances, Kill(i) PROVE OffInv'
  BY <1>0, <1>14 DEF Kill, damon, LeaveEarly, Goto, OffInv
<1>15. CASE UNCHANGED vars
  BY <1>15 DEF vars, damon, mine, OffInv
<1> QED
  BY <1>1, <1>2, <1>3, <1>4, <1>5, <1>6, <1>7, <1>8, <1>9, <1>10, <1>11, <1>12, <1>13,
     <1>14, <1>15 DEF Next, Instance, Terminated

\* However many instances turned DAMON on and off, in whatever order: it is off when
\* all have ended and every way out passed monitor_exit (monitor_start, monitor_exit).
THEOREM AlwaysOffAtTheEnd == Spec => []OffAtTheEnd
<1>1. OffInv => OffAtTheEnd
  BY DEF OffInv, OffAtTheEnd, AllEnded, BeforeOff, Parts
<1> QED
  BY <1>1, InitTypes, StepTypes, InitOff, StepOff, PTL DEF Spec

-----------------------------------------------------------------------------
(* The attributes *)

\* Instances ran one after the other, and none was killed or left early.
Tidy == ~overlap /\ \A i \in Instances : ~skipped[i]

BeforeAttrs == BeforeOff \cup {"attrs"}

\* Then one instance at most is alive, it has read the attributes as they were, and
\* only one that wrote them, and will write them back, explains that they differ.
AttrsInv ==
  Tidy =>
    /\ \A i, j \in Instances : Live(i) /\ Live(j) => i = j
    /\ found = "orig" => \A i \in Instances : Live(i) => orig[i] = "orig"
    /\ found = "orig" /\ attrs # "orig" =>
         \E i \in Instances : opt[i].reg /\ pc[i] \in BeforeAttrs

\* What has been skipped is not taken up again.
SkippedInv ==
  \A i \in Instances :
    skipped[i] => pc[i] \in {"ended", "L_EXIT4", "L_EXIT3", "L_EXIT2", "L_EXIT1"}

LEMMA InitSkipped == Init => SkippedInv
BY DEF Init, SkippedInv

LEMMA StepSkipped == TypeOK /\ SkippedInv /\ [Next]_vars => SkippedInv'
<1> SUFFICES ASSUME TypeOK, SkippedInv, [Next]_vars PROVE SkippedInv'
  OBVIOUS
<1>0. skipped \in [Instances -> BOOLEAN] /\ pc \in [Instances -> Places]
  BY Zenon DEF TypeOK
<1> USE DEF SkippedInv, Goto
<1>1. ASSUME NEW i \in Instances,
             Launch(i) \/ Target(i) \/ TurnOn(i) \/ AutoStart(i) \/ Quit(i) \/ ReadOn(i)
             \/ TurnOff(i) \/ Restore(i)
      PROVE  SkippedInv'
  BY <1>0, <1>1, Ways DEF Launch, Target, TurnOn, Wrote, AutoStart, Quit, ReadOn, TurnOff, Restore
<1>2. ASSUME NEW i \in Instances, Parse(i) \/ Check(i) \/ Detect(i) \/ Kill(i) PROVE SkippedInv'
  BY <1>0, <1>2, Ways DEF Parse, Check, Detect, Kill, LeaveEarly
<1>3. ASSUME NEW i \in Instances, NEW part \in Parts, InitPart(i, part) PROVE SkippedInv'
  <2>1. pc[i] = part /\ ~skipped[i]
    BY <1>0, <1>3, Zenon DEF InitPart, Parts
  <2>2. CASE Goto(i, NextPart[part]) /\ UNCHANGED skipped
    BY <1>0, <2>1, <2>2
  <2>3. CASE Goto(i, Label(part)) /\ Label(part) \in {"L_EXIT7", "L_EXIT5"}
             /\ skipped' = [skipped EXCEPT ![i] = FALSE]
    BY <1>0, <2>1, <2>3
  <2>4. CASE Goto(i, Label(part)) /\ Label(part) \notin {"L_EXIT7", "L_EXIT5"}
             /\ skipped' = [skipped EXCEPT ![i] = TRUE]
    BY <1>0, <2>1, <2>4, InitWays
  <2>5. CASE /\ Goto(i, Label(part))
             /\ skipped' = [skipped EXCEPT ![i] = Label(part) \notin {"L_EXIT7", "L_EXIT5"}]
    <3>1. CASE Label(part) \in {"L_EXIT7", "L_EXIT5"}
      BY <2>3, <2>5, <3>1, Zenon
    <3>2. CASE Label(part) \notin {"L_EXIT7", "L_EXIT5"}
      BY <2>4, <2>5, <3>2, Zenon
    <3> QED
      BY <3>1, <3>2
  <2> QED
    BY <1>3, <2>2, <2>5, Zenon DEF InitPart
<1>4. ASSUME NEW i \in Instances, Fini(i) PROVE SkippedInv'
  BY <1>0, <1>4, FiniWays, Ways DEF Fini
<1>5. CASE UNCHANGED vars
  BY <1>5 DEF vars, mine
<1> QED
  BY <1>1, <1>2, <1>3, <1>4, <1>5 DEF Next, Instance, Terminated

LEMMA InitAttrs == Init => AttrsInv
BY DEF Init, AttrsInv, Live

\* An instance that only goes on.
LEMMA AttrsOne ==
  ASSUME AttrsInv, NEW i \in Instances, Live(i), Tidy' => Tidy,
         attrs' = attrs, orig' = orig, found' = found,
         \A j \in Instances \ {i} : pc'[j] = pc[j] /\ opt'[j] = opt[j],
         opt'[i].reg = opt[i].reg,
         Tidy' /\ pc[i] \in BeforeAttrs => pc'[i] \in BeforeAttrs \/ attrs = "orig"
  PROVE  AttrsInv'
BY DEF AttrsInv, Live

LEMMA StepAttrs == TypeOK /\ OffInv /\ SkippedInv /\ AttrsInv /\ [Next]_vars => AttrsInv'
<1> SUFFICES ASSUME TypeOK, OffInv, SkippedInv, AttrsInv, [Next]_vars PROVE AttrsInv'
  OBVIOUS
<1>0. /\ skipped \in [Instances -> BOOLEAN] /\ pc \in [Instances -> Places]
      /\ opt \in [Instances -> Options] /\ orig \in [Instances -> Attrs]
  BY Zenon DEF TypeOK
<1>1. ASSUME NEW i \in Instances, Launch(i) PROVE AttrsInv'
  <2> SUFFICES ASSUME Tidy' PROVE AttrsInv'
    BY DEF AttrsInv
  <2>1. PICK v \in ReadAs(attrs) :
          /\ orig' = [orig EXCEPT ![i] = v]
          /\ Goto(i, "parse") \/ (v = "cut" /\ Goto(i, "ended"))
    BY <1>1, Zenon DEF Launch
  <2>2. /\ Tidy /\ \A j \in Instances : ~Live(j)
        /\ found' = found /\ attrs' = attrs /\ opt' = opt
    BY <1>1 DEF Launch, damon, Tidy
  <2>3. found = "orig" => attrs = "orig"
    BY <2>2 DEF AttrsInv, Live, BeforeAttrs, BeforeOff, Parts
  <2>4. /\ \A j \in Instances : Live(j)' => j = i
        /\ orig'[i] = v
    BY <1>0, <2>1, <2>2 DEF Goto, Live
  <2>5. found = "orig" => v = "orig"
    BY <2>1, <2>3 DEF ReadAs
  <2> QED
    BY <2>2, <2>3, <2>4, <2>5 DEF AttrsInv
<1>2. ASSUME NEW i \in Instances, Parse(i) PROVE AttrsInv'
  <2> SUFFICES ASSUME Tidy' PROVE AttrsInv'
    BY DEF AttrsInv
  <2>1. pc[i] = "parse" /\ Live(i) /\ ~skipped'[i]
    BY <1>2 DEF Parse, Live, Tidy
  <2>2. PICK o \in Options :
          /\ opt' = [opt EXCEPT ![i] = o]
          /\ (o.reg /\ WriteAttrs(i)) \/ UNCHANGED attrs
          /\ Goto(i, IF o.pid THEN "check" ELSE "plat") /\ UNCHANGED skipped
    BY <1>0, <1>2, <2>1, Zenon DEF Parse, LeaveEarly
  <2>3. Tidy /\ orig' = orig /\ found' = found
    BY <1>2, <2>2 DEF Parse, Tidy
  <2>4. found = "orig" => attrs = "orig"
    BY <2>1, <2>3 DEF AttrsInv, Live, BeforeAttrs, BeforeOff, Parts
  <2>5. /\ \A j \in Instances : Live(j) => j = i
        /\ pc'[i] \in BeforeAttrs /\ \A j \in Instances \ {i} : pc'[j] = pc[j]
        /\ found = "orig" => orig'[i] = "orig"
    BY <1>0, <2>1, <2>2, <2>3 DEF AttrsInv, Goto, BeforeAttrs, BeforeOff
  <2>6. found = "orig" /\ attrs' # "orig" => opt'[i].reg
    BY <1>0, <2>2, <2>4
  <2> QED
    BY <2>3, <2>5, <2>6 DEF AttrsInv, Live
<1>3. ASSUME NEW i \in Instances, Check(i) \/ Target(i) \/ TurnOn(i) PROVE AttrsInv'
  BY <1>0, <1>3, AttrsOne, Ways
     DEF Check, Target, TurnOn, Wrote, damon, Goto, LeaveEarly, Tidy, Live, BeforeAttrs, BeforeOff
<1>4. ASSUME NEW i \in Instances, Detect(i) PROVE AttrsInv'
  BY <1>0, <1>4, AttrsOne
     DEF Detect, damon, Goto, LeaveEarly, Tidy, Live, BeforeAttrs, BeforeOff, Parts
<1>5. ASSUME NEW i \in Instances, NEW part \in Parts, InitPart(i, part) PROVE AttrsInv'
  <2> SUFFICES ASSUME Tidy' PROVE AttrsInv'
    BY DEF AttrsInv
  <2>1. pc[i] = part /\ Live(i) /\ ~skipped'[i] /\ attrs' = attrs /\ orig' = orig /\ opt' = opt
        /\ overlap' = overlap /\ found' = found
    BY <1>5, Zenon DEF InitPart, damon, Live, Tidy, Parts
  <2>2. Tidy /\ pc'[i] \in BeforeAttrs /\ \A j \in Instances \ {i} : pc'[j] = pc[j]
    <3>1. CASE Goto(i, NextPart[part]) /\ UNCHANGED skipped
      BY <1>0, <2>1, <3>1, InitWays DEF Goto, Tidy, BeforeAttrs, BeforeOff
    <3>2. CASE /\ Goto(i, Label(part))
               /\ skipped' = [skipped EXCEPT ![i] = Label(part) \notin {"L_EXIT7", "L_EXIT5"}]
      <4>1. Label(part) \in {"L_EXIT7", "L_EXIT5"}
        BY <1>0, <2>1, <3>2, Zenon
      <4>2. skipped' = [skipped EXCEPT ![i] = FALSE]
        BY <3>2, <4>1, Zenon
      <4>3. ~skipped[i]
        BY <2>1 DEF SkippedInv, Parts
      <4> QED
        BY <1>0, <2>1, <3>2, <4>1, <4>2, <4>3 DEF Goto, Tidy, BeforeAttrs, BeforeOff
    <3> QED
      BY <1>5, <3>1, <3>2, Zenon DEF InitPart
  <2> QED
    BY <2>1, <2>2, AttrsOne
<1>6. ASSUME NEW i \in Instances, AutoStart(i) PROVE AttrsInv'
  <2>1. opt'[i].reg = opt[i].reg /\ \A j \in Instances \ {i} : opt'[j] = opt[j]
    BY <1>0, <1>6 DEF AutoStart, Options
  <2> QED
    BY <1>0, <1>6, <2>1, AttrsOne DEF AutoStart, damon, Goto, Tidy, Live, BeforeAttrs, BeforeOff
<1>7. ASSUME NEW i \in Instances, Quit(i) PROVE AttrsInv'
  BY <1>0, <1>7, AttrsOne DEF Quit, damon, Goto, Tidy, Live, BeforeAttrs, BeforeOff
<1>8. ASSUME NEW i \in Instances, Fini(i) PROVE AttrsInv'
  BY <1>0, <1>8, AttrsOne, Ways
     DEF Fini, damon, Goto, Tidy, Live, BeforeAttrs, BeforeOff, Parts
<1>9. ASSUME NEW i \in Instances, ReadOn(i) PROVE AttrsInv'
  BY <1>0, <1>9, AttrsOne, Ways DEF ReadOn, damon, Goto, Tidy, Live, BeforeAttrs, BeforeOff
<1>10. ASSUME NEW i \in Instances, TurnOff(i) PROVE AttrsInv'
  BY <1>0, <1>10, AttrsOne, Ways DEF TurnOff, Goto, Tidy, Live, BeforeAttrs, BeforeOff
<1>11. ASSUME NEW i \in Instances, Restore(i) PROVE AttrsInv'
  <2> SUFFICES ASSUME Tidy' PROVE AttrsInv'
    BY DEF AttrsInv
  <2>1. /\ pc[i] = "attrs" /\ pc' = [pc EXCEPT ![i] = "group_fini"] /\ opt' = opt
        /\ orig' = orig /\ found' = found /\ Tidy
        /\ \/ opt[i].reg /\ WriteAttrs(orig[i])
           \/ (~opt[i].reg \/ orig[i] = "cut") /\ UNCHANGED attrs
    BY <1>11, Ways DEF Restore, Goto, Tidy
  <2>2. Live(i) /\ \A j \in Instances : Live(j) => j = i
    BY <2>1 DEF AttrsInv, Live
  <2>3. ~on
    BY <2>1, <2>2 DEF OffInv, Tidy, Live, BeforeOff, Parts
  <2>4. found = "orig" => orig[i] = "orig" /\ (attrs # "orig" => opt[i].reg)
    BY <2>1, <2>2 DEF AttrsInv, Live, BeforeAttrs, BeforeOff, Parts
  <2>5. found = "orig" => attrs' = "orig"
    BY <2>1, <2>3, <2>4 DEF WriteAttrs
  <2> QED
    BY <1>0, <2>1, <2>2, <2>4, <2>5 DEF AttrsInv, Live
<1>12. ASSUME NEW i \in Instances, Kill(i) PROVE AttrsInv'
  BY <1>0, <1>12 DEF Kill, LeaveEarly, AttrsInv, Tidy
<1>13. CASE UNCHANGED vars
  BY <1>13 DEF vars, damon, mine, AttrsInv, Tidy, Live
<1> QED
  BY <1>1, <1>2, <1>3, <1>4, <1>5, <1>6, <1>7, <1>8, <1>9, <1>10, <1>11, <1>12, <1>13
     DEF Next, Instance, Terminated

\* For any number of instances: when all have ended through monitor_exit, one after the
\* other, the attributes are what they were (write_damon_attrs, monitor_exit).
THEOREM AttrsAlwaysRestored == Spec => []AttrsAtTheEnd
<1>1. TypeOK /\ AttrsInv => AttrsAtTheEnd
  BY DEF TypeOK, AttrsInv, AttrsAtTheEnd, Tidy, AllEnded, BeforeAttrs, BeforeOff, Parts
<1> QED
  BY <1>1, InitTypes, StepTypes, InitOff, StepOff, InitSkipped, StepSkipped,
     InitAttrs, StepAttrs, PTL DEF Spec

\* For any number of instances: DAMON is left as it was found (the calls behind
\* L_EXIT5).
THEOREM DamonAlwaysAsFound == Spec => []DamonAsFound
<1>1. OffAtTheEnd /\ AttrsAtTheEnd => DamonAsFound
  BY DEF DamonAsFound
<1> QED
  BY <1>1, AlwaysOffAtTheEnd, AttrsAlwaysRestored, PTL

-----------------------------------------------------------------------------
(* The targets *)

\* While instances keep apart, the one that is alive finds DAMON off when it writes the
\* targets, writes them before it turns DAMON on unless they are refused, and nobody
\* has written them since.
TargetsInv ==
  Tidy => \A i \in Instances :
    /\ pc[i] = "target" => ~on
    /\ Live(i) /\ (on \/ pc[i] = "start") => targets = i \/ refused[i]

LEMMA TargetsOne ==
  ASSUME TargetsInv, NEW i \in Instances, Live(i), Tidy' => Tidy,
         on' => on, targets' = targets, refused' = refused,
         \A j \in Instances \ {i} : pc'[j] = pc[j],
         pc'[i] # "start", pc'[i] = "target" => ~on
  PROVE  TargetsInv'
BY DEF TargetsInv, Live

LEMMA StepTargets ==
  TypeOK /\ OffInv /\ SkippedInv /\ AttrsInv /\ TargetsInv /\ [Next]_vars => TargetsInv'
<1> SUFFICES ASSUME TypeOK, OffInv, SkippedInv, AttrsInv, TargetsInv, [Next]_vars
             PROVE  TargetsInv'
  OBVIOUS
<1>0. skipped \in [Instances -> BOOLEAN] /\ pc \in [Instances -> Places]
  BY Zenon DEF TypeOK
<1>00. refused \in [Instances -> BOOLEAN]
  BY Zenon DEF TypeOK
<1>1. ASSUME NEW i \in Instances, Launch(i) PROVE TargetsInv'
  BY <1>0, <1>1
     DEF Launch, damon, Goto, TargetsInv, OffInv, BeforeOff, Parts, Tidy, Live
<1>2. ASSUME NEW i \in Instances, Parse(i) \/ Check(i) \/ Detect(i) PROVE TargetsInv'
  BY <1>0, <1>2, TargetsOne, Ways
     DEF Parse, Check, Detect, damon, Goto, LeaveEarly, Tidy, Live
<1>3. ASSUME NEW i \in Instances, Target(i) PROVE TargetsInv'
  <2>1. PICK gone \in BOOLEAN :
          /\ targets' = IF on \/ gone THEN targets ELSE i
          /\ refused' = [refused EXCEPT ![i] = gone]
    BY <1>3, Zenon DEF Target
  <2>2. /\ pc[i] = "target" /\ Live(i) /\ pc' = [pc EXCEPT ![i] = "start"] /\ on' = on
        /\ Tidy' => Tidy
    BY <1>3, Ways DEF Target, Wrote, Goto, Live, Tidy
  <2>3. Tidy => ~on /\ \A j \in Instances : Live(j) => j = i
    BY <2>2 DEF AttrsInv, TargetsInv
  <2>4. Tidy => targets' = i \/ refused'[i]
    <3>1. CASE gone
      BY <1>00, <2>1, <3>1, Zenon
    <3>2. CASE ~gone
      BY <2>1, <2>3, <3>2, Zenon
    <3> QED BY <3>1, <3>2
  <2>5. \A j \in Instances : j # i => ~Live(j)' \/ ~Tidy
    BY <1>0, <2>2, <2>3 DEF Live
  <2>6. \A j \in Instances : pc'[j] = "target" => ~Tidy
    BY <1>0, <2>2, <2>3 DEF Live
  <2> QED
    BY <2>2, <2>4, <2>5, <2>6 DEF TargetsInv
<1>4. ASSUME NEW i \in Instances, TurnOn(i) PROVE TargetsInv'
  <2>1. /\ Live(i) /\ pc[i] = "start" /\ (Tidy' => Tidy)
        /\ targets' = targets /\ refused' = refused
        /\ pc'[i] \in {"run", "plat"} /\ \A j \in Instances \ {i} : pc'[j] = pc[j]
    BY <1>0, <1>4, Ways DEF TurnOn, Wrote, Goto, Live, Tidy
  <2>2. Tidy => (targets = i \/ refused[i]) /\ \A j \in Instances : Live(j) => j = i
    BY <2>1 DEF AttrsInv, TargetsInv
  <2> QED
    BY <2>1, <2>2 DEF TargetsInv, Live
<1>5. ASSUME NEW i \in Instances, NEW part \in Parts, InitPart(i, part) PROVE TargetsInv'
  <2>1. /\ pc[i] = part /\ Live(i) /\ ~skipped[i] /\ on' = on /\ targets' = targets
        /\ refused' = refused /\ overlap' = overlap
    BY <1>0, <1>5, Zenon DEF InitPart, damon, Live, Parts, SkippedInv
  <2>2. /\ pc'[i] \notin {"start", "target"} /\ \A j \in Instances \ {i} : pc'[j] = pc[j]
    <3>1. \A place \in {NextPart[part], Label(part)} :
            Goto(i, place) => /\ pc'[i] \notin {"start", "target"}
                              /\ \A j \in Instances \ {i} : pc'[j] = pc[j]
      BY <1>0, InitWays DEF Goto, Parts
    <3> QED
      BY <1>5, <3>1, Zenon DEF InitPart
  <2>3. Tidy' => Tidy
    <3>1. \A j \in Instances \ {i} : skipped'[j] = skipped[j]
      BY <1>0, <1>5, Zenon DEF InitPart
    <3> QED
      BY <2>1, <3>1, Zenon DEF Tidy
  <2> QED
    BY <2>1, <2>2, <2>3, TargetsOne
<1>6. ASSUME NEW i \in Instances, AutoStart(i) \/ Quit(i) \/ ReadOn(i) \/ TurnOff(i) \/ Restore(i)
      PROVE  TargetsInv'
  BY <1>0, <1>6, TargetsOne, Ways
     DEF AutoStart, Quit, ReadOn, TurnOff, Restore, damon, Goto, Tidy, Live
<1>7. ASSUME NEW i \in Instances, Fini(i) PROVE TargetsInv'
  BY <1>0, <1>7, TargetsOne, FiniWays DEF Fini, damon, Goto, Tidy, Live
<1>8. ASSUME NEW i \in Instances, Kill(i) PROVE TargetsInv'
  BY <1>0, <1>8 DEF Kill, LeaveEarly, TargetsInv, Tidy
<1>9. CASE UNCHANGED vars
  BY <1>9 DEF vars, damon, mine, TargetsInv, Tidy, Live
<1> QED
  BY <1>1, <1>2, <1>3, <1>4, <1>5, <1>6, <1>7, <1>8, <1>9 DEF Next, Instance, Terminated

\* For any number of instances: one that has kept to itself, and whose processes the
\* kernel took, watches its own processes (monitor_start).
THEOREM AlwaysOwnTargets == Spec => []OwnTargets
<1>1. Init => TargetsInv
  BY DEF Init, TargetsInv, Live
<1>2. TargetsInv => OwnTargets
  BY DEF TargetsInv, OwnTargets, Tidy, Live
<1> QED
  BY <1>1, <1>2, InitTypes, StepTypes, InitOff, StepOff, InitSkipped, StepSkipped,
     InitAttrs, StepAttrs, StepTargets, PTL DEF Spec
=============================================================================
