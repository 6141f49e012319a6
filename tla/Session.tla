-------------------------------- MODULE Session --------------------------------
(***************************************************************************)
(* main of datop.c from the options to the exit labels, and what it does   *)
(* to DAMON, which belongs to the machine and not to the process: several  *)
(* instances may run, because os_damontop_lock is a stub on Linux.         *)
(*                                                                         *)
(* DAMON is external.  Its control files are modelled as monitor_start,    *)
(* monitor_exit and write_damon_attrs use them: targets and attributes     *)
(* cannot be written while it is on.  They are written by `echo' through   *)
(* system(), and nobody looks at what became of it.                        *)
(***************************************************************************)
EXTENDS Sequences

CONSTANTS
  Instances,  \* processes that run datop
  MayFail     \* initialisations that may fail

VARIABLES
  on,       \* monitor_on
  targets,  \* the instance whose pids are in target_ids
  attrs,    \* attrs: as found, the instance whose -r wrote them, or "cut"
  pc,       \* where main of each instance is
  opt,      \* its options: -p or -g, -r, and whether it picks its targets itself
  orig,     \* the attributes it read when it started
  up,       \* what it has initialised
  refused,  \* a target_ids it wrote last was refused for what it said
  skipped,  \* it was killed, or its way out does not pass monitor_exit
  overlap,  \* two instances ran at once
  found     \* attrs before the first instance

damon == <<on, targets, attrs>>
mine == <<pc, opt, orig, up, refused, skipped>>
vars == <<damon, mine, overlap, found>>

\* What is initialised, and what comes after it.  perf and disp are taken down by the
\* display thread.
NextPart == [debug |-> "dump", dump |-> "map", map |-> "group", group |-> "cons",
             cons |-> "perf", perf |-> "disp", disp |-> "run"]
Parts == {"debug", "dump", "map", "group", "cons", "perf", "disp"}

\* The exit labels, and the calls behind L_EXIT5.
Exits == {"L_EXIT7", "L_EXIT5", "off", "attrs", "group_fini", "L_EXIT4", "L_EXIT3",
          "L_EXIT2", "L_EXIT1"}
Places == {"new", "parse", "check", "target", "start", "plat", "run", "ended"}
          \cup Parts \cup Exits

\* The five numbers of attrs: "long" when they do not fit into the buffer of
\* read_damon_attrs, "cut" what it then takes them for.
Attrs == Instances \cup {"orig", "long", "cut"}
Options == [pid : BOOLEAN, reg : BOOLEAN, auto : BOOLEAN]

TypeOK ==
  /\ on \in BOOLEAN /\ targets \in Instances \cup {"orig"}
  /\ attrs \in Attrs /\ found \in {"orig", "long"}
  /\ pc \in [Instances -> Places]
  /\ opt \in [Instances -> Options]
  /\ orig \in [Instances -> Attrs]
  /\ up \in [Instances -> SUBSET Parts]
  /\ refused \in [Instances -> BOOLEAN]
  /\ skipped \in [Instances -> BOOLEAN] /\ overlap \in BOOLEAN

Init ==
  /\ on = FALSE /\ targets = "orig"
  /\ found \in {"orig", "long"} /\ attrs = found
  /\ pc = [i \in Instances |-> "new"]
  /\ opt = [i \in Instances |-> [pid |-> FALSE, reg |-> FALSE, auto |-> FALSE]]
  /\ orig = [i \in Instances |-> "orig"]
  /\ up = [i \in Instances |-> {}]
  /\ refused = [i \in Instances |-> FALSE]
  /\ skipped = [i \in Instances |-> FALSE] /\ overlap = FALSE

Live(i) == pc[i] \notin {"new", "ended"}
Goto(i, place) == pc' = [pc EXCEPT ![i] = place]
WriteAttrs(v) == attrs' = IF on THEN attrs ELSE v

\* L_EXIT0
LeaveEarly(i) == Goto(i, "ended") /\ skipped' = [skipped EXCEPT ![i] = TRUE]

-----------------------------------------------------------------------------
(* Options *)

\* read_damon_attrs: a cut in the last number gives another one, a cut before it ends
\* the program at the missing token.
ReadAs(v) == CASE v = "orig" -> {v} [] v = "long" -> {"cut"} [] OTHER -> {v, "cut"}

Launch(i) ==
  /\ pc[i] = "new"
  /\ \E v \in ReadAs(attrs) :
       /\ orig' = [orig EXCEPT ![i] = v]
       /\ Goto(i, "parse") \/ (v = "cut" /\ Goto(i, "ended"))
  /\ overlap' = (overlap \/ \E j \in Instances : Live(j))
  /\ UNCHANGED <<damon, opt, up, refused, skipped, found>>

\* getopt: -r writes the attributes at once; the kernel may not accept them.  A later
\* option may be wrong, and any option without -p or -g is refused.
Parse(i) ==
  /\ pc[i] = "parse"
  /\ \E o \in Options, valid \in BOOLEAN :
       /\ ~o.pid => o.auto
       /\ opt' = [opt EXCEPT ![i] = o]
       /\ (o.reg /\ WriteAttrs(i)) \/ UNCHANGED attrs
       /\ IF valid /\ (o.pid \/ ~o.reg)
          THEN Goto(i, IF o.pid THEN "check" ELSE "plat") /\ UNCHANGED skipped
          ELSE LeaveEarly(i)
  /\ UNCHANGED <<on, targets, orig, up, refused, overlap, found>>

-----------------------------------------------------------------------------
(* monitor_start: from main with -p, and from the home page (proc_monitor)  *)

Running(i) == "disp" \in up[i]

\* (faulty) DAMON is turned on before it has its targets
OnFirst == <<"start", "target">>
\* the two control files monitor_start writes
Writes == <<"target", "start">>
Wrote(i) ==
  Goto(i, IF pc[i] = Writes[1] THEN Writes[2] ELSE IF Running(i) THEN "run" ELSE "plat")

\* A process may be gone, and DAMON may be on.  main gives up, proc_monitor does not.
Check(i) ==
  /\ pc[i] = "check"
  /\ \/ ~on /\ Goto(i, Writes[1]) /\ UNCHANGED skipped
     \/ IF Running(i) THEN Goto(i, "run") /\ UNCHANGED skipped ELSE LeaveEarly(i)
  /\ UNCHANGED <<damon, opt, orig, up, refused, overlap, found>>

\* The kernel takes all pids or none: one may have gone since Check, and then the
\* targets stay those of before.
Target(i) ==
  /\ pc[i] = "target" /\ Wrote(i)
  /\ \E gone \in BOOLEAN :
       /\ targets' = IF on \/ gone THEN targets ELSE i
       /\ refused' = [refused EXCEPT ![i] = gone]
  /\ UNCHANGED <<on, attrs, opt, orig, up, skipped, overlap, found>>

\* The kernel does not start on targets that have gone.
TurnOn(i) ==
  /\ pc[i] = "start" /\ Wrote(i)
  /\ on' = TRUE \/ UNCHANGED on
  /\ UNCHANGED <<targets, attrs, opt, orig, up, refused, skipped, overlap, found>>

\* plat_detect and os_damontop_lock
Detect(i) ==
  /\ pc[i] = "plat"
  /\ \/ Goto(i, "debug") /\ UNCHANGED skipped
     \/ "plat" \in MayFail /\ LeaveEarly(i)
  /\ UNCHANGED <<damon, opt, orig, up, refused, overlap, found>>

-----------------------------------------------------------------------------
(* Initialisation *)

\* (faulty) one label too far down
LabelBelow(part) ==
  CASE part = "dump" -> "L_EXIT1" [] part = "map" -> "L_EXIT2"
    [] part = "group" -> "L_EXIT3" [] part = "cons" -> "L_EXIT4"
    [] part \in {"perf", "disp"} -> "L_EXIT5" [] OTHER -> "L_EXIT1"
\* (faulty) disp_init fails as if it had been up
LabelAbove(part) ==
  CASE part = "debug" -> "L_EXIT2" [] part = "dump" -> "L_EXIT3"
    [] part = "map" -> "L_EXIT4" [] part = "group" -> "L_EXIT5" [] OTHER -> "L_EXIT7"
\* the label a failed initialisation jumps to
Label(part) ==
  CASE part = "debug" -> "L_EXIT1" [] part = "dump" -> "L_EXIT2"
    [] part = "map" -> "L_EXIT3" [] part = "group" -> "L_EXIT4"
    [] part = "cons" -> "L_EXIT5" [] part \in {"perf", "disp"} -> "L_EXIT7"

\* A failed disp_init takes perf down; a failed perf_init has done so itself.
InitPart(i, part) ==
  /\ pc[i] = part
  /\ \/ /\ up' = [up EXCEPT ![i] = @ \cup {part}]
        /\ Goto(i, NextPart[part])
        /\ UNCHANGED skipped
     \/ /\ part \in MayFail
        /\ up' = [up EXCEPT ![i] = @ \ {"perf"}]
        /\ Goto(i, Label(part))
        /\ skipped' = [skipped EXCEPT ![i] = Label(part) \notin {"L_EXIT7", "L_EXIT5"}]
  /\ UNCHANGED <<damon, opt, orig, refused, overlap, found>>

\* the home page has been shown long enough to pick the busiest processes
AutoStart(i) ==
  /\ pc[i] = "run" /\ opt[i].auto
  /\ opt' = [opt EXCEPT ![i].auto = FALSE]
  /\ Goto(i, "check")
  /\ UNCHANGED <<damon, orig, up, refused, skipped, overlap, found>>

\* The display thread has ended, and perf with it: disp_fini.
Quit(i) ==
  /\ pc[i] = "run" /\ Goto(i, "L_EXIT7")
  /\ up' = [up EXCEPT ![i] = @ \ {"perf", "disp"}]
  /\ UNCHANGED <<damon, opt, orig, refused, skipped, overlap, found>>

-----------------------------------------------------------------------------
(* The exit labels *)

\* What the call at a place takes down.
Frees(place) ==
  CASE place = "L_EXIT7" -> {"cons"} [] place = "group_fini" -> {"group"}
    [] place = "L_EXIT4" -> {"map"} [] place = "L_EXIT3" -> {"dump"}
    [] place = "L_EXIT2" -> {"debug"} [] OTHER -> {}

\* (faulty) the attributes are restored before DAMON is turned off
AttrsFirst == [L_EXIT7 |-> "attrs", attrs |-> "L_EXIT5", L_EXIT5 |-> "off",
               off |-> "group_fini", group_fini |-> "L_EXIT4", L_EXIT4 |-> "L_EXIT3",
               L_EXIT3 |-> "L_EXIT2", L_EXIT2 |-> "L_EXIT1", L_EXIT1 |-> "ended"]
\* (faulty) one label more than there is
OneMore == [L_EXIT7 |-> "L_EXIT5", L_EXIT5 |-> "off", off |-> "attrs",
            attrs |-> "group_fini", group_fini |-> "L_EXIT4", L_EXIT4 |-> "L_EXIT3",
            L_EXIT3 |-> "L_EXIT2", L_EXIT2 |-> "L_EXIT1", L_EXIT1 |-> "L_EXIT0"]
After == [L_EXIT7 |-> "L_EXIT5", L_EXIT5 |-> "off", off |-> "attrs",
          attrs |-> "group_fini", group_fini |-> "L_EXIT4", L_EXIT4 |-> "L_EXIT3",
          L_EXIT3 |-> "L_EXIT2", L_EXIT2 |-> "L_EXIT1", L_EXIT1 |-> "ended"]

Fini(i) ==
  /\ pc[i] \in {"L_EXIT7", "group_fini", "L_EXIT4", "L_EXIT3", "L_EXIT2", "L_EXIT1"}
  /\ Goto(i, After[pc[i]])
  /\ up' = [up EXCEPT ![i] = @ \ Frees(pc[i])]
  /\ UNCHANGED <<damon, opt, orig, refused, skipped, overlap, found>>

\* monitor_exit reads monitor_on, and writes it if it was on
ReadOn(i) ==
  /\ pc[i] = "L_EXIT5" /\ Goto(i, IF on THEN After.L_EXIT5 ELSE After.off)
  /\ UNCHANGED <<damon, opt, orig, up, refused, skipped, overlap, found>>

TurnOff(i) ==
  /\ pc[i] = "off" /\ Goto(i, After.off)
  /\ on' = FALSE
  /\ UNCHANGED <<targets, attrs, opt, orig, up, refused, skipped, overlap, found>>

\* Only a number that was cut may be one the kernel does not accept.
Restore(i) ==
  /\ pc[i] = "attrs" /\ Goto(i, After.attrs)
  /\ \/ opt[i].reg /\ WriteAttrs(orig[i])
     \/ (~opt[i].reg \/ orig[i] = "cut") /\ UNCHANGED attrs
  /\ UNCHANGED <<on, targets, opt, orig, up, refused, skipped, overlap, found>>

\* a signal before the handlers are installed, or one that has none
Kill(i) ==
  /\ Live(i) /\ LeaveEarly(i)
  /\ up' = [up EXCEPT ![i] = {}]
  /\ UNCHANGED <<damon, opt, orig, refused, overlap, found>>

Instance(i) ==
  \/ Launch(i) \/ Parse(i) \/ Check(i) \/ Target(i) \/ TurnOn(i) \/ Detect(i)
  \/ (\E part \in Parts : InitPart(i, part)) \/ AutoStart(i) \/ Quit(i)
  \/ Fini(i) \/ ReadOn(i) \/ TurnOff(i) \/ Restore(i) \/ Kill(i)

Terminated == (\A i \in Instances : pc[i] = "ended") /\ UNCHANGED vars

Next == (\E i \in Instances : Instance(i)) \/ Terminated

Spec == Init /\ [][Next]_vars

-----------------------------------------------------------------------------
AllEnded == \A i \in Instances : pc[i] \in {"new", "ended"}

\* An instance that has ended has taken down all it had initialised (the goto labels
\* of main).
AllDown == \A i \in Instances : pc[i] = "ended" => up[i] = {}

\* No call behind a label takes down what is not up (the goto labels of main).
OnlyWhatIsUp ==
  [][\A i \in Instances :
       pc'[i] \notin {pc[i], "ended"} => Frees(pc[i]) \subseteq up[i]]_vars

\* When every instance has ended and its way out passed monitor_exit, DAMON is off,
\* in whatever order they turned it on and off (monitor_start, monitor_exit).
OffAtTheEnd == AllEnded /\ on => \E i \in Instances : skipped[i]

\* An instance on its own watches its own processes, unless the kernel refused them:
\* then DAMON is turned on all the same, with the targets of before (monitor_start).
OwnTargets ==
  \A i \in Instances :
    on /\ pc[i] = "run" =>
      targets = i \/ refused[i] \/ overlap \/ \E j \in Instances : skipped[j]

\* When every instance has ended through monitor_exit, one after the other, the
\* attributes are what they were, if they could be read in the first place
\* (read_damon_attrs, write_damon_attrs, after monitor_exit).
AttrsAtTheEnd ==
  AllEnded /\ attrs # found =>
    overlap \/ found = "long" \/ \E i \in Instances : skipped[i]

\* DAMON is left as it was found, which takes the right order behind L_EXIT5: off
\* first, because the attributes of a running DAMON cannot be written
\* (monitor_exit, write_damon_attrs, main).
DamonAsFound == OffAtTheEnd /\ AttrsAtTheEnd
=============================================================================
