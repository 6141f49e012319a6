# Verification project for datop (data-profile-tools)

datop is a terminal tool in the style of `top`: it drives the kernel's DAMON
monitor for some processes, reads what DAMON reports through a perf tracepoint,
and shows processes, regions and NUMA placement as pages of a curses screen.
It is about nine thousand lines of C with three threads, five mutexes and
one-slot mailboxes between the threads. This directory models its control in
TLA+, checks the models with TLC and proves the main theorems with TLAPS.

## 1. Inventory

| Component | Code | State | Operations | Hard behaviour |
|---|---|---|---|---|
| main | `datop.c` | options, exit labels | start perf, disp, cons; join; restore | order of the joins; partial start-up |
| signal handler | `datop.c` 552-583, `disp.c` 236-244 | none | post QUIT; write `r` to the pipe | runs between any two steps |
| console thread | `disp.c` 561-686 | pipe | keys and pipe characters become commands | one-slot flag, overwritten |
| display thread | `disp.c` 397-555 | `flag`, `flag2`, `cmd`, pages | take the flag, run a command, draw | waits for perf with and without timeout |
| commands | `cmd.c`, `os_cmd.c`, `os_page.c` | none | switch table: pre-operation, operation | the pre-operation's failure is only a hint |
| page list | `page.c` | `head`, `tail`, `cur`, `next_run` | create, drop, execute, destroy windows | pending run, windows freed by a resize |
| perf thread | `perf.c`, `os_perf.c` | `task`, `status`, event | start, stop, sample, quit | one-slot task; condition wait that sleeps first |
| event ring | `pfwrapper.c` | `data_head`, `data_tail` | circular read, skip, reset | wrap-around, widths |
| process group | `proc.c` | hash table, `latest`, `nprocs`, references | refresh, find, release, sort | deferred free, pid reuse, walks by a counter |
| process maps | `proc_map.c` | sorted entries | load, find | order of entries |
| windows, regions | `win.c`, `os_win.c`, `reg.c` | scroll state; copies of what is drawn | draw, sort, scroll | arithmetic; locks held over waits; a sort beside the sampler |
| records | `os_perf.c` 57-157, `proc.c` 509-624, 842-920 | `countval_arr`, `nr_nonzero` of a process | store, merge, sort, match | two mutexes on one array |
| DAMON | `damon.c` | attributes, kdamond pids | write, refresh | restored on exit |
| utilities | `util.c`, `os_util.c` | dump cache, logs | parse, dump | buffer arithmetic |

How they interact. The console thread, the signal handler and the perf thread
write `s_disp_ctl.flag`; only the display thread clears it. The display thread
and main write `s_perf_ctl.task`; only the perf thread clears it. The perf
thread answers a start or a stop through `status` and a condition variable, a
sample through `flag` (most pages) or `flag2` (the detail page). The display
and the perf thread share the process group under its mutex.

What makes each correct: nobody waits for ever; a request that somebody waits
for is not overwritten; the perf event is closed exactly once; a page is shown
while perf is in the mode it needs; the program ends with nothing left; a
process structure is neither used after it is freed nor lost.

## 2. Modules

| Module | Models | How it corresponds |
|---|---|---|
| `PageStack` | what `page.c` promises | pages as a sequence whose last element is the current page; `next_run` is a flag on it |
| `DispPerf` | main, signals, console, display and perf thread (`disp.c`, `perf.c`, `cmd.c`, `os_perf.c`, `os_page.c`, `os_cmd.c`, the end of `datop.c`) | one action per critical section and the thread-local work up to the next shared access; `mpc`, `cpc`, `dpc`, `ppc` say where each thread is |
| `DispPerfProps` | properties of `DispPerf` | |
| `DispPerfProofs` | theorems on `DispPerf` | |
| `ProcGroup` | the hash table of `proc.c` and its references | one action per critical section of the group or the structure mutex |
| `ProcGroupProofs` | theorems on `ProcGroup` | |
| `PageList` | the pointers of `page.c` | memory as a function from addresses to `page_t`; refines `PageStack`, whose sequence is the chain from `head` to `cur` |
| `PageListProofs` | theorems on `PageList` | |
| `RingBuffer` (`MCRingBuffer`) | `pfwrapper.c` 50-118 and 243-422, with the kernel publishing | one action per read or skip of the ring; positions wrap at `IntMod` and `WordMod` as `int` and 64 bits do; each unit of the ring knows the record it is of |
| `RingBufferProofs` | theorems on `RingBuffer` | |
| `Session` | `main` from the options to the exit labels, `monitor_start` and `monitor_exit` of `proc.c`, the attributes of `damon.c`, of several instances | one action per initialisation, label and access to a control file of DAMON |
| `SessionProofs` | theorems on `Session` | |
| `Scroll` | `reg.c` with the draws of `win.c` that fill a region and the warnings that wipe it | a draw, a warning and a key are one action each; a line is its index and a text; `marked` holds the rows in reverse video |
| `ScrollProofs` | theorems on `Scroll` | |
| `ProcMap` | `proc_map.c` and `array_alloc`, with the process and the kernel beside them | one action per line read, so that the process may change its mappings between two |
| `ProcMapProofs` | theorems on `ProcMap` | |
| `Records` (`MCRecords`) | the regions of one process: stored by the perf thread (`os_perf.c` 57-157), merged, sorted and written back by a draw (`proc.c` 509-624, `win.c` 544-816), matched to the lines of the map list (`os_win.c` 149-194) | `__profiling_smpl` one action per record and per count stored; a draw one action per pass over the array, because the two threads hold different mutexes |
| `RecordsProofs` | theorems on `Records` | |

`DispPerf` EXTENDS `PageStack`: each of its display actions that touches a page
conjoins the stack's action (`Home`, `Next_`, `Prev`, `Refresh`, `Execute`,
`Resize`, `Fini`). `ProcGroup` runs apart, because the only thing its mutex does
to the hand-shakes is to make the perf thread wait; that is in `DispPerf` as
`GroupHeld`. `RingBuffer`, `Scroll` and `ProcMap` are each the work of one thread
inside one step of `DispPerf`; their other actor is the kernel, the terminal or the
watched process. `Records` is a sample and a draw of `DispPerf` seen from inside, where
they overlap. `Session` is the outside of `DispPerf`: its step from "run" to
"L_EXIT7" is the whole of a `DispPerf` behaviour.

Reading `Session`. An instance killed by a signal before the handler is installed, or
leaving by a label behind `monitor_exit`, is `skipped`; `overlap` says that two
instances have been alive at once, `refused` that the last write of the targets was
refused, which the program does not notice. The attributes are five numbers in a line of text:
"orig" as found when the line fits into the buffer that reads it, "long" when it does not,
"cut" what is then read, or the name of the instance whose `-r` wrote them.

Reading `ProcMap`. A mapping is a run of pages with one attribute. What the kernel
promises of a maps file that changes while it is read is external: addresses never go
back, and it writes what is mapped when it gets there. `kept` and `ever` are the pages
that were mapped during the whole of the read, and at any time of it; they are there
for the properties only.

Reading `Scroll`. A draw fills `total` and the texts of the lines and then shows a page of
them (`Refresh`; `AutoStart` is the one draw that asks for another number of lines than
there are). A draw that fails, or a page that is shown again and has to wait for a sample,
puts a warning over the rows instead (`Warn`). `complete` says that the rows were last
written for all of the lines, by a draw or by a key that turned the page, and that no
warning has wiped them since; it is there for the properties only.

Reading `Records`. `arr` is the array the threads share, `priv` the display thread's
copy of it. A region is its bounds and its accesses: the other counts are stored and
moved with them. The records of other processes move the index on (`SmplPass`) and may
be the first of the sample, which `countval_max` compares with, so `base` is any region.
A store takes three steps, one for each count (`nput`). `beside` counts the stores that
overlap the draw under way, `mixed` the draws that a store has overlapped; both are
there for the properties and the bound only.

Reading `DispPerf`. `flag` holds the command itself where the code holds
`DISP_FLAG_CMD` and a `cmd_t`. A page is its command, whether its window is
initialised, and whether it ever was: `win_dyn_fini` frees the buffers but
leaves the window type and the scroll callbacks. `held` says that `perf_fd`
and `map_base` are open, `leaked` counts events overwritten while open. The
undefined steps of the code (a command without a page, a callback into a freed
window) set `fault`, and the program stops there. The definitions marked
"(faulty)" are plausible bugs of the definition after them. No behaviour uses
them; with one in the place of its original a property must fail.

## 3. Runs

| Run | What it shows | Bounds |
|---|---|---|
| `MCDispPerfPid` | all hot keys with `-p`: types, the detail page's sample, the mode of the page, a control task never overwritten | 5 keys |
| `MCDispPerfEnv` | the ownership of the event and a clean end under a signal, a resize, a lost terminal, the run time, failures of starts and windows, and slow threads | 2 keys, 1 signal, 1 resize |
| `MCDispPerfLive` | without `-p`, with failing starts: every wait ends, an exit completes, a pending page is shown | 3 keys |
| `MCProcGroup` | the process group, safety and the release of removed processes | 3 addresses, 3 pids, 2 buckets |
| `MCPageList` | the list stays a list, no page leaks, and it implements the stack | 4 addresses, one page type that opens |
| `MCRingBuffer` | no read is torn, short or off a record; the record buffer overflows by new records only; a skip drops one record | ring of 16 units, records of 5, `int` mod 32, word mod 64, head up to 35 |
| `MCSession` | start-up, its failures and the exit labels; whose processes are watched, what is left of DAMON | 2 instances, every initialisation may fail but `map`, which cannot; the kernel may refuse what `-p` and `-r` write |
| `MCScroll` | the highlight, the page and the screen under draws of any length, warnings, keys and resizes | 3 rows, up to 7 lines |
| `MCProcMap` | what is searched is the whole of a good read, in order; nothing leaks | 4 pages, 2 attributes, arrays of 1, 2, 4; 2 changes |
| `MCRecords` | a draw and a sample lose at most one record to each other; without an overlap a draw shows what there is, sorted and not nested; no region is made up; the accesses of a mapping, also after an overlap | 3 slots, 4 regions (nested, overlapping, idle), every line of 5 pages, 1 draw overlapped |
| `MCQuitOverwritten` | violation of `QuitHonoured` | 1 key |
| `MCFreedWindow` | violation of `NoFreedWindow` | 1 key, 1 resize |

Why the bounds are enough. The deepest page takes three steps (home, process or
overview, map list or detail). Five keys reach it, leave it and come back;
refreshes, which the display thread makes by itself when its wait times out, are
not bounded. The mailboxes hold one value, so one signal and one resize beside a
key and an answer already give every order of two writers on a slot that is
full. `leaked` needs no bound of its own: without `-p` an event is lost once, at
the automatic start. In the process group three addresses are enough for an old
structure of a pid still held, a new one of the same pid and a third process,
and two buckets for a walk that stops early. Four addresses of pages are one more than
the longest list (home, monitor, a third) with one page about to be freed. The ring
holds three records, so a record starts at every position of it before the head
reaches `MaxHead`; that is past `IntMod`, so the positions have wrapped as `int` once
and the word's sign has turned, and every later wrap is one of these. Two instances
are all `monitor_start` can confuse: it looks at one value that one other has written.
Three rows and seven lines give three pages, the last one not full; the proofs need no
bound, and cover the one row of the overview's list. Two changes of a process can move a
mapping across the cursor of a read, and leave a later read to find both differ from the map
it replaces; arrays of one entry double twice for four pages. Three slots, of which samples
fill two, give a region inside another in either order of the indices, two that overlap, and
an idle one; with the copy and the write-back of one overlapped draw a third may come to be.
A second overlapped draw starts from an array the properties no longer speak of; the proofs
need no bound.

Deadlock is checked in every passing run but two. In `MCDispPerfLive` the system may
really stop: after a failed restart the detail page waits for a perf thread that has
ended. `MCRingBuffer` stops where the bound on the head, `MaxHead`, stops the kernel.

Fairness. `FairSpec` of `DispPerf` assumes weak fairness of main, console,
display and perf thread: each is a thread of its own that the scheduler runs,
and each of its steps, once it can be taken, stays possible or is replaced by
another step of the same thread. Timed waits are included (`TimedOut`): without
`Slow` a wait times out only when its answer will not come, with `Slow` at any
time. Keys, signals, resizes and the clock are not fair: nobody need press a key.
`FairSpec` of `ProcGroup` assumes that a thread goes on to release what it found,
which is what both callers do in straight-line code.

## 4. Disagreements between the code and its documentation

Each is a run that TLC ends with a counterexample, and a finding in
`PROJECT.json`:

* `QuitHonoured`: a READY (or another key, or a RESIZE) overwrites a QUIT in the
  one-slot flag (`disp.c` 186-190).
* `NoFreedWindow`: after a resize to less than 80x24 the windows are freed and
  not rebuilt, and a scroll key calls into the old one (`disp.c` 331-342).

The models also hold the following, which have no run of their own:

* a deferred free lowers a count that had already dropped the process; the next sort
  writes one entry past its array (`proc.c` 82-102, 460-495). `UndercountAtMostOne` says
  how far it can go;
* a key typed right after the console thread posted HOME replaces it, and a
  refresh then runs without a page (`fault = "null_page"`; `cmd.c` 112-119);
* after a failed restart the perf thread has ended, and the detail page waits for
  ever (`disp.c` 729); `DispReturns` names this case as its exception;
* the expired run time of `-t` is logged and the loop goes on (`disp.c` 452-457);
* without `-p`, the automatic start opens an event over the open one (`proc.c`
  1153); this is why `EventOwned` and its theorem speak of `-p` sessions;
* `proc_group_fini` frees about half of the structures, because the walk stops at
  a count that each free lowers (`proc.c` 107-134);
* a refresh of the detail page waits for its sample and then leaves it undrawn
  (`os_page.c` 46-81), where `datop.8` line 182 has R show the latest data;
* `pfwrapper.c` line 381 says "The buffer of array is enough, don't need to consider
  overflow"; it is enough for one ring, and `FitsButForNew` counts what the kernel may
  add while the ring is read;
* a sample whose data are shorter than 40 bytes would be read and then skipped once more
  by its whole length, for `profiling_sample_read` leaves `size` as it was (`pfwrapper.c`
  312-358); DAMON's are longer, which `TracepointConstants` states;
* `mmap_buffer_skip` keeps `data_head` in an `int`: past 2^31 a skip may drop the whole
  ring (`pfwrapper.c` 96-118); `SkipsOneRecord` says when;
* an exit by the labels behind `monitor_exit` leaves DAMON on and the attributes as `-r`
  set them (`datop.c` 416-430); `DamonAsFound` names this case;
* `read_damon_attrs` reads the attributes into 32 bytes: of a longer line it takes a cut
  number, which `-r` writes back at the end, or it hands a missing token to `atol` and the
  program ends (`damon.c` 73-102; `ReadAs`). `DamonAsFound` names this case as well;
* a second instance that ends turns off the monitoring of the first, and two that
  overlap may watch each other's processes (`proc.c` 951-993);
* the results of the writes to DAMON's files are not looked at. When the write of
  `target_ids` fails (the pid has gone since the `stat`, or the kernel refuses it), DAMON
  keeps the targets of before and is turned on all the same (`proc.c` 931-967), so an
  instance that was alone throughout may watch the processes of an earlier one; `OwnTargets`
  names this case (`refused`);
* a draw that fails, and a page shown again that waits for a sample, calls `win_warn_msg`
  (`os_win.c` 114-131, `win.c` 745-749, `page.c` 163). The pad of the warning shares the
  cells of the screen and wipes the rows, while the lines, the page and the highlight of the
  region stay (`win.c` 1573-1577): nothing is marked, ENTER opens the highlighted line all
  the same, and a key that stays on the page writes two lines on the blank rows.
  `ChosenIsMarked` and the second half of `PageShown` therefore speak of rows that were not
  wiped; the first half, that no row shows what is not its own, and `MarkIsChosen` hold
  after a warning too;
* a list that becomes empty has no row to mark and keeps the old highlight, and the home page
  drawn during the automatic start shows the lines of fewer, or more, processes than there
  are (`reg.c` 310-359, `win.c` 405-414); `Whole` of `Scroll` tells these draws apart, and
  `ChosenIsMarked` leaves them out;
* when the first load of a map finds no memory to grow its array, `array_alloc` clears
  the pointer but not the count, and the next search goes through a NULL pointer
  (`util.c` 546-551, `proc_map.c` 148-154); a map that is not loaded is searched all the
  same (`win.c` 371-384), so `FindCorrect` speaks of loaded maps;
* `countval_max` compares every record with the first record of the sample, whatever
  process that is of: a region of one process may be stored under another, in the place
  of all its regions with fewer accesses (`os_perf.c` 94-118, 134-143). `NoneMadeUp` asks
  no more than that the kernel reported the region;
* a record of a process that has ended drops the rest of the sample (`os_perf.c` 136-139);
  slot 0 of the array is never stored to by a sample, and records past the last slot are
  dropped (`HasSlot`);
* `profiling_clear` clears no byte, because `cpuid_max` is never set (`proc.c` 905-920), and
  walks the table without the group mutex: a slot keeps its region until a later sample
  reaches its index again or a merge drops it;
* `map_read` takes an error of a read for the end of the file, because `fgets` returns NULL
  for both and `ferror` is not asked (`proc_map.c` 183): the map read so far counts as whole.
  `Finish` has this for a process that has ended, not for one that lives (§6);
* of two nested regions the one at the lower index goes, even when it is the newer; and of
  three, i inside j and k inside j, the outer one may go for k and take i with it, so
  addresses that are watched are shown by no region (`proc.c` 565-584). `DrawnInOrder`
  therefore does not say that a draw covers what was stored;
* a store that overlaps a draw is overwritten by it, or leaves a region with bounds of two
  records (`win.c` 773-808); `OneBeside` says that there is at most one per draw. When such a
  region ends before it starts it fits mappings it shares no address with (`os_win.c` 171),
  so `HitWithin` asks that no draw was overlapped or that no such region is left;
* `os_maplist_buf_hit` starts its minimum at 999 and takes that for "none": regions with
  999 accesses or more show as 0, and of several regions that fit the first in the order
  of the last sort is shown, so the number depends on the sort key (`os_win.c` 149-194).

## 5. Proofs

`DispPerfProofs`, for all values of the constants under `ConstantsOK`:

* `TypeCorrect`: `Spec => []TypeOK`. The inductive invariant `Types` adds that a
  pending run needs a page, without which `Execute` would update the top of an
  empty stack.
* `UsesStackOnly`: `Spec => StackSpec`: the threads implement the stack of pages. Only the
  display thread changes the list, through its operations. The console thread writes the
  size of the screen with no lock; that is a `Resize` of an empty stack, because nothing
  opens a page before (`EarlyOK`: until the console thread is through, only QUIT can be in
  the flag, and nobody samples). `ImplementsAlways` below is the other side: the pointers
  of `page.c` implement the same stack. The two together let the models stay apart.
* `Flag2AlwaysAccounted`: `Spec => []Flag2Accounting`, with no assumption on
  timing or failures. The strengthening `StartOrder` says that main starts the
  display thread only after its own last wait.
* `EventAlwaysOwned` (assuming `WithPid`): `Spec => []EventOwned`. `EventInv` adds
  what the perf thread is about to set, and that the automatic start is out.
* `ControlNeverLost` (assuming `WithPid` and not `Slow`):
  `Spec => ControlTaskNotLost`. `ControlInv`: a control task is under way only
  while its poster waits, and a poster that was woken finds nothing under way.
  Both assumptions are needed: a thread slower than the wait, or the automatic
  start with the group mutex held, leaves a task in the slot.
* `ExitAlwaysClean` (assuming `WithPid`): `Spec => []CleanExit`, on `EventInv` and
  `ExitInv`.
* `ModeAlwaysMatches` (assuming `WithPid`, not `Slow`, and that neither a start nor a window
  fails): `Spec => []ModeMatchesPage`, for any keys, signals, resizes and run time. `ModeInv`
  follows what is to come (`Coming`): the outcome of the task in the slot, else of the one
  in the perf thread, else the status. The perf thread never changes it (`PerfMode`); the
  display thread changes it only with the command whose preop asks for the other mode, and
  the operation that follows changes the page to match (`OpMode`). `PagesOK` shows that
  the map list lies on another page and was set up, so BACK finds it by its window type.

`ProcGroupProofs`, for any finite sets of addresses and pids and any number of
buckets: `TypeCorrect`, `RefsAlwaysCounted`, `NeverLost`, `TableAlwaysSound` (from
`NeverDangling` and `PidsAlwaysUnique`), all from one inductive invariant `IInv`, which relates the
references, the `removing` marks, the `latest` cache and the two halves of
`proc_refcount_dec`. `UndercountAlwaysAtMostOne` adds `UnderOK`: only the display thread can
hold a structure across a refresh, so at most one late free is still to lower the count. A
refresh sets the count to the number of processes it was given, which `RefreshCounts` maps one
to one onto the table, and a walk that stops has counted `nprocs` structures (`WalkedIs`).

`SessionProofs`, for any set of instances and any choice of what may fail:
`TypeCorrect`, `AllAlwaysDown`, `OnlyEverWhatIsUp`, `DamonAlwaysAsFound`,
`AlwaysOwnTargets`. `UpInv` gives for each place of `main` what may be up there, and the
labels follow from it place by place. `OffInv`: while DAMON is on, somebody is still before
`monitor_exit` or has skipped it. `AttrsInv`: while the attributes differ from those found,
somebody is still to restore them or has skipped it; `TargetsInv` ties the targets to the
one instance that is alive, unless the kernel refused to take them, and says that DAMON is
off when they are written.

`ScrollProofs`, for any number of rows (one or more), lines and processes, under
`ScrollConstants`: `TypeCorrect`, `HighlightAlwaysRight` (from `MarkIsAlwaysChosen` and
`ChosenIsAlwaysMarked`), `PageAlwaysShown`, `SelectionAlwaysKept`. None of them is
inductive alone. `Ordered` says that the page does not start behind the highlight, and
`InReach` that the highlight is not past the page, or the list ends on it: without it a key
after a warning could write a line that is not the row's. Both survive draws that show no
line at all; they, and what the division by the rows leaves (`Division`), tie the parts
together.

`ProcMapProofs`, for any pages, attributes, first array size and number of changes,
under `MapConstants`: `TypeCorrect`, `NeverLeaks`, `AlwaysOrdered`, `AlwaysFaithful`,
`AlwaysFindCorrect`.
`Reading` follows the map under construction: its entries are in order, end at the
cursor, hold all of `kept` that the cursor has passed and nothing outside `ever`.
`LineAhead` shows that the kernel has a next line while a page is mapped ahead, so at
the end of the file the cursor has passed everything. `AlwaysFindCorrect` says that
`bsearch` finds the one entry with an address, or none. What `Probe` computes is shown
without induction over data: the closed form `Found` (the index of the entry, if it is
between the two bounds) solves the equation of the search (`FoundProbes`), and two
solutions cannot differ, for there would be a shortest range where they do
(`ProbesOnce`). That half of a range holds the entry when the range does is where the
order of the entries is used.

`RingBufferProofs`, for any size of the ring and of the integers, any records and any
interleaving with the kernel: `TypeCorrect`, `AlwaysRingInv`, `AlwaysWhole`,
`AlwaysFitsButForNew`, `SkipsOnlyOne`. The assumptions on the constants are those of the
code: `RingConstants` (the ring is a power of two below half the `int`, and 2^32 divides
2^64), `BufferConstants` (`os_perf_init` sizes the record buffer by the ring and a record)
and `TracepointConstants` (the data of a DAMON sample hold the 40 bytes that
`profiling_sample_read` takes). `RingInv` has four parts besides the types:

* `DistOK`: the distance in 32 bits is in `0..RingSize - 1`, so it is that of a reader
  inside the ring, and `Pos`, which is `head - Dist`, is a position that `tail` only
  represents modulo `IntMod`;
* `RingOK`: each unit between `Pos` and the head belongs to a record that ends by the head,
  and the units of one record agree on it;
* `ReadOK`: for each place of the reader, how far it is into its record, and that `size` is
  what is left;
* `CountOK`: the records stored, and the samples still unread, are together no more than
  the buffer holds and the kernel has added. It needs that the samples in the ring have
  room: they start at least `SampleLen` apart, so dividing by it maps them one to one
  into `0..BufCap - 1` (`SamplesFit`).

The `%` by a variable is handled by congruences (`Cong`, `ModSame`, `CongDivides`); the
length of a sample, a recursive function over `Fields`, gets its equation by the least
number where a longer sum could fail (`FieldsIs`).

`RecordsProofs`, for any regions, lines, sort keys, number of slots and of overlapped
draws, under `RecordsConstants`: `TypeCorrect`, `AlwaysOneBeside`, `AlwaysDrawnInOrder`,
`NoneEverMadeUp` (while stores and draws keep apart), `HitAlwaysWithin` (that, or no region
that ends before it starts). The invariant `IInv` has four parts besides the
types: `BesideOK` (a store can overlap a draw only if its `proc_find` came before it, so
it is the only one), `StoreOK` (what a store under way has put so far), `WholeOK` (without
an overlap the array and the copy hold regions of the kernel only) and `DrawOK` (what each
pass of a draw leaves: kept regions, distinct and not nested, then keys, then an order).
That `Merged` leaves its regions in the first slots without a hole is the lemma on
`Below`: it maps the kept slots one to one onto an initial segment of the numbers.

`PageListProofs`, for any finite set of addresses and any number of pages: `TypeCorrect`,
`ListAlwaysOK` and the refinement `ImplementsAlways`, `Spec => Stack!StackSpec` under the
mapping `StackOf`. `Rep` says that a memory stands for a path, that is a sequence of
different structures linked in this order and back, which are all that is allocated. A
walk along `next` is defined recursively; that it visits exactly the path is shown without
induction over data, by the least place where two functions with the walk's equation
would differ (`FollowsOnce`). Each operation of `page.c` is then a lemma from one path to
another (`CreatedRep`, `BackRep`, `ExecutedRep`, `ListFiniRep`), and `Inv` adds that the
current page is the last and that only it may be pending; without the first, `page_create`
would drop pages the stack still has.

Only model-checked: the liveness properties (`DispReturns`, `ShutdownCompletes`,
`PendingPageShown`, `RemovedFreed`), because TLAPS proves neither liveness under fairness
nor `ENABLED`, and that the system does not deadlock, for the same reason.

## 6. Not modelled, and why

* Text and curses drawing: no control depends on them. `s_topnproc_sortkey` is indexed past
  its end by command 5 (`cmd.c` 136-140); what lies there is at worst another sort
  key, and any other value sorts by the default.
* The rows of the home page (`win.c` 255-395) and the order of the map list: a copy of
  totals, sorted, under the group mutex, with nothing beside it.
* The dump cache (`util.c` 437-512): only the draw of the map list fills it, and the same
  draw flushes it.
* `str_int_extract` (`os_util.c` 341-394): a parser of the list of processors, called once
  at start-up with what the kernel writes there.
* The NUMA maps of `proc_map.c` have no caller, and `need_resolve` no reader.
* A process that replaces itself (`exec`) while its maps are read: the open file ends
  early, as at an exit.
* An error of a read of the maps of a live process (`proc_map.c` 183).
* `proc_obsolete` (`proc.c` 686): both callers of `proc_enum_update` ask for all processes.
* The pause and restore tasks of `perf.c`: they have no caller.
* DATA_FAIL flags: no code posts them, because a sample cannot fail.
* Spurious wake-ups, and failures of `pthread_create` and of small allocations.
  If `proc_alloc` fails in a refresh, `nprocs` exceeds the table (`proc.c` 763-774).
* The mutex of the flag taken inside a signal handler (`datop.c` 582): signals
  are a thread of their own here.

## 7. Plan

Done, in this order: `PageStack` and `DispPerf`, `ProcGroup`, `PageList`, `RingBuffer`,
`Session`, `Scroll`, `ProcMap`, `Records`, with the proof modules above. Left:

1. The signal handler that locks the mutex its own thread may hold (`datop.c` 582).
2. The rows of the home page and the order of the map list.
