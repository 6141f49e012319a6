--------------------------------- MODULE Records --------------------------------
(***************************************************************************)
(* The regions of one process: an array that the perf thread stores the    *)
(* records of its samples in (os_perf.c) and that the display thread       *)
(* merges, sorts and writes back for the page of the process (proc.c,      *)
(* win.c), and reads for the map list (os_win.c).                          *)
(*                                                                         *)
(* The perf thread stores under proc->mutex, the display thread sorts      *)
(* under s_proc_group.mutex, so a store may fall between any two steps of  *)
(* a draw, and inside one of them.  proc_find, which comes before each     *)
(* store, needs the group mutex.                                           *)
(*                                                                         *)
(* A region is its bounds and its accesses; the other counts go with the   *)
(* accesses.  Records of other processes only move the index on.           *)
(***************************************************************************)
EXTENDS Integers, FiniteSets

CONSTANTS
  Regions,   \* the regions that the kernel reports
  Lines,     \* the mappings that the map list shows
  SortKeys,  \* what the user may sort by
  Slots,     \* PROC_RECORD_MAX
  Most,      \* "min" of os_maplist_buf_hit before the search
  WordMod,   \* 2^64
  MaxMixed   \* bound: draws that begin while a store is under way

Counts == [start : Nat, end : Nat, acc : Nat]

ASSUME RecordsConstants ==
  /\ Regions \subseteq {r \in Counts : 0 < r.start /\ r.start < r.end /\ r.end < WordMod}
  /\ Lines \subseteq {l \in [lo : Nat, hi : Nat] : l.lo < l.hi}
  /\ SortKeys \subseteq {"START", "SIZE", "NRA"}
  /\ Slots \in Nat \ {0} /\ WordMod \in Nat \ {0}
  /\ Most \in Nat /\ MaxMixed \in Nat

VARIABLES
  arr,     \* proc->countval_arr
  nr,      \* proc->nr_nonzero
  ppc,     \* perf: "idle", "next" record, "store"
  base,    \* perf_damon_conf->countval_last
  idx,     \* i of __profiling_smpl
  rec,     \* max_record
  nput,    \* the counts of max_record stored so far
  dpc,     \* disp: "idle", and in a draw "copied", "back", "keyed", "sorted", "save"
  priv,    \* its private copy of the array
  key,     \* countval_arr[].key
  skey,    \* g_sortkey of the draw
  beside,  \* the stores that overlap the draw under way
  mixed    \* the draws that a store has overlapped

perfVars == <<ppc, base, idx, rec, nput>>
dispVars == <<nr, dpc, priv, key, skey>>
vars == <<arr, perfVars, dispVars, beside, mixed>>

Slot == 0..(Slots - 1)
Used == 0..(nr - 1)
Zero == [start |-> 0, end |-> 0, acc |-> 0]
Cleared == [i \in Slot |-> Zero]

TypeOK ==
  /\ {arr, priv} \subseteq [Slot -> Counts] /\ key \in [Slot -> Nat]
  /\ nr \in 0..Slots /\ idx \in 0..Slots /\ nput \in 0..2
  /\ {base, rec} \subseteq Counts
  /\ ppc \in {"idle", "next", "store"}
  /\ dpc \in {"idle", "copied", "back", "keyed", "sorted", "save"}
  /\ skey \in {"START", "SIZE", "NRA"}
  /\ beside \in Nat /\ mixed \in 0..MaxMixed
  /\ ppc = "store" => idx \in Slot

Init ==
  /\ arr = Cleared /\ nr = 0
  /\ ppc = "idle" /\ base = Zero /\ idx = 0 /\ rec = Zero /\ nput = 0
  /\ dpc = "idle" /\ priv = Cleared /\ key = [i \in Slot |-> 0] /\ skey = "START"
  /\ beside = 0 /\ mixed = 0

\* (faulty) proc_find does without the mutex
GroupUnused == TRUE
\* The display thread does not hold s_proc_group.mutex.
GroupFree == dpc = "idle"

-----------------------------------------------------------------------------
(* perf: __profiling_smpl                                                  *)

\* proc_intval_update, the read of the ring, countval_diff_base.  The clearing of
\* the arrays before it clears nothing, as proc->cpuid_max is 0 (profiling_clear).
SmplBegin ==
  /\ ppc = "idle" /\ GroupFree
  /\ \E r \in Regions : base' = r
  /\ ppc' = "next" /\ idx' = 0
  /\ UNCHANGED <<arr, rec, nput, dispVars, beside, mixed>>

\* The next record is of another process, or of none.
SmplPass ==
  /\ ppc = "next"
  /\ idx' = IF idx < Slots THEN idx + 1 ELSE idx
  /\ UNCHANGED <<arr, ppc, base, rec, nput, dispVars, beside, mixed>>

\* The sample is over, or proc_find does not find a process: the rest is dropped.
SmplEnd ==
  /\ ppc = "next" /\ ppc' = "idle"
  /\ base' = Zero /\ idx' = 0
  /\ UNCHANGED <<arr, rec, nput, dispVars, beside, mixed>>

\* countval_max: base may be a region of any process
MoreAccessed(r) == IF base.acc < r.acc THEN r ELSE base

\* (faulty) one slot more than there is
SlotOrEnd == idx + 1 <= Slots
\* A record without a slot is dropped.
HasSlot == idx + 1 < Slots

\* The next record is of the process: proc_find.
SmplFind ==
  /\ ppc = "next" /\ GroupFree /\ HasSlot
  /\ \E r \in Regions : rec' = MoreAccessed(r)
  /\ ppc' = "store" /\ idx' = idx + 1
  /\ beside' = IF dpc = "idle" THEN beside ELSE beside + 1
  /\ UNCHANGED <<arr, base, nput, dispVars, mixed>>

\* (faulty) the end is left as it is
PutNoEnd(old, n) ==
  CASE n = 0 -> [old EXCEPT !.start = rec.start]
    [] n = 1 -> old
    [] n = 2 -> [old EXCEPT !.acc = rec.acc]
\* proc_countval_update, count by count
Put(old, n) ==
  CASE n = 0 -> [old EXCEPT !.start = rec.start]
    [] n = 1 -> [old EXCEPT !.end = rec.end]
    [] n = 2 -> [old EXCEPT !.acc = rec.acc]

SmplStore ==
  /\ ppc = "store"
  /\ arr' = [arr EXCEPT ![idx] = Put(@, nput)]
  /\ IF nput = 2 THEN nput' = 0 /\ ppc' = "next" /\ rec' = Zero
                 ELSE nput' = nput + 1 /\ UNCHANGED <<ppc, rec>>
  /\ UNCHANGED <<base, idx, dispVars, beside, mixed>>

Perf == SmplBegin \/ SmplPass \/ SmplEnd \/ SmplFind \/ SmplStore

-----------------------------------------------------------------------------
(* disp: proc_countvalue_sort                                              *)

\* (faulty) the start of the one against the end of the other
NestedCrossed(a, b) ==
  (a.start >= b.start /\ a.end <= b.end) \/ (a.start <= b.start /\ a.end <= b.end)
Nested(a, b) ==
  (a.start >= b.start /\ a.end <= b.end) \/ (a.start <= b.start /\ b.end <= a.end)

\* A region goes when it is nested with one at a later index, which may go as well:
\* the slots behind the one that is looked at have not been touched yet.
Superseded(a, i) == \E j \in Slot : j > i /\ a[j].start # 0 /\ Nested(a[i], a[j])
Kept(a) == {i \in Slot : a[i].start # 0 /\ ~Superseded(a, i)}

\* The regions kept have different starts.
Below(a, i) == Cardinality({k \in Kept(a) : a[k].start < a[i].start})
Merged(a) ==
  [n \in Slot |-> IF \E i \in Kept(a) : Below(a, i) = n
                  THEN a[CHOOSE i \in Kept(a) : Below(a, i) = n] ELSE Zero]

-----------------------------------------------------------------------------
(* disp: moniproc_data_show, between proc_group_lock and proc_group_unlock *)

DrawCopy ==
  /\ dpc = "idle" /\ dpc' = "copied"
  /\ priv' = arr
  /\ IF ppc = "store" THEN beside' = 1 /\ mixed < MaxMixed /\ mixed' = mixed + 1
                      ELSE beside' = 0 /\ UNCHANGED mixed
  /\ UNCHANGED <<arr, nr, key, skey, perfVars>>

DrawBack ==
  /\ dpc = "copied" /\ dpc' = "back"
  /\ arr' = Merged(priv) /\ nr' = Cardinality(Kept(priv))
  /\ priv' = Cleared
  /\ UNCHANGED <<key, skey, perfVars, beside, mixed>>

\* moniproc_key_compute; the shift of a size by 10 keeps the order of pages
KeyOf(k, r) == CASE k = "SIZE" -> (r.end - r.start) % WordMod
                 [] k = "NRA" -> r.acc
                 [] k = "START" -> r.start

DrawKeys ==
  /\ dpc = "back" /\ dpc' = "keyed"
  /\ skey' \in SortKeys
  /\ key' = [i \in Slot |-> IF i \in Used THEN KeyOf(skey', arr[i]) ELSE 0]
  /\ UNCHANGED <<arr, nr, priv, perfVars, beside, mixed>>

Perms == {p \in [Used -> Used] : \A i, j \in Used : i # j => p[i] # p[j]}

Sorts(p) == \A i, j \in Used : i < j => key[p[i]] >= key[p[j]]

\* moniproc_sortkey: the copy and qsort, which need not be stable
DrawSort ==
  /\ dpc = "keyed" /\ dpc' = "sorted"
  /\ \E p \in Perms : /\ Sorts(p)
                      /\ priv' = [i \in Slot |-> IF i \in Used THEN arr[p[i]] ELSE Zero]
  /\ key' = [i \in Slot |-> 0]
  /\ UNCHANGED <<arr, nr, skey, perfVars, beside, mixed>>

DrawSorted ==
  /\ dpc = "sorted" /\ dpc' = "save"
  /\ arr' = [i \in Slot |-> IF i \in Used THEN priv[i] ELSE arr[i]]
  /\ priv' = Cleared
  /\ UNCHANGED <<nr, key, skey, perfVars, beside, mixed>>

\* moniproc_data_save of the first nr regions, and the unlock
DrawSave ==
  /\ dpc = "save" /\ dpc' = "idle"
  /\ beside' = 0
  /\ UNCHANGED <<arr, nr, priv, key, skey, perfVars, mixed>>

Disp == DrawCopy \/ DrawBack \/ DrawKeys \/ DrawSort \/ DrawSorted \/ DrawSave

Next == Perf \/ Disp

Spec == Init /\ [][Next]_vars

-----------------------------------------------------------------------------
(* disp: the map list.  It reads under proc->mutex and changes no region.  *)

Least(S) == CHOOSE x \in S : \A y \in S : x <= y

\* (faulty) the ends compared the same way twice
FitsCrossed(l, r) == (l.lo <= r.start /\ l.hi <= r.end) \/ (r.start <= l.lo /\ l.hi <= r.end)
\* One holds the other; one end of the region is in the line.
Fits(l, r) == (l.lo <= r.start /\ r.end <= l.hi) \/ (r.start <= l.lo /\ l.hi <= r.end)
Meets(l, r) ==
  /\ r.end > l.lo /\ r.start < l.hi
  /\ (r.start >= l.lo /\ r.start < l.hi) \/ (r.end > l.lo /\ r.end <= l.hi)

\* the accesses of the regions that share a part of the line
Parts(l) == {arr[i].acc : i \in {i \in Used : Meets(l, arr[i]) /\ arr[i].acc # 0}}

\* os_maplist_buf_hit
Hit(l) ==
  LET fitting == {i \in Used : Fits(l, arr[i])}
      min == Least(Parts(l) \cup {Most})
  IN IF fitting # {} THEN arr[Least(fitting)].acc
     ELSE IF min = Most THEN 0 ELSE min
-----------------------------------------------------------------------------
\* The two mutexes together let at most one store into a draw, although neither
\* alone keeps the threads apart: a second one would need proc_find.  So a draw
\* loses at most one record (__profiling_smpl, proc_find, moniproc_data_show).
OneBeside == beside <= 1

\* What a draw that no store overlaps puts on the page is in the order of the sort
\* key, with no region inside another, and it is all that the array holds
\* (proc_countvalue_sort, moniproc_resort, moniproc_data_save).
DrawnInOrder ==
  dpc = "save" /\ beside = 0 =>
    /\ \A i, j \in Used : i < j => KeyOf(skey, arr[i]) >= KeyOf(skey, arr[j])
    /\ \A i, j \in Used : i # j => ~Nested(arr[i], arr[j])
    /\ \A i \in Slot : arr[i] # Zero <=> i \in Used

\* As long as no store has overlapped a draw every slot, but one that is being
\* stored, holds a region that the kernel reported, so the map list, which takes
\* the mutex of the store, sees no other: storing, merging and sorting by themselves make
\* none up.  What an overlap does is left to OneBeside (proc_countval_update, proc_countvalue_sort, moniproc_sortkey).
NoneMadeUp ==
  mixed = 0 => \A i \in Slot :
    arr[i] \in Regions \cup {Zero} \/ (ppc = "store" /\ i = idx)

\* Outside a draw and a store, the number beside a mapping is that of a region which
\* shares addresses with it, or it is 0: then one of those is idle, or all have Most accesses or more, or there is
\* none.  It is so while no store has ever overlapped a draw (mixed = 0); after one it is
\* so while no region of the last draw ends before it starts, because one that does, made
\* of the bounds of two records, fits mappings it does not touch (win_maplist_buf_fill,
\* os_maplist_buf_hit).
Shares(l) == {arr[i].acc : i \in {i \in Used : l.lo < arr[i].end /\ arr[i].start < l.hi}}
HitWithin ==
  dpc = "idle" /\ ppc # "store"
  /\ (mixed = 0 \/ \A i \in Used : arr[i].start < arr[i].end) =>
    \A l \in Lines :
      IF Hit(l) = 0 THEN 0 \in Shares(l) \/ \A n \in Shares(l) : n >= Most
                    ELSE Hit(l) \in Shares(l)
=============================================================================
