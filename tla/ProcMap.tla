-------------------------------- MODULE ProcMap --------------------------------
(***************************************************************************)
(* The address map of one process (proc_map.c), which the display thread   *)
(* reads from /proc/pid/maps, line by line, while the process goes on      *)
(* mapping and unmapping.  A read may fail half-way; the map of the last   *)
(* good read is searched for the regions DAMON reports.                    *)
(*                                                                         *)
(* A mapping is a run of pages with the same attribute, which stands for   *)
(* the access rights and the name of the line.  need_resolve and the numa  *)
(* maps, which nothing reads, are left out.                                *)
(***************************************************************************)
EXTENDS Integers, Sequences

CONSTANTS
  Attrs,     \* what a mapping may be
  NoAttr,    \* of a page that is not mapped
  MaxPage,   \* the pages are 0..MaxPage
  EntryNum,  \* MAP_ENTRY_NUM
  MaxOps     \* bound: mappings and unmappings

ASSUME MapConstants ==
  /\ NoAttr \notin Attrs
  /\ MaxPage \in Nat /\ EntryNum \in Nat \ {0} /\ MaxOps \in Nat

VARIABLES
  mem,     \* the attribute of each page of the process
  alive,   \* the process has not ended
  ops,     \* mappings and unmappings so far
  map,     \* proc->map
  new,     \* the map that map_read fills: the first time this is proc->map itself
  cursor,  \* how far the kernel has got in the open maps file
  pc,      \* "idle", "read" in map_read, "gone" when proc_free is through
  blocks,  \* arrays allocated and not freed
  kept,    \* the pages that were mapped ever since the file was opened
  ever     \* the pages that were mapped, and as what, at some time since

kernelVars == <<mem, alive, ops>>
vars == <<kernelVars, map, new, cursor, pc, blocks, kept, ever>>

Pages == 0..MaxPage
Entry == [start : Pages, end : 1..(MaxPage + 1), attr : Attrs]

\* nentry_cur is the length of arr, also when ptr (the pointer) is NULL
MapT == [ptr : BOOLEAN, arr : Seq(Entry), max : Nat, loaded : BOOLEAN]
Zero == [ptr |-> FALSE, arr |-> <<>>, max |-> 0, loaded |-> FALSE]

TypeOK ==
  /\ mem \in [Pages -> Attrs \cup {NoAttr}] /\ alive \in BOOLEAN /\ ops \in 0..MaxOps
  /\ map \in MapT /\ new \in MapT
  /\ Len(map.arr) <= map.max /\ Len(new.arr) <= new.max
  /\ cursor \in 0..(MaxPage + 1) /\ pc \in {"idle", "read", "gone"} /\ blocks \in Int
  /\ kept \subseteq Pages /\ ever \subseteq Pages \X Attrs

Init ==
  /\ mem \in [Pages -> Attrs \cup {NoAttr}] /\ alive = TRUE /\ ops = 0
  /\ map = Zero /\ new = Zero /\ cursor = 0 /\ pc = "idle" /\ blocks = 0
  /\ kept = {} /\ ever = {}

Mapped(m) == {p \in Pages : m[p] # NoAttr}
MappedAs(m) == {pa \in Pages \X Attrs : m[pa[1]] = pa[2]}

-----------------------------------------------------------------------------
(* The process and the kernel: external. *)

Become(m) ==
  /\ mem' = m
  /\ kept' = kept \cap Mapped(m)
  /\ ever' = IF pc = "read" THEN ever \cup MappedAs(m) ELSE ever

\* mmap, mprotect or munmap of a range
Change ==
  /\ alive /\ ops < MaxOps /\ ops' = ops + 1
  /\ \E lo, hi \in Pages, a \in Attrs \cup {NoAttr} :
       lo <= hi /\ Become([p \in Pages |-> IF p \in lo..hi THEN a ELSE mem[p]])
  /\ UNCHANGED <<alive, map, new, cursor, pc, blocks>>

\* The process ends: an open maps file has no more lines.
Exit ==
  /\ alive /\ alive' = FALSE
  /\ Become([p \in Pages |-> NoAttr])
  /\ UNCHANGED <<ops, map, new, cursor, pc, blocks>>

\* The line the kernel writes next: the first mapping from the cursor on; what it
\* has passed it does not write again.
Runs(c) ==
  {e \in Entry :
     /\ c <= e.start /\ e.start < e.end
     /\ \A p \in e.start..(e.end - 1) : mem[p] = e.attr
     /\ \A p \in c..(e.start - 1) : mem[p] = NoAttr
     /\ e.end = MaxPage + 1 \/ mem[e.end] # e.attr}

-----------------------------------------------------------------------------
(* map_proc_load *)

\* map_free gives the array back; a map whose pointer is NULL it leaves as it is.
MapFree(m) == IF m.ptr THEN Zero ELSE m
Held(m) == IF m.ptr THEN 1 ELSE 0

Full(m) == Len(m.arr) = m.max
\* (faulty) the doubling is not noted
GrownUncounted(m) ==
  IF Full(m) /\ ~m.ptr THEN [m EXCEPT !.ptr = TRUE, !.max = EntryNum] ELSE m

\* array_alloc: a first array of EntryNum, then twice as many
Grown(m) ==
  IF ~Full(m) THEN m
  ELSE [m EXCEPT !.ptr = TRUE, !.max = IF m.ptr THEN 2 * m.max ELSE EntryNum]

Added(m, e) == [m EXCEPT !.arr = Append(m.arr, e)]

\* (faulty) every load zeroes proc->map
TargetAlways == Zero

\* The first load fills proc->map, which is zeroed for it, a later one a map of
\* its own.
Target == IF map.loaded THEN map ELSE Zero

Start ==
  /\ pc = "idle"
  /\ map' = Target
  /\ new' = Zero
  /\ \/ alive /\ pc' = "read" /\ cursor' = 0
        /\ kept' = Mapped(mem) /\ ever' = MappedAs(mem)
     \/ ~alive /\ UNCHANGED <<pc, cursor, kept, ever>>     \* fopen fails
  /\ UNCHANGED <<kernelVars, blocks>>

\* (faulty) what is half read stays allocated
DiscardNothing(m) == m

\* L_EXIT of map_read: what is half read is given back
Discard(m) == IF m.arr # <<>> THEN MapFree(m) ELSE m

\* map_read has returned with m, whose loaded says how, and n arrays are allocated;
\* a good map replaces the old one, after a bad one the old one stays.
Return(m, n) ==
  /\ pc' = "idle" /\ new' = Zero /\ cursor' = 0 /\ kept' = {} /\ ever' = {}
  /\ map' = IF map.loaded /\ ~m.loaded THEN map ELSE m
  /\ blocks' = IF map.loaded /\ m.loaded THEN n - Held(map) ELSE n

\* array_alloc finds no memory; a failed realloc has it free the array it had.
NoMemory ==
  /\ Full(new)
  /\ Return(Discard([new EXCEPT !.ptr = FALSE]), blocks - Held(new))

ReadLine ==
  /\ pc = "read"
  /\ \E e \in Runs(cursor) :
       \/ NoMemory
       \/ /\ new' = Added(Grown(new), e)
          /\ blocks' = blocks - Held(new) + Held(Grown(new))
          /\ cursor' = e.end
          /\ UNCHANGED <<map, pc, kept, ever>>
  /\ UNCHANGED kernelVars

\* The end of the file: a map without an entry is no map.  fgets says the same of a
\* read that fails.  That it does when the process has ended is here, by Exit; an
\* error of a read of a live process is not modelled.
Finish ==
  /\ pc = "read" /\ Runs(cursor) = {}
  /\ Return([new EXCEPT !.loaded = new.arr # <<>>], blocks)
  /\ UNCHANGED kernelVars

\* A line that does not parse
Garbled ==
  /\ pc = "read"
  /\ Return(Discard(new), blocks - Held(new) + Held(Discard(new)))
  /\ UNCHANGED kernelVars

\* proc_free of a structure nobody holds
MapFini ==
  /\ pc = "idle" /\ pc' = "gone"
  /\ map' = MapFree(map) /\ blocks' = blocks - Held(map)
  /\ UNCHANGED <<kernelVars, new, cursor, kept, ever>>

Terminated == pc = "gone" /\ UNCHANGED vars

Kernel == Change \/ Exit
Load == Start \/ ReadLine \/ Finish \/ Garbled

Next == Kernel \/ Load \/ MapFini \/ Terminated

Spec == Init /\ [][Next]_vars

-----------------------------------------------------------------------------
(* map_entry_find_simiar, with bsearch as the C library has it *)

\* (faulty) the end belongs to the entry
CompareClosed(addr, e) ==
  CASE addr < e.start -> -1
    [] addr > e.end -> 1
    [] OTHER -> 0

Compare(addr, e) ==
  CASE addr < e.start -> -1
    [] addr >= e.end -> 1
    [] OTHER -> 0

\* What is found among the entries behind the first l, up to the u-th: an index of arr,
\* or 0
Probe(addr, arr) ==
  LET probe[r \in (0..Len(arr)) \X (0..Len(arr))] ==
        LET l == r[1]
            u == r[2]
            i == (l + u) \div 2
        IN IF l >= u THEN 0
           ELSE CASE Compare(addr, arr[i + 1]) = -1 -> probe[<<l, i>>]
                  [] Compare(addr, arr[i + 1]) = 1 -> probe[<<i + 1, u>>]
                  [] OTHER -> i + 1
  IN probe

Bsearch(addr, arr) == Probe(addr, arr)[<<0, Len(arr)>>]

FindSimilar(arr, addr, size) ==
  LET i == Bsearch(addr, arr)
  IN IF i # 0 /\ arr[i].start <= addr /\ arr[i].end >= addr + size THEN i ELSE 0

-----------------------------------------------------------------------------
\* A region is found in a loaded map exactly when it lies in one entry, however the
\* map changed while its lines were read (map_entry_find_simiar).
FindCorrect ==
  map.loaded =>
    \A addr \in Pages, size \in 0..MaxPage, i \in DOMAIN map.arr :
      LET e == map.arr[i]
      IN FindSimilar(map.arr, addr, size) = i <=>
           e.start <= addr /\ addr < e.end /\ addr + size <= e.end

\* Every array that was allocated is in use, whatever failed (map_read, map_free).
NoLeak == blocks = Held(map) + Held(new)

Covered(arr) == {p \in Pages : \E i \in DOMAIN arr : arr[i].start <= p /\ p < arr[i].end}
CoveredAs(arr) ==
  {pa \in Pages \X Attrs :
     \E i \in DOMAIN arr : arr[i].start <= pa[1] /\ pa[1] < arr[i].end /\ arr[i].attr = pa[2]}

\* A map is only ever loaded, and a loaded one replaced, by the whole of a good read:
\* what was mapped all the time is in it, and nothing that was not there at some
\* time.  A failed read leaves the old map alone (map_proc_load).
Faithful ==
  [][(map' # map /\ pc' # "gone" /\ (map.loaded \/ map'.loaded)) =>
       /\ map'.loaded
       /\ kept \subseteq Covered(map'.arr)
       /\ CoveredAs(map'.arr) \subseteq ever]_vars

=============================================================================
