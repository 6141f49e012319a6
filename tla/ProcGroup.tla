-------------------------------- MODULE ProcGroup -------------------------------
(***************************************************************************)
(* The process group of proc.c: a hash table of reference-counted          *)
(* track_proc_t structures that two threads use.                           *)
(*                                                                         *)
(*   perf   refreshes the table from /proc at the start of every sample,   *)
(*          then finds, updates and releases the sampled processes         *)
(*   disp   sorts the table for the home page, and finds, reads and        *)
(*          releases one process for the process and map-list pages        *)
(*                                                                         *)
(* One action is one critical section of s_proc_group.mutex or proc->mutex *)
(* of one thread.  A structure is named by its address, which malloc may   *)
(* hand out again once it is freed.                                        *)
(***************************************************************************)
EXTENDS Integers, FiniteSets

CONSTANTS
  Procs,        \* addresses of track_proc_t structures
  Pids,         \* process ids
  NBuckets,     \* PROC_HASHTBL_SIZE
  NoProc        \* the NULL pointer

ASSUME ProcGroupConstants ==
  /\ Pids \subseteq Nat /\ Pids # {} /\ IsFiniteSet(Pids)
  /\ NBuckets \in Nat \ {0}
  /\ NoProc \notin Procs /\ IsFiniteSet(Procs)

VARIABLES
  table,        \* the structures chained in hashtbl
  live,         \* the structures allocated
  pid,          \* proc->pid
  ref,          \* proc->ref_count
  removing,     \* the structures with proc->removing
  latest,       \* s_proc_group.latest
  nprocs,       \* s_proc_group.nprocs
  sorted,       \* the structures put in sort_arr
  sort_len,     \* the entries sort_arr was allocated with
  pc, ptr,      \* of each thread: what it does with which structure
  over          \* proc_group_fini has run

groupVars == <<table, live, pid, ref, removing, latest, nprocs>>
vars == <<groupVars, sorted, sort_len, pc, ptr, over>>

Threads == {"disp", "perf"}

\* idle: no structure; held: between proc_find and proc_refcount_dec;
\* reap: proc_refcount_dec dropped the last reference of a removed structure
\* and has not yet taken the group mutex
TypeOK ==
  /\ table \subseteq Procs /\ live \subseteq Procs /\ removing \subseteq Procs
  /\ pid \in [Procs -> Pids]
  /\ ref \in [Procs -> Nat]
  /\ latest \in Procs \cup {NoProc}
  /\ nprocs \in Int
  /\ sorted \subseteq Procs /\ sort_len \in Int
  /\ pc \in [Threads -> {"idle", "held", "reap"}]
  /\ ptr \in [Threads -> Procs \cup {NoProc}]
  /\ over \in BOOLEAN

AnyPid == CHOOSE n \in Pids : TRUE

Init ==
  /\ table = {} /\ live = {} /\ removing = {}
  /\ pid = [p \in Procs |-> AnyPid]
  /\ ref = [p \in Procs |-> 0]
  /\ latest = NoProc /\ nprocs = 0
  /\ sorted = {} /\ sort_len = 0
  /\ pc = [t \in Threads |-> "idle"]
  /\ ptr = [t \in Threads |-> NoProc]
  /\ over = FALSE

-----------------------------------------------------------------------------
(* The table by its buckets.                                               *)

\* PROC_HASHTBL_INDEX
Bucket(p) == pid[p] % NBuckets
UpTo(i) == {p \in table : Bucket(p) <= i}

\* A walk of the table stops after the first bucket at which it has counted n
\* structures, or at the end of the table (proc_traverse, proc_sortkey).
StopsAt(i, n) ==
  /\ Cardinality(UpTo(i)) = n
  /\ \A k \in 0..(i - 1) : Cardinality(UpTo(k)) # n
Walked(n) ==
  {p \in table : \A i \in 0..(NBuckets - 1) : StopsAt(i, n) => Bucket(p) <= i}

-----------------------------------------------------------------------------
(* perf: proc_group_refresh(procs_new, nproc_new)                          *)

ClearLatest(gone) == latest' = IF latest \in gone THEN NoProc ELSE latest

\* (faulty) proc_free ignores the references
FreeAtOnce(gone) == gone
\* proc_free: a referenced structure is only marked as removing
FreeNow(gone) == {p \in gone : ref[p] = 0}

Missing(new) == new \ {pid[p] : p \in table}

\* (faulty) without the assignment that ends it: proc_group_remove and proc_free
\* both take a freed structure off the count
CountAsGone(new, gone, fresh) ==
  nprocs + Cardinality(fresh) - Cardinality(gone) - Cardinality(FreeNow(gone))
CountNew(new, gone, fresh) == Cardinality(new)

\* fresh are the structures proc_alloc returned, new_pid their pids.  It is assumed to
\* have memory for all of them; without, nprocs would exceed the table.
Refresh(new, fresh, new_pid) ==
  LET gone == {p \in table : pid[p] \notin new}
      freed == FreeNow(gone)
  IN /\ fresh \subseteq Procs \ (live \ freed)
     /\ {new_pid[p] : p \in fresh} = Missing(new)
     /\ \A p, q \in fresh : new_pid[p] = new_pid[q] => p = q
     /\ table' = (table \ gone) \cup fresh
     /\ live' = (live \ freed) \cup fresh
     /\ removing' = (removing \cup (gone \ freed)) \ fresh
     /\ pid' = [p \in Procs |-> IF p \in fresh THEN new_pid[p] ELSE pid[p]]
     /\ ref' = [p \in Procs |-> IF p \in fresh THEN 0 ELSE ref[p]]
     /\ ClearLatest(gone)
     /\ nprocs' = CountNew(new, gone, fresh)
     /\ UNCHANGED <<sorted, sort_len, pc, ptr, over>>

PerfRefresh ==
  /\ ~over /\ pc["perf"] = "idle"
  /\ \E new \in (SUBSET Pids) \ {{}}, fresh \in SUBSET Procs :
       \E new_pid \in [fresh -> new] : Refresh(new, fresh, new_pid)

-----------------------------------------------------------------------------
(* Both threads: proc_find and proc_refcount_dec                           *)

\* the structure proc_find_nolock comes to: latest first, then the chain
Cached(n) == latest # NoProc /\ pid[latest] = n
Match(n, p) == IF Cached(n) THEN p = latest ELSE p \in table /\ pid[p] = n

\* (faulty) proc_refcount_inc does not count
NoRef(p) == UNCHANGED ref
TakeRef(p) == ref' = [ref EXCEPT ![p] = @ + 1]

\* proc_refcount_inc refuses a structure tagged as removing
Find(t) ==
  /\ ~over /\ pc[t] = "idle"
  /\ \E n \in Pids, p \in Procs :
       /\ Match(n, p)
       /\ IF p \in removing
          THEN latest' = (IF latest = p THEN NoProc ELSE latest) /\ UNCHANGED <<ref, pc, ptr>>
          ELSE /\ TakeRef(p) /\ latest' = p
               /\ pc' = [pc EXCEPT ![t] = "held"] /\ ptr' = [ptr EXCEPT ![t] = p]
  /\ UNCHANGED <<table, live, pid, removing, nprocs, sorted, sort_len, over>>

\* (faulty) the removing flag is not looked at
NeverLast(p) == FALSE
LastOfRemoved(p) == ref[p] = 1 /\ p \in removing

\* the first half of proc_refcount_dec, under proc->mutex
Dec(t) ==
  /\ pc[t] = "held"
  /\ ref' = [ref EXCEPT ![ptr[t]] = @ - 1]
  /\ IF LastOfRemoved(ptr[t])
     THEN pc' = [pc EXCEPT ![t] = "reap"] /\ UNCHANGED ptr
     ELSE pc' = [pc EXCEPT ![t] = "idle"] /\ ptr' = [ptr EXCEPT ![t] = NoProc]
  /\ UNCHANGED <<table, live, pid, removing, latest, nprocs, sorted, sort_len, over>>

\* the second half: proc_free under the group mutex
Reap(t) ==
  /\ pc[t] = "reap"
  /\ IF ref[ptr[t]] > 0
     THEN removing' = removing \cup {ptr[t]} /\ UNCHANGED <<live, nprocs>>
     ELSE /\ live' = live \ {ptr[t]} /\ nprocs' = nprocs - 1
          /\ removing' = removing \ {ptr[t]}
  /\ pc' = [pc EXCEPT ![t] = "idle"] /\ ptr' = [ptr EXCEPT ![t] = NoProc]
  /\ UNCHANGED <<table, pid, ref, latest, sorted, sort_len, over>>

-----------------------------------------------------------------------------
\* disp: proc_resort.  sort_arr gets one entry for each structure walked.
Resort ==
  /\ ~over /\ pc["disp"] = "idle"
  /\ sorted' = Walked(nprocs) /\ sort_len' = nprocs
  /\ UNCHANGED <<groupVars, pc, ptr, over>>

\* main, with both threads joined: proc_group_fini.  Every proc_free takes one
\* off nprocs, so the walk stops where the freed are as many as the left.
Fini ==
  /\ ~over /\ \A t \in Threads : pc[t] = "idle"
  /\ over' = TRUE
  /\ LET freed == {p \in table : \A i \in 0..(NBuckets - 1) :
                     (/\ 2 * Cardinality(UpTo(i)) = nprocs
                      /\ \A k \in 0..(i - 1) : 2 * Cardinality(UpTo(k)) # nprocs)
                     => Bucket(p) <= i}
     IN live' = live \ freed /\ nprocs' = nprocs - Cardinality(freed)
  /\ UNCHANGED <<table, pid, ref, removing, latest, sorted, sort_len, pc, ptr>>

Terminated == over /\ UNCHANGED vars

Next ==
  \/ PerfRefresh \/ Resort \/ Fini \/ Terminated
  \/ \E t \in Threads : Find(t) \/ Dec(t) \/ Reap(t)

Spec == Init /\ [][Next]_vars

\* Each thread goes on to release what it found.
FairSpec == Spec /\ \A t \in Threads : WF_vars(Dec(t) \/ Reap(t))

-----------------------------------------------------------------------------
(* Safety *)

Holds(t, p) == IF pc[t] = "held" /\ ptr[t] = p THEN 1 ELSE 0

\* ref_count is the number of threads between proc_find and proc_refcount_dec on
\* the structure (proc_refcount_inc, proc_refcount_dec).
RefsCounted == \A p \in live : ref[p] = Holds("disp", p) + Holds("perf", p)

\* No pointer the code may still follow is dangling: not one of a thread, not one
\* in a hash chain, and not the latest-access cache, which moreover is only ever a
\* structure of the table (proc_free, proc_group_remove, proc_find_nolock).
NoDangling ==
  ~over =>
    /\ table \subseteq live
    /\ latest # NoProc => latest \in table
    /\ \A t \in Threads : pc[t] # "idle" => ptr[t] \in live

\* A structure out of the table is not lost: somebody holds it and will find it
\* marked, or is about to free it, and one thread only; and no structure of the
\* table is marked (the two halves of proc_refcount_dec against proc_free).
NoneLost ==
  /\ ~over => table \cap removing = {}
  /\ \A p \in live \ table :
       p \in removing /\ (ref[p] > 0 \/ \E t \in Threads : pc[t] = "reap" /\ ptr[t] = p)
  /\ \A t, u \in Threads : pc[t] = "reap" /\ pc[u] = "reap" /\ ptr[t] = ptr[u] => t = u

\* The table has one structure for a pid, however a pid comes back while its old
\* structure is still referenced (proc_group_refresh).
PidsUnique == \A p, q \in table : pid[p] = pid[q] => p = q

\* What a search of the table finds is there, and is the one it looked for: no pointer
\* dangles, and a pid stands for one structure (proc_find_nolock, proc_group_refresh).
TableSound == NoDangling /\ PidsUnique

\* nprocs is never more than the table holds, and less by at most one: the late
\* free of a structure the last refresh had already left out of the count.  So the
\* sort writes at most one entry more than its array was allocated with
\* (proc_refcount_dec, proc_free, the end of proc_group_refresh, proc_sortkey).
UndercountAtMostOne ==
  /\ ~over => Cardinality(table) - nprocs \in {0, 1}
  /\ Cardinality(sorted) - sort_len \in {0, 1}

\* A removed structure is freed in the end.
RemovedFreed == \A p \in Procs : p \in removing ~> p \notin removing
=============================================================================
