----------------------------- MODULE ProcGroupProofs ----------------------------
(***************************************************************************)
(* Reference counting in the process group is safe for any pids, addresses *)
(* and number of buckets: proofs of ProcGroup's invariants.                *)
(***************************************************************************)
EXTENDS ProcGroup, FiniteSetTheorems, TLAPS

\* A thread that is busy has a structure; an idle one has none.
PtrOK == \A t \in Threads : ptr[t] \in Procs <=> pc[t] # "idle"

\* What a thread holds is allocated, and what it is about to free is removed and
\* has no references.
BusyOK ==
  \A t \in Threads :
    /\ pc[t] # "idle" => ptr[t] \in live
    /\ pc[t] = "reap" => ptr[t] \in removing \ table /\ ref[ptr[t]] = 0

\* Before proc_group_fini the table and its cache are allocated and unmarked.
TableOK ==
  ~over => /\ table \subseteq live
           /\ latest # NoProc => latest \in table
           /\ table \cap removing = {}

EndOK == /\ over => \A t \in Threads : pc[t] = "idle"
         /\ removing \subseteq live

IInv == TypeOK /\ PtrOK /\ BusyOK /\ TableOK /\ RefsCounted /\ NoneLost /\ EndOK

LEMMA InitIInv == Init => IInv
<1> SUFFICES ASSUME Init PROVE IInv
  OBVIOUS
<1>1. TypeOK
  <2>1. AnyPid \in Pids
    BY ProcGroupConstants DEF AnyPid
  <2>2. pid \in [Procs -> Pids] /\ ref \in [Procs -> Nat]
    BY <2>1 DEF Init
  <2>3. pc \in [Threads -> {"idle", "held", "reap"}] /\ ptr \in [Threads -> Procs \cup {NoProc}]
    BY DEF Init
  <2>4. /\ table \subseteq Procs /\ live \subseteq Procs /\ removing \subseteq Procs
        /\ latest \in Procs \cup {NoProc} /\ nprocs \in Int
    BY DEF Init
  <2>5. sorted \subseteq Procs /\ sort_len \in Int
    BY DEF Init
  <2>6. over \in BOOLEAN
    BY Zenon DEF Init
  <2> QED BY <2>2, <2>3, <2>4, <2>5, <2>6 DEF TypeOK
<1>2. PtrOK /\ BusyOK
  BY ProcGroupConstants DEF Init, PtrOK, BusyOK, Threads
<1>3. TableOK /\ RefsCounted /\ NoneLost /\ EndOK
  BY DEF Init, TableOK, RefsCounted, NoneLost, EndOK, Threads
<1> QED BY <1>1, <1>2, <1>3 DEF IInv

-----------------------------------------------------------------------------
(* Each action preserves the invariant.                                    *)

\* A structure somebody holds has a reference.
LEMMA HeldCounted ==
  ASSUME IInv, NEW t \in Threads, pc[t] = "held"
  PROVE  ptr[t] \in live /\ ref[ptr[t]] \in Nat \ {0}
<1>1. ptr[t] \in live /\ ptr[t] \in Procs
  BY DEF IInv, BusyOK, PtrOK
<1>2. ref[ptr[t]] = Holds("disp", ptr[t]) + Holds("perf", ptr[t])
  BY <1>1 DEF IInv, RefsCounted
<1>3. Holds(t, ptr[t]) = 1
  BY DEF Holds
<1>4. \A u \in Threads : Holds(u, ptr[t]) \in {0, 1}
  BY DEF Holds
<1> QED BY <1>1, <1>2, <1>3, <1>4 DEF Threads

LEMMA RefreshStep == IInv /\ PerfRefresh => IInv'
<1> SUFFICES ASSUME IInv, PerfRefresh PROVE IInv'
  OBVIOUS
<1>1. PICK new \in (SUBSET Pids) \ {{}}, fresh \in SUBSET Procs :
        \E new_pid \in [fresh -> new] : Refresh(new, fresh, new_pid)
  BY DEF PerfRefresh
<1>2. PICK new_pid \in [fresh -> new] : Refresh(new, fresh, new_pid)
  BY <1>1
<1> DEFINE gone == {p \in table : pid[p] \notin new}
           freed == {p \in gone : ref[p] = 0}
<1>3. /\ fresh \subseteq Procs \ (live \ freed)
      /\ table' = (table \ gone) \cup fresh
      /\ live' = (live \ freed) \cup fresh
      /\ removing' = (removing \cup (gone \ freed)) \ fresh
      /\ pid' = [p \in Procs |-> IF p \in fresh THEN new_pid[p] ELSE pid[p]]
      /\ ref' = [p \in Procs |-> IF p \in fresh THEN 0 ELSE ref[p]]
      /\ latest' = IF latest \in gone THEN NoProc ELSE latest
      /\ UNCHANGED <<sorted, sort_len, pc, ptr, over>>
  BY <1>2 DEF Refresh, FreeNow, ClearLatest
<1>4. ~over /\ table \subseteq live /\ table \cap removing = {}
  BY DEF PerfRefresh, IInv, TableOK
<1>5. \A t \in Threads : pc[t] # "idle" => ptr[t] \in live \ (freed \cup fresh)
  <2> SUFFICES ASSUME NEW t \in Threads, pc[t] # "idle"
               PROVE  ptr[t] \in live \ (freed \cup fresh)
    OBVIOUS
  <2>1. ptr[t] \in live
    BY DEF IInv, BusyOK
  <2>2. ptr[t] \notin freed
    <3>1. CASE pc[t] = "held" BY <3>1, HeldCounted
    <3>2. CASE pc[t] = "reap" BY <3>2 DEF IInv, BusyOK
    <3> QED BY <3>1, <3>2 DEF IInv, TypeOK
  <2> QED BY <2>1, <2>2, <1>3
<1>6. TypeOK'
  <2>1. pid' \in [Procs -> Pids] /\ ref' \in [Procs -> Nat]
    BY <1>3 DEF IInv, TypeOK
  <2>2. nprocs' \in Int
    <3>1. IsFiniteSet(new)
      BY FS_Subset, ProcGroupConstants
    <3> QED BY <1>2, <3>1, FS_CardinalityType DEF Refresh, CountNew
  <2> QED BY <1>3, <2>1, <2>2 DEF IInv, TypeOK
<1>7. PtrOK'
  BY <1>3 DEF IInv, PtrOK
<1>8. BusyOK'
  <2> SUFFICES ASSUME NEW t \in Threads, pc[t] # "idle"
               PROVE  /\ ptr[t] \in live'
                      /\ pc[t] = "reap" => ptr[t] \in removing' \ table' /\ ref'[ptr[t]] = 0
    BY <1>3 DEF BusyOK
  <2> QED BY <1>3, <1>5 DEF IInv, BusyOK, PtrOK
<1>9. TableOK'
  BY <1>3, <1>4 DEF IInv, TableOK
<1>10. RefsCounted'
  <2> SUFFICES ASSUME NEW p \in live'
               PROVE  ref'[p] = Holds("disp", p)' + Holds("perf", p)'
    BY DEF RefsCounted
  <2>1. p \in Procs
    BY <1>6 DEF TypeOK
  <2>2. CASE p \in fresh
    <3>1. Holds("disp", p)' = 0 /\ Holds("perf", p)' = 0
      BY <2>2, <1>3, <1>5 DEF Holds, Threads
    <3> QED BY <2>1, <2>2, <3>1, <1>3
  <2>3. CASE p \notin fresh
    BY <2>1, <2>3, <1>3 DEF Holds, IInv, RefsCounted
  <2> QED BY <2>2, <2>3
<1>11. NoneLost'
  <2>1. ASSUME NEW p \in live' \ table'
        PROVE  p \in removing' /\ (ref'[p] > 0 \/ \E t \in Threads : pc'[t] = "reap" /\ ptr'[t] = p)
    <3>1. p \in live \ freed /\ p \notin fresh /\ p \in Procs
      BY <2>1, <1>3, <1>6 DEF TypeOK
    <3>2. CASE p \in table
      <4>1. p \in gone BY <3>2, <2>1, <1>3
      <4>2. ref[p] \in Nat \ {0} BY <4>1, <3>1 DEF IInv, TypeOK
      <4> QED BY <4>1, <4>2, <3>1, <1>3
    <3>3. CASE p \notin table
      BY <3>1, <3>3, <1>3 DEF IInv, NoneLost
    <3> QED BY <3>2, <3>3
  <2>2. (~over => table \cap removing = {})'
    BY <1>3, <1>4
  <2> QED BY <2>1, <2>2, <1>3 DEF IInv, NoneLost
<1>12. EndOK'
  BY <1>3, <1>4, <1>5 DEF IInv, EndOK
<1> QED BY <1>6, <1>7, <1>8, <1>9, <1>10, <1>11, <1>12 DEF IInv

LEMMA ResortStep == IInv /\ Resort => IInv'
<1> SUFFICES ASSUME IInv, Resort PROVE IInv'
  OBVIOUS
<1>1. UNCHANGED <<table, live, pid, ref, removing, latest, nprocs, pc, ptr, over>>
  BY DEF Resort, groupVars
<1>2. TypeOK'
  BY <1>1 DEF Resort, Walked, IInv, TypeOK
<1>3. PtrOK' /\ BusyOK' /\ TableOK' /\ RefsCounted' /\ NoneLost' /\ EndOK'
  BY <1>1 DEF IInv, PtrOK, BusyOK, TableOK, RefsCounted, Holds, NoneLost, EndOK
<1> QED BY <1>2, <1>3 DEF IInv

LEMMA FiniStep == IInv /\ Fini => IInv'
<1> SUFFICES ASSUME IInv, Fini PROVE IInv'
  OBVIOUS
<1>1. PICK freed \in SUBSET table : live' = live \ freed /\ nprocs' = nprocs - Cardinality(freed)
  BY DEF Fini
<1>2. /\ \A t \in Threads : pc[t] = "idle"
      /\ ~over /\ table \cap removing = {}
      /\ UNCHANGED <<table, pid, ref, removing, latest, sorted, sort_len, pc, ptr>>
  BY DEF Fini, IInv, TableOK
<1>3. over' = TRUE
  BY DEF Fini
<1>4. TypeOK'
  <2>1. Cardinality(freed) \in Nat
    <3>1. IsFiniteSet(freed)
      BY FS_Subset, ProcGroupConstants DEF IInv, TypeOK
    <3> QED BY <3>1, FS_CardinalityType
  <2>2. over' \in BOOLEAN
    BY <1>3, Zenon
  <2> QED BY <1>1, <1>2, <2>1, <2>2 DEF IInv, TypeOK
<1>5. PtrOK' /\ BusyOK'
  BY <1>2 DEF IInv, PtrOK, BusyOK
<1>6. TableOK'
  BY <1>3 DEF TableOK
<1>7. RefsCounted' /\ NoneLost'
  BY <1>1, <1>2, <1>3 DEF IInv, RefsCounted, Holds, NoneLost
<1>8. EndOK'
  BY <1>1, <1>2 DEF IInv, EndOK
<1> QED BY <1>4, <1>5, <1>6, <1>7, <1>8 DEF IInv

LEMMA FindStep == ASSUME IInv, NEW t \in Threads, Find(t) PROVE IInv'
<1>1. PICK n \in Pids, p \in Procs :
        /\ Match(n, p)
        /\ IF p \in removing
           THEN latest' = (IF latest = p THEN NoProc ELSE latest) /\ UNCHANGED <<ref, pc, ptr>>
           ELSE /\ TakeRef(p) /\ latest' = p
                /\ pc' = [pc EXCEPT ![t] = "held"] /\ ptr' = [ptr EXCEPT ![t] = p]
  BY DEF Find
<1>2. /\ ~over /\ pc[t] = "idle"
      /\ UNCHANGED <<table, live, pid, removing, nprocs, sorted, sort_len, over>>
  BY DEF Find
<1>3. p \in table /\ p \in live /\ p \notin removing
  BY <1>1, <1>2 DEF Match, Cached, IInv, TableOK
<1>4. /\ ref' = [ref EXCEPT ![p] = @ + 1] /\ latest' = p
      /\ pc' = [pc EXCEPT ![t] = "held"] /\ ptr' = [ptr EXCEPT ![t] = p]
  BY <1>1, <1>3 DEF TakeRef
<1>5. TypeOK'
  BY <1>2, <1>4 DEF IInv, TypeOK
<1>6. PtrOK'
  BY <1>4 DEF IInv, TypeOK, PtrOK
<1>7. BusyOK'
  BY <1>2, <1>3, <1>4 DEF IInv, TypeOK, BusyOK, PtrOK
<1>8. TableOK'
  BY <1>2, <1>3, <1>4 DEF IInv, TableOK
<1>9. RefsCounted'
  BY <1>2, <1>3, <1>4 DEF IInv, TypeOK, RefsCounted, Holds, Threads
<1>10. NoneLost'
  BY <1>2, <1>3, <1>4 DEF IInv, TypeOK, NoneLost
<1>11. EndOK'
  BY <1>2 DEF IInv, EndOK
<1> QED BY <1>5, <1>6, <1>7, <1>8, <1>9, <1>10, <1>11 DEF IInv

LEMMA DecStep == ASSUME IInv, NEW t \in Threads, Dec(t) PROVE IInv'
<1> DEFINE p == ptr[t]
<1>1. p \in Procs /\ p \in live /\ ref[p] \in Nat \ {0} /\ pc[t] = "held"
  BY HeldCounted DEF Dec, IInv, PtrOK
<1>2. /\ ref' = [ref EXCEPT ![p] = @ - 1]
      /\ UNCHANGED <<table, live, pid, removing, latest, nprocs, sorted, sort_len, over>>
  BY DEF Dec
<1>3. \/ /\ ref[p] = 1 /\ p \in removing
         /\ pc' = [pc EXCEPT ![t] = "reap"] /\ ptr' = ptr
      \/ /\ ~(ref[p] = 1 /\ p \in removing)
         /\ pc' = [pc EXCEPT ![t] = "idle"] /\ ptr' = [ptr EXCEPT ![t] = NoProc]
  BY DEF Dec, LastOfRemoved
<1>4. ~over
  BY <1>1 DEF IInv, EndOK
<1>5. ref[p] = Holds("disp", p) + Holds("perf", p)
  BY <1>1 DEF IInv, RefsCounted
<1>6. TypeOK'
  BY <1>1, <1>2, <1>3 DEF IInv, TypeOK
<1>7. PtrOK'
  BY <1>1, <1>3, ProcGroupConstants DEF IInv, TypeOK, PtrOK
<1>8. BusyOK'
  <2> SUFFICES ASSUME NEW u \in Threads
               PROVE  /\ pc'[u] # "idle" => ptr'[u] \in live
                      /\ pc'[u] = "reap" => ptr'[u] \in removing \ table /\ ref'[ptr'[u]] = 0
    BY <1>2 DEF BusyOK
  <2>1. CASE u = t
    BY <2>1, <1>1, <1>2, <1>3, <1>4 DEF IInv, TypeOK, TableOK
  <2>2. CASE u # t
    <3>1. pc'[u] = pc[u] /\ ptr'[u] = ptr[u]
      BY <2>2, <1>3 DEF IInv, TypeOK
    <3>2. pc[u] = "reap" => ptr[u] # p /\ ptr[u] \in Procs
      BY <1>1 DEF IInv, BusyOK, PtrOK
    <3> QED BY <3>1, <3>2, <1>2 DEF IInv, TypeOK, BusyOK
  <2> QED BY <2>1, <2>2
<1>9. TableOK'
  BY <1>2 DEF IInv, TableOK
<1>10. RefsCounted'
  BY <1>1, <1>2, <1>3 DEF IInv, TypeOK, RefsCounted, Holds, Threads
<1>11. NoneLost'
  <2>1. ASSUME NEW q \in live \ table
        PROVE  q \in removing /\ (ref'[q] > 0 \/ \E u \in Threads : pc'[u] = "reap" /\ ptr'[u] = q)
    <3>1. q \in removing /\ (ref[q] > 0 \/ \E u \in Threads : pc[u] = "reap" /\ ptr[u] = q)
      BY <2>1 DEF IInv, NoneLost
    <3>2. CASE q = p
      BY <3>1, <3>2, <1>1, <1>2, <1>3 DEF IInv, TypeOK
    <3>3. CASE q # p
      <4>1. q \in Procs /\ ref'[q] = ref[q]
        BY <2>1, <3>3, <1>2 DEF IInv, TypeOK
      <4>2. ASSUME NEW u \in Threads, pc[u] = "reap" PROVE pc'[u] = "reap" /\ ptr'[u] = ptr[u]
        BY <4>2, <1>1, <1>3 DEF IInv, TypeOK
      <4> QED BY <3>1, <4>1, <4>2
    <3> QED BY <3>2, <3>3
  <2>2. ASSUME NEW u \in Threads, NEW v \in Threads,
               pc'[u] = "reap", pc'[v] = "reap", ptr'[u] = ptr'[v]
        PROVE  u = v
    <3>1. \A w \in Threads \ {t} : pc'[w] = pc[w] /\ ptr'[w] = ptr[w]
      BY <1>3 DEF IInv, TypeOK
    <3>2. \A w \in Threads \ {t} : pc[w] = "reap" => ptr[w] # p
      BY <1>1 DEF IInv, BusyOK
    <3>3. pc'[t] = "reap" => ptr'[t] = p
      BY <1>1, <1>3 DEF IInv, TypeOK
    <3>4. CASE u # t /\ v # t
      BY <3>1, <3>4, <2>2 DEF IInv, NoneLost
    <3>5. CASE u = t \/ v = t
      BY <3>1, <3>2, <3>3, <3>5, <2>2
    <3> QED BY <3>4, <3>5
  <2> QED BY <2>1, <2>2, <1>2 DEF IInv, NoneLost
<1>12. EndOK'
  BY <1>2, <1>4 DEF IInv, EndOK
<1> QED BY <1>6, <1>7, <1>8, <1>9, <1>10, <1>11, <1>12 DEF IInv

LEMMA ReapStep == ASSUME IInv, NEW t \in Threads, Reap(t) PROVE IInv'
<1> DEFINE p == ptr[t]
<1>1. p \in Procs /\ p \in live /\ p \in removing \ table /\ ref[p] = 0 /\ pc[t] = "reap"
  BY DEF Reap, IInv, PtrOK, BusyOK
<1>2. /\ live' = live \ {p} /\ nprocs' = nprocs - 1 /\ removing' = removing \ {p}
      /\ pc' = [pc EXCEPT ![t] = "idle"] /\ ptr' = [ptr EXCEPT ![t] = NoProc]
      /\ UNCHANGED <<table, pid, ref, latest, sorted, sort_len, over>>
  BY <1>1 DEF Reap
<1>3. ~over
  BY <1>1 DEF IInv, EndOK
<1>4. \A u \in Threads \ {t} :
        pc'[u] = pc[u] /\ ptr'[u] = ptr[u] /\ (pc[u] # "idle" => ptr[u] # p)
  <2> SUFFICES ASSUME NEW u \in Threads \ {t}, pc[u] # "idle" PROVE ptr[u] # p
    BY <1>2 DEF IInv, TypeOK
  <2>1. CASE pc[u] = "held" BY <2>1, <1>1, HeldCounted
  <2>2. CASE pc[u] = "reap" BY <2>2, <1>1 DEF IInv, NoneLost
  <2> QED BY <2>1, <2>2 DEF IInv, TypeOK
<1>5. TypeOK'
  BY <1>2 DEF IInv, TypeOK
<1>6. PtrOK'
  BY <1>2, ProcGroupConstants DEF IInv, TypeOK, PtrOK
<1>7. BusyOK'
  <2> SUFFICES ASSUME NEW u \in Threads, pc'[u] # "idle"
               PROVE  /\ ptr'[u] \in live'
                      /\ pc'[u] = "reap" => ptr'[u] \in removing' \ table' /\ ref'[ptr'[u]] = 0
    BY DEF BusyOK
  <2>1. u # t
    BY <1>2 DEF IInv, TypeOK
  <2> QED BY <2>1, <1>2, <1>4 DEF IInv, BusyOK
<1>8. TableOK'
  BY <1>1, <1>2 DEF IInv, TableOK
<1>9. RefsCounted'
  BY <1>1, <1>2 DEF IInv, TypeOK, RefsCounted, Holds, Threads
<1>10. NoneLost'
  <2>1. ASSUME NEW q \in live' \ table'
        PROVE  q \in removing' /\ (ref'[q] > 0 \/ \E u \in Threads : pc'[u] = "reap" /\ ptr'[u] = q)
    <3>1. q # p /\ q \in removing
          /\ (ref[q] > 0 \/ \E u \in Threads : pc[u] = "reap" /\ ptr[u] = q)
      BY <2>1, <1>2 DEF IInv, NoneLost
    <3> QED BY <3>1, <1>2, <1>4
  <2>2. ASSUME NEW u \in Threads, NEW v \in Threads,
               pc'[u] = "reap", pc'[v] = "reap", ptr'[u] = ptr'[v]
        PROVE  u = v
    <3>1. u # t /\ v # t
      BY <2>2, <1>2 DEF IInv, TypeOK
    <3> QED BY <3>1, <2>2, <1>4 DEF IInv, NoneLost
  <2>3. (~over => table \cap removing = {})'
    BY <1>2 DEF IInv, NoneLost
  <2> QED BY <2>1, <2>2, <2>3 DEF NoneLost
<1>11. EndOK'
  BY <1>2, <1>3 DEF IInv, EndOK
<1> QED BY <1>5, <1>6, <1>7, <1>8, <1>9, <1>10, <1>11 DEF IInv

LEMMA StepIInv == IInv /\ [Next]_vars => IInv'
<1> SUFFICES ASSUME IInv, [Next]_vars PROVE IInv'
  OBVIOUS
<1>1. CASE PerfRefresh BY <1>1, RefreshStep
<1>2. CASE Resort BY <1>2, ResortStep
<1>3. CASE Fini BY <1>3, FiniStep
<1>4. ASSUME NEW t \in Threads, Find(t) PROVE IInv' BY <1>4, FindStep
<1>5. ASSUME NEW t \in Threads, Dec(t) PROVE IInv' BY <1>5, DecStep
<1>6. ASSUME NEW t \in Threads, Reap(t) PROVE IInv' BY <1>6, ReapStep
<1>7. CASE UNCHANGED vars
  BY <1>7 DEF vars, groupVars, IInv, TypeOK, PtrOK, BusyOK, TableOK, RefsCounted, Holds,
     NoneLost, EndOK
<1> QED BY <1>1, <1>2, <1>3, <1>4, <1>5, <1>6, <1>7 DEF Next, Terminated

-----------------------------------------------------------------------------
\* The strengthening of the safety properties is an invariant.
THEOREM IInvInvariant == Spec => []IInv
<1> QED BY InitIInv, StepIInv, PTL DEF Spec

\* The variables keep their types: in particular no reference count goes below
\* zero (proc_refcount_dec).
THEOREM TypeCorrect == Spec => []TypeOK
<1>1. IInv => TypeOK BY DEF IInv
<1> QED BY <1>1, IInvInvariant, PTL

\* ref_count is the number of threads between proc_find and proc_refcount_dec.
THEOREM RefsAlwaysCounted == Spec => []RefsCounted
<1>1. IInv => RefsCounted BY DEF IInv
<1> QED BY <1>1, IInvInvariant, PTL

\* Neither a thread, nor a hash chain, nor s_proc_group.latest points to a freed
\* structure (proc_free, proc_group_remove, proc_find_nolock).
THEOREM NeverDangling == Spec => []NoDangling
<1>1. IInv => NoDangling BY DEF IInv, TableOK, BusyOK, NoDangling
<1> QED BY <1>1, IInvInvariant, PTL

\* The table has one structure for a pid, also when a pid comes back while its old
\* structure is still referenced (proc_group_refresh's exist_arr).
THEOREM PidsAlwaysUnique == Spec => []PidsUnique
<1>1. Init => PidsUnique
  BY DEF Init, PidsUnique
<1>2. IInv /\ PidsUnique /\ [Next]_vars => PidsUnique'
  <2> SUFFICES ASSUME IInv, PidsUnique, [Next]_vars PROVE PidsUnique'
    OBVIOUS
  <2>1. CASE PerfRefresh
    <3>1. PICK new \in (SUBSET Pids) \ {{}}, fresh \in SUBSET Procs :
            \E new_pid \in [fresh -> new] : Refresh(new, fresh, new_pid)
      BY <2>1 DEF PerfRefresh
    <3>2. PICK new_pid \in [fresh -> new] : Refresh(new, fresh, new_pid)
      BY <3>1
    <3>3. /\ \A p \in fresh : new_pid[p] \notin {pid[q] : q \in table}
          /\ \A p, q \in fresh : new_pid[p] = new_pid[q] => p = q
          /\ \A p \in table' : p \in table \/ p \in fresh
          /\ \A p \in Procs : pid'[p] = IF p \in fresh THEN new_pid[p] ELSE pid[p]
      BY <3>2 DEF Refresh, Missing
    <3>4. table \subseteq Procs
      BY DEF IInv, TypeOK
    <3> QED BY <3>3, <3>4 DEF PidsUnique
  <2>2. CASE UNCHANGED <<table, pid>>
    BY <2>2 DEF PidsUnique
  <2> QED BY <2>1, <2>2 DEF Next, Terminated, Resort, Fini, Find, Dec, Reap, vars, groupVars
<1> QED BY <1>1, <1>2, IInvInvariant, PTL DEF Spec

\* A structure removed while referenced stays reachable for the one thread that
\* has to free it (proc_refcount_dec, proc_free).
THEOREM NeverLost == Spec => []NoneLost
<1>1. IInv => NoneLost BY DEF IInv
<1> QED BY <1>1, IInvInvariant, PTL

\* What a search of the table finds is there, and is what it looked for
\* (proc_find_nolock).
THEOREM TableAlwaysSound == Spec => []TableSound
<1>1. NoDangling /\ PidsUnique => TableSound BY DEF TableSound
<1> QED BY <1>1, NeverDangling, PidsAlwaysUnique, PTL

-----------------------------------------------------------------------------
(* The count of the table                                                  *)

\* What the undercount rests on: only disp can hold a structure across a refresh, and
\* while it holds one that was removed its late free has not been counted yet.
UnderOK ==
  /\ ~over =>
       /\ Cardinality(table) - nprocs \in {0, 1}
       /\ pc["perf"] # "idle" => ptr["perf"] \in table
       /\ pc["disp"] # "idle" /\ ptr["disp"] \notin table => nprocs = Cardinality(table)
  /\ Cardinality(sorted) - sort_len \in {0, 1}

\* A walk that stops has counted n structures, and the buckets up to there hold them.
LEMMA WalkedIs ==
  ASSUME TypeOK, Cardinality(table) - nprocs \in {0, 1}
  PROVE  Cardinality(Walked(nprocs)) - nprocs \in {0, 1}
<1>1. CASE \E i \in 0..(NBuckets - 1) : StopsAt(i, nprocs)
  <2>1. PICK i \in 0..(NBuckets - 1) : StopsAt(i, nprocs)
    BY <1>1
  <2>2. ASSUME NEW j \in 0..(NBuckets - 1), StopsAt(j, nprocs) PROVE j = i
    <3>1. i \in Int /\ j \in Int
      BY ProcGroupConstants
    <3>2. ~(i < j) /\ ~(j < i)
      BY <2>1, <2>2, <3>1, ProcGroupConstants DEF StopsAt
    <3> QED BY <3>1, <3>2
  <2>3. Walked(nprocs) = UpTo(i)
    BY <2>1, <2>2, Zenon DEF Walked, UpTo
  <2>4. Cardinality(UpTo(i)) = nprocs
    BY <2>1 DEF StopsAt
  <2> QED BY <2>3, <2>4 DEF TypeOK
<1>2. CASE ~\E i \in 0..(NBuckets - 1) : StopsAt(i, nprocs)
  <2>1. Walked(nprocs) = table
    BY <1>2, Zenon DEF Walked
  <2> QED BY <2>1
<1> QED BY <1>1, <1>2

\* After a refresh nprocs is what the table holds: one structure for each new pid.
LEMMA RefreshCounts ==
  ASSUME IInv, IInv', PidsUnique', PerfRefresh
  PROVE  nprocs' = Cardinality(table')
<1>1. PICK new \in (SUBSET Pids) \ {{}}, fresh \in SUBSET Procs :
        \E new_pid \in [fresh -> new] : Refresh(new, fresh, new_pid)
  BY DEF PerfRefresh
<1>2. PICK new_pid \in [fresh -> new] : Refresh(new, fresh, new_pid)
  BY <1>1
<1> DEFINE gone == {p \in table : pid[p] \notin new}
<1>3. /\ fresh \subseteq Procs \ (live \ FreeNow(gone))
      /\ {new_pid[p] : p \in fresh} = new \ {pid[p] : p \in table}
      /\ table' = (table \ gone) \cup fresh
      /\ pid' = [p \in Procs |-> IF p \in fresh THEN new_pid[p] ELSE pid[p]]
      /\ nprocs' = Cardinality(new)
  BY <1>2 DEF Refresh, Missing, CountNew
<1>4. table \subseteq live /\ live \subseteq Procs /\ table \subseteq Procs
  BY DEF PerfRefresh, IInv, TypeOK, TableOK
<1>5. \A p \in table \ gone : p \notin fresh
  BY <1>3, <1>4 DEF FreeNow
<1>6. table' \subseteq Procs
  BY <1>3, <1>4
<1>7. ASSUME NEW p \in table' PROVE pid'[p] \in new
  <2>1. CASE p \in fresh
    BY <2>1, <1>3
  <2>2. CASE p \notin fresh
    BY <2>2, <1>3, <1>6
  <2> QED BY <2>1, <2>2
<1>8. ASSUME NEW n \in new PROVE \E p \in table' : pid'[p] = n
  <2>1. CASE n \in {pid[p] : p \in table}
    <3>1. PICK p \in table : pid[p] = n
      BY <2>1
    <3>2. p \in table \ gone
      BY <3>1
    <3> QED BY <3>1, <3>2, <1>3, <1>4, <1>5
  <2>2. CASE n \notin {pid[p] : p \in table}
    <3>1. PICK p \in fresh : new_pid[p] = n
      BY <2>2, <1>3
    <3> QED BY <3>1, <1>3
  <2> QED BY <2>1, <2>2
<1> DEFINE f == [p \in table' |-> pid'[p]]
<1>9. f \in Bijection(table', new)
  <2>1. f \in [table' -> new]
    BY <1>7
  <2>2. \A p, q \in table' : f[p] = f[q] => p = q
    BY DEF PidsUnique
  <2>3. \A n \in new : \E p \in table' : f[p] = n
    BY <1>8
  <2> QED BY <2>1, <2>2, <2>3 DEF Bijection, Injection, IsInjective, Surjection
<1>10. ExistsBijection(table', new)
  BY <1>9, Zenon DEF ExistsBijection
<1>11. IsFiniteSet(table')
  BY <1>6, FS_Subset, ProcGroupConstants
<1> QED BY <1>3, <1>10, <1>11, FS_Bijection

LEMMA InitUnder == Init => UnderOK
<1> SUFFICES ASSUME Init PROVE UnderOK
  OBVIOUS
<1>1. table = {} /\ nprocs = 0 /\ sorted = {} /\ sort_len = 0 /\ \A t \in Threads : pc[t] = "idle"
  BY DEF Init
<1> QED BY <1>1, FS_EmptySet DEF UnderOK, Threads

LEMMA StepUnder ==
  ASSUME IInv, IInv', PidsUnique', UnderOK, [Next]_vars
  PROVE  UnderOK'
<1>0. /\ table \subseteq Procs /\ nprocs \in Int /\ Cardinality(table) \in Nat
      /\ pc \in [Threads -> {"idle", "held", "reap"}]
      /\ ptr \in [Threads -> Procs \cup {NoProc}]
  <2>1. TypeOK
    BY DEF IInv
  <2>2. IsFiniteSet(table)
    BY <2>1, FS_Subset, ProcGroupConstants DEF TypeOK
  <2> QED BY <2>1, <2>2, FS_CardinalityType DEF TypeOK
<1>1. CASE PerfRefresh
  <2>1. nprocs' = Cardinality(table')
    BY <1>1, RefreshCounts
  <2>2. nprocs' \in Int
    BY DEF IInv, TypeOK
  <2>3. pc["perf"] = "idle" /\ pc' = pc /\ sorted' = sorted /\ sort_len' = sort_len
    BY <1>1 DEF PerfRefresh, Refresh
  <2> QED BY <2>1, <2>2, <2>3 DEF UnderOK
<1>2. CASE Resort
  <2>1. /\ ~over /\ sorted' = Walked(nprocs) /\ sort_len' = nprocs
        /\ table' = table /\ nprocs' = nprocs /\ pc' = pc /\ ptr' = ptr /\ over' = over
    BY <1>2 DEF Resort, groupVars
  <2>2. Cardinality(Walked(nprocs)) - nprocs \in {0, 1}
    BY <2>1, WalkedIs DEF IInv, UnderOK
  <2> QED BY <2>1, <2>2 DEF UnderOK
<1>3. CASE Fini
  <2>1. over' = TRUE /\ sorted' = sorted /\ sort_len' = sort_len
    BY <1>3 DEF Fini
  <2> QED BY <2>1 DEF UnderOK
<1>4. ASSUME NEW t \in Threads, Find(t) PROVE UnderOK'
  <2>1. /\ ~over /\ table' = table /\ nprocs' = nprocs /\ sorted' = sorted
        /\ sort_len' = sort_len /\ over' = over
    BY <1>4 DEF Find
  <2>2. \/ pc' = pc /\ ptr' = ptr
        \/ \E p \in table : pc' = [pc EXCEPT ![t] = "held"] /\ ptr' = [ptr EXCEPT ![t] = p]
    <3>1. PICK n \in Pids, p \in Procs :
            /\ Match(n, p)
            /\ IF p \in removing
               THEN latest' = (IF latest = p THEN NoProc ELSE latest) /\ UNCHANGED <<ref, pc, ptr>>
               ELSE /\ TakeRef(p) /\ latest' = p
                    /\ pc' = [pc EXCEPT ![t] = "held"] /\ ptr' = [ptr EXCEPT ![t] = p]
      BY <1>4 DEF Find
    <3>2. p \in table
      BY <2>1, <3>1 DEF Match, Cached, IInv, TableOK
    <3> QED BY <3>1, <3>2
  <2>3. \A u \in {"disp", "perf"} :
          (pc'[u] = pc[u] /\ ptr'[u] = ptr[u]) \/ ptr'[u] \in table
    BY <1>0, <2>2 DEF Threads
  <2> QED BY <2>1, <2>3 DEF UnderOK
<1>5. ASSUME NEW t \in Threads, Dec(t) PROVE UnderOK'
  <2>1. /\ table' = table /\ nprocs' = nprocs /\ sorted' = sorted
        /\ sort_len' = sort_len /\ over' = over /\ pc[t] = "held"
    BY <1>5 DEF Dec
  <2>2. \/ pc' = [pc EXCEPT ![t] = "reap"] /\ ptr' = ptr
        \/ pc' = [pc EXCEPT ![t] = "idle"] /\ ptr' = [ptr EXCEPT ![t] = NoProc]
    BY <1>5 DEF Dec
  <2>3. \A u \in {"disp", "perf"} :
          (pc[u] # "idle" /\ ptr'[u] = ptr[u]) \/ pc'[u] = "idle"
    <3> SUFFICES ASSUME NEW u \in Threads
                 PROVE  (pc[u] # "idle" /\ ptr'[u] = ptr[u]) \/ pc'[u] = "idle"
      BY DEF Threads
    <3>1. CASE u = t
      BY <1>0, <2>1, <2>2, <3>1
    <3>2. CASE u # t
      BY <1>0, <2>2, <3>2
    <3> QED BY <3>1, <3>2
  <2> QED BY <2>1, <2>3 DEF UnderOK
<1>6. ASSUME NEW t \in Threads, Reap(t) PROVE UnderOK'
  <2>1. /\ pc[t] = "reap" /\ ptr[t] \notin table /\ ref[ptr[t]] = 0 /\ ~over
    BY <1>6 DEF Reap, IInv, BusyOK, EndOK
  <2>2. /\ table' = table /\ nprocs' = nprocs - 1 /\ sorted' = sorted
        /\ sort_len' = sort_len /\ over' = over
        /\ pc' = [pc EXCEPT ![t] = "idle"] /\ ptr' = [ptr EXCEPT ![t] = NoProc]
    BY <1>6, <2>1 DEF Reap
  <2>3. t = "disp" /\ nprocs = Cardinality(table)
    BY <2>1 DEF UnderOK, Threads
  <2>4. pc'["disp"] = "idle" /\ pc'["perf"] = pc["perf"] /\ ptr'["perf"] = ptr["perf"]
    BY <1>0, <2>2, <2>3 DEF Threads
  <2> QED BY <1>0, <2>1, <2>2, <2>3, <2>4 DEF UnderOK
<1>7. CASE UNCHANGED vars
  BY <1>7 DEF vars, groupVars, UnderOK
<1> QED BY <1>1, <1>2, <1>3, <1>4, <1>5, <1>6, <1>7 DEF Next, Terminated

\* nprocs is what the table holds, or one less after the late free of a structure the
\* last refresh had left out, and the sort writes at most one entry more than its array
\* has (proc_refcount_dec, proc_free, proc_group_refresh, proc_sortkey).
THEOREM UndercountAlwaysAtMostOne == Spec => []UndercountAtMostOne
<1>1. UnderOK => UndercountAtMostOne
  BY DEF UnderOK, UndercountAtMostOne
<1>2. IInv /\ IInv' /\ PidsUnique' /\ UnderOK /\ [Next]_vars => UnderOK'
  BY StepUnder
<1> QED BY <1>1, <1>2, InitUnder, IInvInvariant, PidsAlwaysUnique, PTL DEF Spec
=============================================================================
