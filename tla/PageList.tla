-------------------------------- MODULE PageList --------------------------------
(***************************************************************************)
(* The doubly linked page list of page.c, as the operations of cmd.c and   *)
(* the display thread use it.  The list implements PageStack: the pages    *)
(* from head to tail are the stack, and next_run is its pending mark.      *)
(***************************************************************************)
EXTENDS Naturals, FiniteSets, Sequences

CONSTANTS
  Addrs,   \* addresses of page_t structures: at most so many pages at a time
  Null,    \* the NULL pointer
  Opens    \* commands op_page_next is called with

ASSUME PageListConstants ==
  /\ IsFiniteSet(Addrs) /\ Null \notin Addrs
  /\ Opens \subseteq {"MONITOR", "MAP_LIST", "OVERVIEW", "DETAIL"}

VARIABLES
  list,    \* s_page_list: head, tail, cur, next_run, npages
  node,    \* the page_t at an address
  used,    \* the addresses allocated
  scr_ok   \* the screen is at least 80x24

vars == <<list, node, used, scr_ok>>

Ptr == Addrs \cup {Null}
PageT == [cmd : Opens \cup {"HOME"}, prev : Ptr, next : Ptr,
          inited : BOOLEAN, ever : BOOLEAN]

TypeOK ==
  /\ list \in [head : Ptr, tail : Ptr, cur : Ptr, next_run : Ptr, npages : Nat]
  /\ node \in [Addrs -> PageT]
  /\ used \subseteq Addrs
  /\ scr_ok \in BOOLEAN

Empty == [head |-> Null, tail |-> Null, cur |-> Null, next_run |-> Null, npages |-> 0]
Zeroed(c) == [cmd |-> c, prev |-> Null, next |-> Null, inited |-> FALSE, ever |-> FALSE]

Init ==
  /\ list = Empty
  /\ node = [a \in Addrs |-> Zeroed("HOME")]
  /\ used = {} /\ scr_ok = TRUE

-----------------------------------------------------------------------------
(* page.c, as functions of the memory m = [list, node, used]               *)

Memory == [list |-> list, node |-> node, used |-> used]
Becomes(m) == list' = m.list /\ node' = m.node /\ used' = m.used

\* The i-th structure of the chain that starts at p, and the whole chain.
Walk(n, p) ==
  LET w[i \in 0..Cardinality(Addrs)] ==
        IF i = 0 THEN p ELSE IF w[i - 1] = Null THEN Null ELSE n[w[i - 1]].next
  IN w
Chain(n, p) == {Walk(n, p)[i] : i \in 0..Cardinality(Addrs)} \ {Null}

\* page_free of some pages; what a freed structure held is not kept, because no
\* pointer leads to it (NoneLeaked).
Freed(n, gone) == [a \in Addrs |-> IF a \in gone THEN Zeroed("HOME") ELSE n[a]]

\* page_list_fini
ListFini(m) ==
  LET gone == Chain(m.node, m.list.head)
  IN [list |-> Empty, node |-> Freed(m.node, gone), used |-> m.used \ gone]

After(m, p) == Chain(m.node, m.node[p].next)
\* (faulty) the page itself is counted among those dropped
CutOneMore(m, p, gone) ==
  [m.list EXCEPT !.tail = p, !.npages = @ - Cardinality(gone) - 1]
Cut(m, p, gone) == [m.list EXCEPT !.tail = p, !.npages = @ - Cardinality(gone)]
\* (faulty) the pages are unlinked and not freed
DropUnfreed(m, p) ==
  [list |-> Cut(m, p, After(m, p)), node |-> [m.node EXCEPT ![p].next = Null],
   used |-> m.used]
\* page_drop_next(p), p # NULL
DropNext(m, p) ==
  LET gone == After(m, p)
  IN [list |-> Cut(m, p, gone),
      node |-> [Freed(m.node, gone) EXCEPT ![p].next = Null],
      used |-> m.used \ gone]

\* page_append
Appended(m, p) ==
  LET tail == m.list.tail
  IN [list |-> [m.list EXCEPT !.npages = @ + 1, !.tail = p,
                              !.head = IF tail = Null THEN p ELSE @],
      node |-> [a \in Addrs |->
                  IF a = p THEN [m.node[p] EXCEPT !.prev = tail, !.next = Null]
                  ELSE IF a = tail THEN [m.node[a] EXCEPT !.next = p]
                  ELSE m.node[a]],
      used |-> m.used]

\* page_create, zalloc having returned p
Created(m, p, c) ==
  LET fresh == [list |-> m.list, node |-> [m.node EXCEPT ![p] = Zeroed(c)],
                used |-> m.used \cup {p}]
      cut == IF m.list.cur = Null THEN fresh ELSE DropNext(fresh, m.list.cur)
      new == Appended(cut, p)
  IN [list |-> [new.list EXCEPT !.next_run = p], node |-> new.node, used |-> new.used]

\* page_show: the window of the page is initialised, win_dyn_init returning ok
Shown(n, run, ok) ==
  LET opens == scr_ok /\ ok /\ ~n[run].inited
  IN [n EXCEPT ![run].inited = @ \/ opens, ![run].ever = @ \/ opens]
\* (faulty) the page stays pending after it is drawn
ExecutedKept(m, smpl, ok) ==
  [list |-> [m.list EXCEPT !.cur = m.list.next_run],
   node |-> Shown(m.node, m.list.next_run, ok), used |-> m.used]
\* page_next_execute(smpl)
Executed(m, smpl, ok) ==
  [list |-> [m.list EXCEPT !.cur = m.list.next_run,
                           !.next_run = IF smpl THEN @ ELSE Null],
   node |-> Shown(m.node, m.list.next_run, ok), used |-> m.used]

-----------------------------------------------------------------------------
(* The callers *)

\* op_page_next, or op_home from a list just emptied; zalloc may fail
Open(m, c) ==
  \/ \E p \in Addrs \ m.used, smpl, ok \in BOOLEAN :
       Becomes(Executed(Created(m, p, c), smpl, ok))
  \/ Becomes(m)

OpPageNext == \E c \in Opens : Open(Memory, c) /\ UNCHANGED scr_ok
OpHome == Open(ListFini(Memory), "HOME") /\ UNCHANGED scr_ok

\* page_curprev_get is not NULL
OpPagePrev ==
  /\ list.cur # Null /\ node[list.cur].prev # Null
  /\ LET prev == node[list.cur].prev
         cut == DropNext(Memory, prev)
         back == [list |-> [cut.list EXCEPT !.cur = prev, !.next_run = prev],
                  node |-> cut.node, used |-> cut.used]
     IN \E smpl, ok \in BOOLEAN : Becomes(Executed(back, smpl, ok))
  /\ UNCHANGED scr_ok

\* op_refresh; os_page_smpl_start starts a sample for every kind of page
OpRefresh ==
  /\ list.cur # Null
  /\ list' = [list EXCEPT !.next_run = list.cur]
  /\ UNCHANGED <<node, used, scr_ok>>

\* DATA_READY
Ready ==
  /\ list.next_run # Null
  /\ \E ok \in BOOLEAN : Becomes(Executed(Memory, FALSE, ok))
  /\ UNCHANGED scr_ok

\* page_win_destroy and reg_curses_init
Resize ==
  /\ node' = [a \in Addrs |-> IF a \in Chain(node, list.head)
                              THEN [node[a] EXCEPT !.inited = FALSE] ELSE node[a]]
  /\ scr_ok' \in BOOLEAN
  /\ UNCHANGED <<list, used>>

\* L_EXIT of disp_handler
ListExit == Becomes(ListFini(Memory)) /\ UNCHANGED scr_ok

Next == \/ OpPageNext \/ OpHome \/ OpPagePrev \/ OpRefresh \/ Ready \/ Resize
        \/ ListExit

Spec == Init /\ [][Next]_vars

-----------------------------------------------------------------------------
\* The list is a chain from head to tail, its back links are the inverse of its
\* links, npages is its length, and the current page is the tail: the pages after
\* it have been dropped (page_append, page_drop_next).
Linked ==
  LET chain == Chain(node, list.head)
  IN /\ Cardinality(chain) = list.npages
     /\ list.cur = list.tail /\ (list.tail = Null <=> list.head = Null)
     /\ \A a, b \in chain : node[a].next = b <=> node[b].prev = a
     /\ \A a \in chain : node[a].next = Null <=> a = list.tail

\* Every page allocated is in the list, every page of the list is allocated, and
\* the page waiting to run is the current one, never one that was dropped
\* (page_free, page_drop_next, op_page_prev).
NoneLeaked == used = Chain(node, list.head) /\ list.next_run \in {Null, list.cur}

\* The list is a list, and the pages allocated are its pages, after any operation
\* (page_create, page_drop_next, page_list_fini).
ListOK == Linked /\ NoneLeaked

\* The list as a stack of pages.
StackOf ==
  [i \in 1..list.npages |->
     LET p == node[Walk(node, list.head)[i - 1]]
     IN [cmd |-> p.cmd, inited |-> p.inited, ever |-> p.ever]]

Stack == INSTANCE PageStack
         WITH pages <- StackOf, next_run <- (list.next_run # Null)

\* Every operation on the list is an operation of PageStack on what it stands for.
ImplementsStack == Stack!StackSpec
=============================================================================
