----------------------------- MODULE UserMemory -----------------------------
(* The memory of user processes: page frames and their reference counts        *)
(* (ov6_kernel/src/memory/page_manager.rs, page_allocator.rs and the crate     *)
(* page_alloc), page-table entries with copy-on-write (memory/page_table/),    *)
(* and what sbrk, fork, exec, exit and a store do with them                    *)
(* (memory/vm_user.rs, proc/exec.rs, proc/ops.rs).                             *)
(*                                                                             *)
(* Page -1 is the program text, mapped read-only by exec, page 0 the stack and *)
(* the pages from 1 up are the heap.  A process runs one call at a time, but a *)
(* store to a shared page is three steps, so two processes may take the same   *)
(* page apart at once.  A page-table page may always be missing when one is    *)
(* needed.                                                                     *)
EXTENDS Integers, FiniteSets

CONSTANTS Tasks,      \* process slots
          NFrame,     \* page frames; the first process starts with two
          MaxHeap,    \* heap pages that fit below the highest user address
          MaxCalls,   \* bound on the calls of sbrk, fork and exec
          Values      \* contents of a page, 0 when zeroed

VARIABLES free,       \* the free list of the page allocator
          count,      \* ref_count of each frame
          mem,        \* contents of each frame
          pt,         \* page table of each process: page -> [pa, perm]
          size,       \* heap_size, in pages
          cow,        \* the copy-on-write store a process is in the middle of
          view,       \* what each process should see at each of its pages
          life,       \* "dead", "run" or "killed"
          calls,
          starved,    \* a store found no frame for its copy
          leaked,     \* frames whose count a failed fork left too high
          panicked    \* the kernel panicked

memVars == <<free, count, mem, pt, size, cow, view, life, calls, starved, leaked, panicked>>

Frames == 1..NFrame
Text == -1
Stack == 0
UserPages == Text..MaxHeap
NoCow == [page |-> 0, old |-> 0, pc |-> "none"]
Pte(a, m) == [pa |-> a, perm |-> m]
NoPte == Pte(0, "-")
NoMap == [v \in UserPages |-> NoPte]
Zeros == [v \in UserPages |-> 0]
Image(a, b) ==
  [v \in UserPages |-> IF v = Text THEN Pte(a, "R") ELSE IF v = Stack THEN Pte(b, "W") ELSE NoPte]

(* The pages a process has, and those at which it maps a frame.                *)
Mapped(p) == {v \in UserPages : pt[p][v] # NoPte}
Maps(p, f) == {v \in UserPages : pt[p][v].pa = f}

MemInit ==
  LET first == CHOOSE p \in Tasks : TRUE IN
    /\ free = Frames \ {1, 2}
    /\ count = [f \in Frames |-> IF f <= 2 THEN 1 ELSE 0]
    /\ mem = [f \in Frames |-> 0]
    /\ pt = [p \in Tasks |-> IF p = first THEN Image(1, 2) ELSE NoMap]
    /\ size = [p \in Tasks |-> 0]
    /\ cow = [p \in Tasks |-> NoCow]
    /\ view = [p \in Tasks |-> Zeros]
    /\ life = [p \in Tasks |-> IF p = first THEN "run" ELSE "dead"]
    /\ calls = 0 /\ starved = FALSE /\ leaked = {} /\ panicked = FALSE

(* Page::alloc gives the first page of the free list.                          *)
First(f) == f \in free /\ \A g \in free : f <= g

(* Drop for Page, n[f] times for each frame f, with free list fr and counts c: *)
(* the last reference frees, and "page already freed" is a panic.              *)
DropPages(fr, c, n) ==
  /\ free' = fr \cup {f \in Frames : 0 < c[f] /\ c[f] <= n[f]}
  /\ count' = [f \in Frames |-> IF n[f] < c[f] THEN c[f] - n[f] ELSE 0]
Bad(c, n) == \E f \in Frames : c[f] < n[f]
Sound(fr, c, n) == DropPages(fr, c, n) /\ panicked' = Bad(c, n)

(* How often a process drops each frame when the entries of some pages go.     *)
FreedAt(p, vs) == [f \in Frames |-> Cardinality(vs \cap Maps(p, f))]
Once(f) == [g \in Frames |-> IF g = f THEN 1 ELSE 0]
Unmap(p, vs) == [v \in UserPages |-> IF v \in vs THEN NoPte ELSE pt[p][v]]

Ready(p) == life[p] = "run" /\ cow[p] = NoCow
Call(p) == Ready(p) /\ calls < MaxCalls /\ calls' = calls + 1

(* sbrk first asks for the program break, which panics when the heap does not  *)
(* fit below the highest address.                                              *)
BreakFits(p) == size[p] <= MaxHeap

(* The size the heap has after its frames ran out.                             *)
SizeBefore(p, n) == size[p]

(* map_addrs: zeroed frames, the first of the free list, for some pages.       *)
MapNew(p, at) ==
  \E new \in [at -> free] :
    LET taken == {new[v] : v \in at}
    IN /\ \A v, w \in at : v < w => new[v] < new[w]
       /\ \A f \in free \ taken, g \in taken : g < f
       /\ free' = free \ taken
       /\ count' = [f \in Frames |-> IF f \in taken THEN 1 ELSE count[f]]
       /\ mem' = [f \in Frames |-> IF f \in taken THEN 0 ELSE mem[f]]
       /\ pt' = [pt EXCEPT ![p] =
                   [v \in UserPages |-> IF v \in at THEN Pte(new[v], "W") ELSE pt[p][v]]]
       /\ view' = [view EXCEPT ![p] = [v \in UserPages |-> IF v \in at THEN 0 ELSE view[p][v]]]

(* grow_heap_to_size by n pages.  The new size is recorded first.  Beyond the  *)
(* address space that stays; when frames run out the heap shrinks back.        *)
Grow(p, n) ==
  /\ Call(p) /\ BreakFits(p)
  /\ \/ /\ size[p] + n > MaxHeap
        /\ size' = [size EXCEPT ![p] = @ + n]
        /\ UNCHANGED <<free, count, mem, pt, view>>
     \/ /\ size[p] + n <= MaxHeap
        /\ size' = [size EXCEPT ![p] = SizeBefore(p, n)]
        /\ UNCHANGED <<free, count, mem, pt, view>>
     \/ /\ size[p] + n <= MaxHeap
        /\ MapNew(p, size[p]+1..size[p]+n)
        /\ size' = [size EXCEPT ![p] = @ + n]
  /\ UNCHANGED <<cow, life, starved, leaked, panicked>>

Shrink(p, n) ==
  LET gone == size[p]-n+1..size[p]
  IN /\ Call(p) /\ BreakFits(p) /\ n <= size[p]
     /\ Sound(free, count, FreedAt(p, gone))
     /\ pt' = [pt EXCEPT ![p] = Unmap(p, gone)]
     /\ view' = [view EXCEPT ![p] = [v \in UserPages |-> IF v \in gone THEN 0 ELSE view[p][v]]]
     /\ size' = [size EXCEPT ![p] = @ - n]
     /\ UNCHANGED <<mem, cow, life, starved, leaked>>

SbrkPanics(p) ==
  /\ Call(p) /\ ~BreakFits(p)
  /\ panicked' = TRUE
  /\ UNCHANGED <<free, count, mem, pt, size, cow, view, life, starved, leaked>>


(* clone_pages_from: each leaf loses W for C, its frame is counted once more,  *)
(* and the child maps it.  When that fails at page v the child's table goes,   *)
(* with the count of the pages it had mapped but not of page v.  The end of    *)
(* the heap is computed after text and stack were cloned.                      *)
CopyOnWrite(e) == IF e.perm = "W" THEN [e EXCEPT !.perm = "C"] ELSE e
Shared(p, vs) == [v \in UserPages |-> IF v \in vs THEN CopyOnWrite(pt[p][v]) ELSE pt[p][v]]

Fork(p, c) ==
  /\ Call(p) /\ life[c] = "dead"
  /\ \/ /\ BreakFits(p)
        /\ count' = [f \in Frames |-> count[f] + Cardinality(Maps(p, f))]
        /\ pt' = [pt EXCEPT ![p] = Shared(p, UserPages), ![c] = Shared(p, UserPages)]
        /\ view' = [view EXCEPT ![c] = view[p]]
        /\ size' = [size EXCEPT ![c] = size[p]]
        /\ life' = [life EXCEPT ![c] = "run"]
        /\ UNCHANGED leaked
     \/ \E v \in Mapped(p) :
          /\ pt' = [pt EXCEPT ![p] = Shared(p, Text..v)]
          /\ count' = [count EXCEPT ![pt[p][v].pa] = @ + 1]
          /\ leaked' = leaked \cup {pt[p][v].pa}
          /\ UNCHANGED <<view, size, life>>
     \/ /\ ~BreakFits(p)
        /\ pt' = [pt EXCEPT ![p] = Shared(p, {Text, Stack})]
        /\ UNCHANGED <<count, leaked, view, size, life>>
  /\ UNCHANGED <<free, mem, cow, starved, panicked>>

(* A store, by the user or by copy_k2u.  Unless the page is writable the       *)
(* kernel looks at the count of the frame.                                     *)
StorePlain(p, v, x) ==
  /\ Ready(p) /\ pt[p][v].perm = "W"
  /\ mem' = [mem EXCEPT ![pt[p][v].pa] = x]
  /\ view' = [view EXCEPT ![p][v] = x]
  /\ UNCHANGED <<free, count, pt, size, cow, life, calls, starved, leaked, panicked>>

StoreFault(p, v) ==
  /\ Ready(p) /\ pt[p][v].perm # "W"
  /\ \/ /\ pt[p][v].perm = "R"
        /\ life' = [life EXCEPT ![p] = "killed"]
        /\ UNCHANGED <<pt, cow>>
     \/ /\ pt[p][v].perm = "C" /\ count[pt[p][v].pa] = 1
        /\ pt' = [pt EXCEPT ![p][v].perm = "W"]
        /\ UNCHANGED <<life, cow>>
     \/ /\ pt[p][v].perm = "C" /\ count[pt[p][v].pa] # 1
        /\ cow' = [cow EXCEPT ![p] = [page |-> v, old |-> pt[p][v].pa, pc |-> "copy"]]
        /\ UNCHANGED <<pt, life>>
  /\ UNCHANGED <<free, count, mem, size, view, calls, starved, leaked, panicked>>

(* A frame for the copy.  Without one the early return drops the old page,     *)
(* although the entry still maps it; then the process is killed, or, when it   *)
(* was the kernel that stored, the kernel panics.                              *)
CowCopy(p) ==
  LET v == cow[p].page
      old == cow[p].old
  IN /\ cow[p].pc = "copy"
     /\ \/ /\ \E f \in free :
                /\ First(f)
                /\ free' = free \ {f}
                /\ count' = [count EXCEPT ![f] = 1]
                /\ mem' = [mem EXCEPT ![f] = mem[old]]
                /\ pt' = [pt EXCEPT ![p][v] = Pte(f, "W")]
           /\ cow' = [cow EXCEPT ![p].pc = "drop"]
           /\ UNCHANGED <<life, starved, panicked>>
        \/ /\ free = {}
           /\ DropPages(free, count, Once(old))
           /\ \E kernel \in BOOLEAN : panicked' = (kernel \/ Bad(count, Once(old)))
           /\ cow' = [cow EXCEPT ![p] = NoCow]
           /\ life' = [life EXCEPT ![p] = "killed"]
           /\ starved' = TRUE
           /\ UNCHANGED <<mem, pt>>
     /\ UNCHANGED <<size, view, calls, leaked>>

CowDrop(p) ==
  /\ cow[p].pc = "drop"
  /\ Sound(free, count, Once(cow[p].old))
  /\ cow' = [cow EXCEPT ![p] = NoCow]
  /\ UNCHANGED <<mem, pt, size, view, life, calls, starved, leaked>>

(* exec builds a new table for text and stack, and drops the old one only when *)
(* it is complete; without frames nothing has changed.                         *)
Exec(p) ==
  /\ Call(p)
  /\ \E a, b \in free :
       /\ First(a) /\ a # b /\ \A g \in free \ {a} : b <= g
       /\ Sound(free \ {a, b}, [count EXCEPT ![a] = 1, ![b] = 1], FreedAt(p, UserPages))
       /\ mem' = [mem EXCEPT ![a] = 0, ![b] = 0]
       /\ pt' = [pt EXCEPT ![p] = Image(a, b)]
  /\ view' = [view EXCEPT ![p] = Zeros]
  /\ size' = [size EXCEPT ![p] = 0]
  /\ UNCHANGED <<cow, life, starved, leaked>>

(* exit, wait and free: the page table goes with everything it maps.           *)
Exit(p) ==
  /\ life[p] \in {"run", "killed"} /\ cow[p] = NoCow
  /\ Sound(free, count, FreedAt(p, UserPages))
  /\ pt' = [pt EXCEPT ![p] = NoMap]
  /\ view' = [view EXCEPT ![p] = Zeros]
  /\ size' = [size EXCEPT ![p] = 0]
  /\ life' = [life EXCEPT ![p] = "dead"]
  /\ UNCHANGED <<mem, cow, calls, starved, leaked>>

MemNext ==
  /\ ~panicked
  /\ \E p \in Tasks :
       \/ \E n \in 1..2 : Grow(p, n) \/ Shrink(p, n)
       \/ SbrkPanics(p)
       \/ \E c \in Tasks : Fork(p, c)
       \/ \E v \in Mapped(p) : StoreFault(p, v) \/ \E x \in Values : StorePlain(p, v, x)
       \/ CowCopy(p) \/ CowDrop(p) \/ Exec(p) \/ Exit(p)

MemSpec == MemInit /\ [][MemNext]_memVars

-----------------------------------------------------------------------------

MemTypeOK ==
  /\ free \subseteq Frames /\ leaked \subseteq Frames
  /\ count \in [Frames -> Nat] /\ mem \in [Frames -> Values]
  /\ pt \in [Tasks -> [UserPages -> {NoPte} \cup [pa : Frames, perm : {"R", "W", "C"}]]]
  /\ size \in [Tasks -> Nat]
  /\ cow \in [Tasks -> {NoCow} \cup [page : UserPages, old : Frames, pc : {"copy", "drop"}]]
  /\ view \in [Tasks -> [UserPages -> Values]]
  /\ life \in [Tasks -> {"dead", "run", "killed"}]
  /\ calls \in Nat /\ starved \in BOOLEAN /\ panicked \in BOOLEAN

(* Who has a reference to a frame: who maps it, and who owes its drop.         *)
Owes(p, f) == cow[p].pc = "drop" /\ cow[p].old = f
Holders(f) == {p \in Tasks : Maps(p, f) # {} \/ Owes(p, f)}

(* Everybody has at most one reference to a frame, so that counting processes  *)
(* counts references.                                                          *)
HeldOnce ==
  ~starved => \A p \in Tasks, f \in Frames :
                /\ \A v, w \in Maps(p, f) : v = w
                /\ Owes(p, f) => Maps(p, f) = {}

(* The count of a frame is the number of page-table entries that map it, and a *)
(* frame is free exactly when there are none, through fork, copy-on-write on   *)
(* two processors, sbrk, exec and exit.  It is too high only for a frame whose *)
(* fork failed, and is not to be trusted after a store found no frame for its  *)
(* copy.                                                                       *)
CountsAgree ==
  ~starved => \A f \in Frames : /\ f \in leaked => count[f] > Cardinality(Holders(f))
                                /\ f \notin leaked => count[f] = Cardinality(Holders(f))
                                /\ f \in free <=> count[f] = 0

(* Sharing pages is invisible: each process reads at each of its pages what it *)
(* last stored there, or what it inherited, and never what another stored; for *)
(* a page it may write is nobody else's.                                       *)
MemoryIsPrivate ==
  ~starved => \A p \in Tasks : \A v \in Mapped(p) :
                /\ mem[pt[p][v].pa] = view[p][v]
                /\ pt[p][v].perm = "W" => Holders(pt[p][v].pa) = {p}

(* A copy-on-write store is about a page that is still as it was found.        *)
CowIsCurrent ==
  \A p \in Tasks : /\ cow[p].pc # "none" => life[p] = "run"
                   /\ cow[p].pc = "copy" => pt[p][cow[p].page] = Pte(cow[p].old, "C")

(* The heap's size is the number of its mapped pages, and sbrk can report the  *)
(* program break; only a request past the highest address leaves a size the    *)
(* heap does not have, and the next sbrk stops the kernel; nothing else does   *)
(* but a store that found no frame.                                            *)
HeapIsMapped ==
  /\ \A p \in Tasks : IF life[p] = "dead" THEN size[p] = 0 /\ Mapped(p) = {}
                      ELSE BreakFits(p) => Mapped(p) = Text..size[p]
  /\ panicked => starved \/ \E p \in Tasks : size[p] > MaxHeap

=============================================================================
