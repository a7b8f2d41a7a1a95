----------------------------- MODULE PageAlloc -----------------------------
(* The two allocators whose free list is threaded through the free memory      *)
(* itself: pages (page_alloc/src/page_frame_allocator.rs under                 *)
(* memory/page_allocator.rs) and slabs (slab_allocator/src/lib.rs).  The list  *)
(* is touched with its spin lock held; the junk a page is filled with, against *)
(* dangling references, is written without it.                                 *)
EXTENDS Integers, FiniteSets

CONSTANTS Users,      \* threads of the kernel that allocate
          NPage,      \* pages or slabs of the range
          MaxHeld     \* how many a thread keeps at a time

VARIABLES kind,       \* "page" or "slab"
          head,       \* free_list, 0 for None
          cell,       \* the first word of each page
          freePages,  \* the allocator's own count; not kept by slabs
          held,       \* pages each thread has
          kept,       \* what the owner of a page last left in it
          filling     \* the page a thread is filling with junk, and why

pageVars == <<kind, head, cell, freePages, held, kept, filling>>

Pages == 1..NPage
Run(p) == [next |-> p]
Zero == [byte |-> 0]
Freed == [byte |-> 1]
Fresh == [byte |-> 5]
Data(u) == [by |-> u]
Idle == [page |-> 0, why |-> "none"]

(* PageFrameAllocator::new and SlabAllocator::new link the range from its end. *)
PageInit ==
  /\ kind \in {"page", "slab"}
  /\ head = (IF NPage = 0 THEN 0 ELSE 1) /\ freePages = NPage
  /\ cell = [p \in Pages |-> Run(IF p = NPage THEN 0 ELSE p + 1)]
  /\ held = [u \in Users |-> {}]
  /\ kept = [p \in Pages |-> Zero]
  /\ filling = [u \in Users |-> Idle]

Room(u) == filling[u] = Idle /\ Cardinality(held[u]) < MaxHeld

(* The list after its first page was taken: the page says what is next. *)
NextHead(p) == cell[p].next

(* alloc: None when the list is empty. *)
Alloc ==
  /\ head # 0
  /\ head' = NextHead(head)
  /\ freePages' = freePages - 1

(* alloc_page fills the page after the lock is free again. *)
AllocPage(u) ==
  /\ kind = "page" /\ Room(u)
  /\ Alloc
  /\ filling' = [filling EXCEPT ![u] = [page |-> head, why |-> "alloc"]]
  /\ UNCHANGED <<kind, cell, held, kept>>

FillFresh(u) ==
  LET p == filling[u].page
  IN /\ filling[u].why = "alloc"
     /\ cell' = [cell EXCEPT ![p] = Fresh]
     /\ kept' = [kept EXCEPT ![p] = Fresh]
     /\ held' = [held EXCEPT ![u] = @ \cup {p}]
     /\ filling' = [filling EXCEPT ![u] = Idle]
     /\ UNCHANGED <<kind, head, freePages>>

(* alloc_zeroed_page does it with the lock held. *)
AllocZeroedPage(u) ==
  /\ kind = "page" /\ Room(u)
  /\ Alloc
  /\ cell' = [cell EXCEPT ![head] = Zero]
  /\ kept' = [kept EXCEPT ![head] = Zero]
  /\ held' = [held EXCEPT ![u] = @ \cup {head}]
  /\ UNCHANGED <<kind, filling>>

(* SlabAllocator::allocate: the slab still holds its run. *)
SlabAllocate(u) ==
  /\ kind = "slab" /\ Room(u)
  /\ Alloc
  /\ kept' = [kept EXCEPT ![head] = cell[head]]
  /\ held' = [held EXCEPT ![u] = @ \cup {head}]
  /\ UNCHANGED <<kind, cell, filling>>

(* The owner writes to what it has. *)
Store(u, p) ==
  /\ filling[u] = Idle /\ p \in held[u]
  /\ cell' = [cell EXCEPT ![p] = Data(u)]
  /\ kept' = [kept EXCEPT ![p] = Data(u)]
  /\ UNCHANGED <<kind, head, freePages, held, filling>>

(* Faulty variant: the freed page forgets the rest of the list.                *)
NoRun(p) == Run(0)

(* free: the page becomes the head of the list.  The asserts on its address    *)
(* hold for what was allocated.                                                *)
RunOf(p) == Run(head)
FreeFrame(p) ==
  /\ cell' = [cell EXCEPT ![p] = RunOf(p)]
  /\ head' = p
  /\ freePages' = freePages + 1

(* free_page fills the page first, without the lock. *)
FreePage(u, p) ==
  /\ kind = "page" /\ filling[u] = Idle /\ p \in held[u]
  /\ cell' = [cell EXCEPT ![p] = Freed]
  /\ held' = [held EXCEPT ![u] = @ \ {p}]
  /\ filling' = [filling EXCEPT ![u] = [page |-> p, why |-> "free"]]
  /\ UNCHANGED <<kind, head, freePages, kept>>

FreeFilled(u) ==
  /\ filling[u].why = "free"
  /\ FreeFrame(filling[u].page)
  /\ filling' = [filling EXCEPT ![u] = Idle]
  /\ UNCHANGED <<kind, held, kept>>

SlabDeallocate(u, p) ==
  /\ kind = "slab" /\ p \in held[u]
  /\ FreeFrame(p)
  /\ held' = [held EXCEPT ![u] = @ \ {p}]
  /\ UNCHANGED <<kind, kept, filling>>

PageNext ==
  \E u \in Users :
    \/ AllocPage(u) \/ FillFresh(u) \/ AllocZeroedPage(u) \/ SlabAllocate(u) \/ FreeFilled(u)
    \/ \E p \in held[u] : Store(u, p) \/ FreePage(u, p) \/ SlabDeallocate(u, p)

PageSpec == PageInit /\ [][PageNext]_pageVars

-----------------------------------------------------------------------------
PageTypeOK ==
  /\ kind \in {"page", "slab"}
  /\ head \in 0..NPage
  /\ cell \in [Pages -> [next : 0..NPage] \cup [byte : {0, 1, 5}] \cup [by : Users]]
  /\ kept \in [Pages -> [next : 0..NPage] \cup [byte : {0, 1, 5}] \cup [by : Users]]
  /\ freePages \in Nat
  /\ held \in [Users -> SUBSET Pages]
  /\ filling \in [Users -> [page : Pages, why : {"alloc", "free"}] \cup {Idle}]

Has(u, p) == p \in held[u] \/ filling[u].page = p
Unused == {p \in Pages : \A u \in Users : ~Has(u, p)}

(* Following the runs from h gives the n pages f[1], f[2] and so on: those of  *)
(* S, each once.                                                               *)
Lists(h, c, n, f, S) ==
  /\ h = IF n = 0 THEN 0 ELSE f[1]
  /\ \A i \in 1..n : c[f[i]] = Run(IF i = n THEN 0 ELSE f[i + 1])
  /\ \A i, j \in 1..n : f[i] = f[j] => i = j
  /\ \A p \in Pages : p \in S <=> \E i \in 1..n : f[i] = p

(* A page is in one pair of hands at most.                                     *)
OneOwner ==
  /\ \A u, v \in Users : \A p \in Pages : Has(u, p) /\ Has(v, p) => u = v
  /\ \A u \in Users : filling[u].page \notin held[u]

(* The list holds every page that nobody has, each once, and nothing else,     *)
(* free_pages counts them, and what a thread has stored in its page stays      *)
(* there until it frees it: the junk written without the lock never reaches    *)
(* the run of a free page nor a page that is another's by now.                 *)
FreeListIntact ==
  /\ PageTypeOK
  /\ OneOwner
  /\ \E f \in [1..freePages -> Pages] : Lists(head, cell, freePages, f, Unused)
  /\ \A u \in Users : \A p \in held[u] : cell[p] = kept[p]
=============================================================================
