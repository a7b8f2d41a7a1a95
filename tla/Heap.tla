------------------------------- MODULE Heap -------------------------------
(* The heap of a user program (ov6_user_lib/src/alloc.rs): free blocks in a    *)
(* circular list in the order of their addresses, each with a header of one    *)
(* unit; malloc cuts the tail off the first block that is large enough, free   *)
(* joins a block with its neighbours, and expand_heap asks the kernel for more.*)
(* Unit 0 is BASE, the empty block the list starts with.  The calls hold the   *)
(* lock of FREE_LIST from start to end.                                        *)
EXTENDS Integers, FiniteSets

CONSTANTS NUnit,      \* units the kernel can give, and BASE
          MinGrow,    \* least number of units asked for (4096)
          Sizes       \* payloads, in units

VARIABLES next, size, \* the fields of the header at each unit
          list,       \* FREE_LIST
          brk,        \* the program break
          used,       \* allocated blocks, by header, and their sizes
          holes       \* units between breaks that belong to others

vars == <<next, size, list, brk, used, holes>>

Units == 0..NUnit-1
State == [next |-> next, size |-> size, list |-> list]

Init ==
  /\ next = [u \in Units |-> 0] /\ size = [u \in Units |-> 0]
  /\ list = 0 /\ brk = 1
  /\ used = {} /\ holes = {}

-----------------------------------------------------------------------------
(* The i-th block of the list after FREE_LIST, and how many there are. *)
Nth(s) ==
  LET nth[i \in 0..NUnit] == IF i = 0 THEN s.list ELSE s.next[nth[i - 1]] IN nth
Length(s) ==
  LET nth == Nth(s)
  IN CHOOSE n \in 1..NUnit : nth[n] = s.list /\ \A i \in 1..n-1 : nth[i] # s.list

(* The predecessor free looks for: the list is in order but for one wrap. *)
Between(s, b, p) ==
  \/ b > p /\ b < s.next[p]
  \/ p >= s.next[p] /\ (b > p \/ b < s.next[p])
Before(s, b) ==
  LET nth == Nth(s)
      hits == {i \in 0..Length(s)-1 : Between(s, b, nth[i])}
  IN nth[CHOOSE i \in hits : \A j \in hits : i <= j]

(* Faulty variant: the upper neighbour is not joined.                          *)
KeepUpper(s, b, p) == [s EXCEPT !.next[b] = s.next[p]]

(* Joining the upper neighbour takes over its size and its link. *)
JoinUpper(s, b, p) ==
  IF b + s.size[b] = s.next[p]
    THEN [s EXCEPT !.size[b] = @ + s.size[s.next[p]], !.next[b] = s.next[s.next[p]]]
    ELSE [s EXCEPT !.next[b] = s.next[p]]
JoinLower(s, b, p) ==
  IF p + s.size[p] = b
    THEN [s EXCEPT !.size[p] = @ + s.size[b], !.next[p] = s.next[b]]
    ELSE [s EXCEPT !.next[p] = b]

FreeBlock(s, b) ==
  LET p == Before(s, b) IN [JoinLower(JoinUpper(s, b, p), b, p) EXCEPT !.list = p]

(* The search of malloc: the first block after FREE_LIST that is large enough. *)
Fits(s, n) == LET nth == Nth(s) IN {i \in 1..Length(s) : s.size[nth[i]] >= n}

(* "allocate tail end". *)
CutTail(s, p, n) == [s EXCEPT !.size[p] = @ - n, !.size[p + s.size[p] - n] = n]

Taken(s, n) ==
  LET fits == Fits(s, n)
      i == CHOOSE i \in fits : \A j \in fits : i <= j
      q == Nth(s)[i - 1]
      p == Nth(s)[i]
      rest == s.size[p] - n
  IN IF rest = 0
       THEN [at |-> p, heap |-> [s EXCEPT !.next[q] = s.next[p], !.list = q]]
       ELSE [at |-> p + rest, heap |-> [CutTail(s, p, n) EXCEPT !.list = q]]

(* expand_heap. *)
Grown(s, n) == FreeBlock([s EXCEPT !.size[brk] = n], brk)
Asked(n) == IF n < MinGrow THEN MinGrow ELSE n

(* The fields of the headers in s; what other units hold is the program's. *)
Headers(s) == LET nth == Nth(s) IN {nth[i] : i \in 1..Length(s)}
Become(s, blocks) ==
  LET free == Headers(s)
      all == free \cup {b.at : b \in blocks} IN
  /\ next' = [u \in Units |-> IF u \in free THEN s.next[u] ELSE 0]
  /\ size' = [u \in Units |-> IF u \in all THEN s.size[u] ELSE 0]
  /\ list' = s.list
  /\ used' = blocks

(* malloc; when the kernel gives no more it changes nothing and fails. *)
Malloc(payload) ==
  LET n == payload + 1
      grow == Fits(State, n) = {}
      r == Taken(IF grow THEN Grown(State, Asked(n)) ELSE State, n)
  IN /\ grow => brk + Asked(n) <= NUnit
     /\ brk' = IF grow THEN brk + Asked(n) ELSE brk
     /\ Become(r.heap, used \cup {[at |-> r.at, size |-> n]})
     /\ UNCHANGED holes

Free(b) ==
  /\ b \in used
  /\ Become(FreeBlock(State, b.at), used \ {b})
  /\ UNCHANGED <<brk, holes>>

(* The program moves its break by itself. *)
GrowBreak ==
  /\ brk < NUnit /\ holes = {}
  /\ holes' = {brk} /\ brk' = brk + 1
  /\ UNCHANGED <<next, size, list, used>>

Next == (\E n \in Sizes : Malloc(n)) \/ (\E b \in used : Free(b)) \/ GrowBreak

Spec == Init /\ [][Next]_vars

-----------------------------------------------------------------------------
FreeAt == Headers(State)
Blocks == {[at |-> u, size |-> size[u]] : u \in FreeAt \ {0}} \cup used
Extent(b) == b.at .. b.at + b.size - 1

(* Free and allocated blocks share no unit and cover all that malloc ever got  *)
(* from the kernel; an allocated block still has the size in its header that   *)
(* free will go by.                                                            *)
BlocksTile ==
  /\ \A b, c \in Blocks : b # c => Extent(b) \cap Extent(c) = {}
  /\ UNION {Extent(b) : b \in Blocks} = (1..brk-1) \ holes
  /\ \A b \in used : size[b.at] = b.size

(* The list is in the order of addresses with one wrap, holds BASE, and no two *)
(* free blocks touch: what was freed can be given out again in one piece.      *)
FreeListSorted ==
  /\ 0 \in FreeAt
  /\ Cardinality({u \in FreeAt : next[u] <= u}) = 1
  /\ \A u \in FreeAt \ {0} : u + size[u] \notin FreeAt

(* What malloc and free keep of the heap: blocks that tile it, and a sorted    *)
(* free list without neighbours.                                               *)
HeapInv == BlocksTile /\ FreeListSorted
=============================================================================
