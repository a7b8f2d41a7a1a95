----------------------------- MODULE PageTable -----------------------------
(* The three-level page table: mapping, super pages, the two iterators over a  *)
(* range of addresses, validation and release                                  *)
(* (ov6_kernel/src/memory/page_table/, addr.rs).                               *)
(*                                                                             *)
(* A table has Fan entries and a page PageSize bytes, so that every boundary   *)
(* of the three levels is crossed by small addresses.  An entry is addressed   *)
(* by its indices from the root, <<i2>>, <<i2, i1>> or <<i2, i1, i0>>.         *)
EXTENDS Integers, Sequences, FiniteSets, FiniteSetsExt, SequencesExt

CONSTANTS Fan, PageSize,
          MaxVa,     \* VirtAddr::MAX
          NFrame,    \* pages of the heap, 1..NFrame; other frames are not freed
          MaxOps     \* bound on the operations

VARIABLES kind,      \* "kernel": mapped once with super pages; "user"
          pte,       \* the entries
          free,      \* free pages of the heap
          job,       \* what is left of a map_addrs: a sequence of segments
          flat,      \* the mapping the operations should have made, per page
          ops

vars == <<kind, pte, free, job, flat, ops>>

Unmapped == [tag |-> "none"]
Table(f) == [tag |-> "table", frame |-> f]
Leaf(f, perm) == [tag |-> "leaf", frame |-> f, perm |-> perm]
Nodes == UNION {[1..n -> 0..Fan-1] : n \in 1..3}
Level(n) == 3 - Len(n)
LevelSize(level) == PageSize * Fan^level
NPages == MaxVa \div PageSize
Pages == 0..NPages-1
Heap == 1..NFrame
Perms == {{"R"}, {"R", "W"}}

(* addr.rs *)
LevelIdx(va, level) == (va \div LevelSize(level)) % Fan
NodeOf(va, level) == [k \in 1..3-level |-> LevelIdx(va, 3 - k)]
WithLevelIdx(va, level, i) == va + (i - LevelIdx(va, level)) * LevelSize(level)
RoundUp(va, level) == ((va + LevelSize(level) - 1) \div LevelSize(level)) * LevelSize(level)
RoundDown(va, level) == (va \div LevelSize(level)) * LevelSize(level)
Base(n) ==
  n[1] * LevelSize(2) + (IF Len(n) > 1 THEN n[2] * LevelSize(1) ELSE 0)
                      + (IF Len(n) > 2 THEN n[3] * LevelSize(0) ELSE 0)

(* find_leaf_entry, and the frame an address is translated to: no entry, or    *)
(* the page within a super page.                                               *)
LeafOf(t, va) ==
  LET ns == {n \in {NodeOf(va, level) : level \in 0..2} :
               t[n].tag = "leaf" /\ \A k \in 1..Len(n)-1 : t[SubSeq(n, 1, k)].tag = "table"}
  IN IF ns = {} THEN Unmapped ELSE
     LET n == CHOOSE m \in ns : TRUE
     IN Leaf(t[n].frame + (va - RoundDown(va, Level(n))) \div PageSize, t[n].perm)

-----------------------------------------------------------------------------
(* Entries and LeavesMut visit, in each table, the entries between the indices *)
(* of the ends of the range, clipped to that table.                            *)
Between(lo, hi, base, level) ==
  LevelIdx(Max({lo, base}), level) .. LevelIdx(Min({hi, WithLevelIdx(base, level, Fan - 1)}), level)

Below(t, lo, hi, ns) ==
  UNION {{Append(n, i) : i \in Between(lo, hi, Base(n), 2 - Len(n))} : n \in {m \in ns : t[m].tag = "table"}}

Visited(t, lo, hi) ==
  LET top == {<<i>> : i \in LevelIdx(lo, 2) .. LevelIdx(hi, 2)}
      mid == Below(t, lo, hi, top)
  IN top \cup mid \cup Below(t, lo, hi, mid)

Leaves(t, lo, hi) == {n \in Visited(t, lo, hi) : t[n].tag = "leaf"}

LastByte(end) == end - 1

(* validate: a copy-on-write page counts as writable; an empty range is valid. *)
Accepts(entry, flags) ==
  /\ entry.tag # "none"
  /\ entry.tag = "leaf" => flags \subseteq entry.perm \cup (IF "C" \in entry.perm THEN {"W"} ELSE {})

Validate(t, start, end, flags) ==
  end > start => \A n \in Visited(t, start, LastByte(end)) : Accepts(t[n], flags)

-----------------------------------------------------------------------------
Init ==
  /\ kind \in {"kernel", "user"}
  /\ pte = [n \in Nodes |-> Unmapped] /\ free = Heap /\ job = <<>> /\ ops = 0
  /\ flat = [v \in Pages |-> Unmapped]

Op == job = <<>> /\ ops < MaxOps /\ ops' = ops + 1 /\ UNCHANGED kind

(* map_addrs: a fixed range whose addresses agree within a super page is split *)
(* in pages, super pages and pages; every other one is mapped page by page.    *)
(* off tells which frame the caller asked for.                                 *)
Segment(level, from, to, pa, off, new, perm) ==
  [level |-> level, va |-> from, end |-> to, pa |-> pa, off |-> off, new |-> new, perm |-> perm]

(* Faulty variant: every segment starts at the first physical page.            *)
SamePage(pa, va, from) == pa

(* The physical page of a segment that starts at an address past va.           *)
PageAt(pa, va, from) == IF pa = 0 THEN 0 ELSE pa + (from - va) \div PageSize

Segments(va, end, pa, new, perm) ==
  LET s == RoundUp(va, 1)
      e == RoundDown(end, 1)
      part(level, from, to) ==
        IF from >= to THEN <<>>
        ELSE <<Segment(level, from, to, PageAt(pa, va, from), pa - va \div PageSize, new, perm)>>
  IN IF pa = 0 \/ (va \div PageSize) % Fan # pa % Fan \/ s >= e
     THEN part(0, va, end)
     ELSE part(0, va, s) \o part(1, s, e) \o part(0, e, end)

MapAddrs(v, n, pa, new, perm) ==
  /\ v + n <= NPages
  /\ new => \A w \in v..v+n-1 : flat[w] = Unmapped
  /\ job' = Segments(v * PageSize, (v + n) * PageSize, pa, new, perm)
  /\ UNCHANGED <<pte, free, flat>>

(* The kernel maps devices, text, data and the trampoline at fixed addresses,  *)
(* and fresh pages for the kernel stacks; no two ranges overlap.               *)
Fixed == {NFrame + 1 + i : i \in 0..Fan-1}
KernelMap ==
  /\ kind = "kernel" /\ Op
  /\ \E v \in Pages, n \in 1..NPages, pa \in {0} \cup Fixed, perm \in Perms : MapAddrs(v, n, pa, TRUE, perm)

(* A process maps fresh pages (stack, heap, usyscall), one page at a fixed     *)
(* address (trampoline, trap frame), and the segments of a program, which may  *)
(* share a page with the one before.                                           *)
UserMap ==
  /\ kind = "user" /\ Op
  /\ \E v \in Pages, perm \in Perms :
       \/ \E n \in 1..NPages, new \in BOOLEAN : MapAddrs(v, n, 0, new, perm)
       \/ \E pa \in Fixed : MapAddrs(v, 1, pa, TRUE, perm)

Head1 == job[1]
MapNode == NodeOf(Head1.va, Head1.level)
Advance ==
  LET s == [Head1 EXCEPT !.va = @ + LevelSize(Head1.level),
                         !.pa = IF @ = 0 THEN 0 ELSE @ + Fan^Head1.level]
  IN job' = IF s.va < s.end THEN <<s>> \o Tail(job) ELSE Tail(job)

MissingTables == {n \in {SubSeq(MapNode, 1, k) : k \in 1..Len(MapNode)-1} : pte[n].tag = "none"}

(* find_or_create_leaf: the next table on the way that is missing. *)
AddTable ==
  /\ job # <<>> /\ MissingTables # {} /\ free # {}
  /\ LET n == CHOOSE m \in MissingTables : \A o \in MissingTables : Len(m) <= Len(o)
     IN pte' = [pte EXCEPT ![n] = Table(Min(free))]
  /\ free' = free \ {Min(free)}
  /\ UNCHANGED <<kind, job, flat, ops>>

(* map_page *)
MapPage ==
  /\ job # <<>> /\ MissingTables = {}
  /\ LET s == Head1
         f == IF s.pa = 0 THEN Min(free) ELSE s.pa
         first == s.va \div PageSize
     IN \/ /\ pte[MapNode].tag = "none" /\ (s.pa = 0 => free # {})
           /\ pte' = [pte EXCEPT ![MapNode] = Leaf(f, s.perm)]
           /\ free' = free \ {f}
           /\ flat' = [w \in Pages |-> IF w \in first..first + Fan^s.level - 1
                                       THEN Leaf(IF s.pa = 0 THEN f ELSE s.off + w, s.perm) ELSE flat[w]]
           /\ Advance
        \/ /\ ~s.new /\ pte[MapNode].tag = "leaf" /\ pte[MapNode].perm = s.perm
           /\ Advance /\ UNCHANGED <<pte, free, flat>>
        \/ /\ ~s.new /\ pte[MapNode].tag = "leaf" /\ pte[MapNode].perm # s.perm
           /\ job' = <<>> /\ UNCHANGED <<pte, free, flat>>
  /\ UNCHANGED <<kind, ops>>

(* No page for a table or for the leaf: what was mapped stays, and the caller  *)
(* unmaps it or drops the table.                                               *)
MapFails ==
  /\ job # <<>> /\ free = {}
  /\ MissingTables # {} \/ (Head1.pa = 0 /\ pte[MapNode].tag = "none")
  /\ job' = <<>>
  /\ UNCHANGED <<kind, pte, free, flat, ops>>

(* The pages of the heap that a set of entries owns.                           *)
OwnFrames(ns) == {pte[n].frame : n \in {m \in ns : pte[m].tag # "none"}} \cap Heap

LeavesIn(lo, hi) == Leaves(pte, lo, hi)

(* unmap_range: PtEntry::free of each leaf; only pages of the heap are given   *)
(* back.                                                                       *)
Unmap ==
  /\ kind = "user" /\ Op
  /\ \E v \in Pages, n \in 0..NPages :
       /\ v + n <= NPages
       /\ LET gone == IF n = 0 THEN {} ELSE LeavesIn(v * PageSize, (v + n) * PageSize - 1)
          IN /\ pte' = [m \in DOMAIN pte |-> IF m \in gone THEN Unmapped ELSE pte[m]]
             /\ free' = free \cup OwnFrames(gone)
       /\ flat' = [w \in Pages |-> IF w \in v..v+n-1 THEN Unmapped ELSE flat[w]]
  /\ UNCHANGED job

(* clone_pages_from, on the source: its writable leaves become copy-on-write.  *)
(* The end of the heap need not be page aligned.                               *)
MakeCopyOnWrite ==
  LET cow(e) == IF e.tag = "leaf" /\ "W" \in e.perm THEN Leaf(e.frame, {"R", "C"}) ELSE e IN
  /\ kind = "user" /\ Op
  /\ \E v \in Pages, end \in 1..MaxVa :
       /\ v * PageSize < end
       /\ LET ls == Leaves(pte, v * PageSize, end - 1)
          IN pte' = [m \in DOMAIN pte |-> IF m \in ls THEN cow(pte[m]) ELSE pte[m]]
       /\ flat' = [w \in Pages |-> IF w >= v /\ w * PageSize < end THEN cow(flat[w]) ELSE flat[w]]
  /\ UNCHANGED <<free, job>>

(* Drop: PageTableEntries::free, from the root. *)
Dropped ==
  /\ Op /\ kind = "user"
  /\ pte' = [n \in Nodes |-> Unmapped]
  /\ free' = free \cup OwnFrames(Nodes)
  /\ flat' = [v \in Pages |-> Unmapped]
  /\ UNCHANGED job

Next == KernelMap \/ UserMap \/ AddTable \/ MapPage \/ MapFails \/ Unmap \/ MakeCopyOnWrite \/ Dropped

Spec == Init /\ [][Next]_vars

-----------------------------------------------------------------------------
(* Every address is translated as the operations asked for: a super page and   *)
(* the pages it stands for agree, an operation that stopped half-way included. *)
TranslationAgrees == \A v \in Pages : LeafOf(pte, v * PageSize) = flat[v]

(* validate accepts a range of bytes exactly when every page it touches is     *)
(* mapped with the flags: no page at either end of an unaligned range, and     *)
(* none behind a table or a super page boundary, is missed or asked for.       *)
ValidateAgrees ==
  job = <<>> => \A start \in 0..MaxVa-1, end \in 1..MaxVa, flags \in Perms :
    start < end =>
      (Validate(pte, start, end, flags) <=>
         \A v \in start \div PageSize .. (end - 1) \div PageSize :
           /\ flat[v].tag = "leaf"
           /\ "W" \in flags => flat[v].perm \cap {"W", "C"} # {})

(* Every page of the heap is free, or has exactly one entry: nothing is lost   *)
(* by an operation that runs out of memory and nothing is freed twice.         *)
FramesAccounted ==
  LET present == {n \in DOMAIN pte : pte[n].tag # "none"}
  IN \A f \in Heap : Cardinality({n \in present : pte[n].frame = f}) = IF f \in free THEN 0 ELSE 1

(* The leaves an iterator gives lie within the range it was given, which the   *)
(* iterator asserts, and every entry below a table has one.                    *)
LeavesInRange ==
  /\ kind = "user" /\ job = <<>> => \A v \in Pages, end \in 1..MaxVa : v * PageSize < end =>
       \A n \in Leaves(pte, v * PageSize, end - 1) : Base(n) \in v * PageSize .. end - 1
  /\ \A n \in DOMAIN pte : pte[n].tag # "none" /\ Len(n) > 1 => pte[Front(n)].tag = "table"

(* What map, unmap, validate and free keep of a page table: its translation,   *)
(* what validate accepts, the frames it owns, and the leaves the iterators     *)
(* give.                                                                       *)
TableInv == TranslationAgrees /\ ValidateAgrees /\ FramesAccounted /\ LeavesInRange
=============================================================================
