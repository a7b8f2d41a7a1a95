---------------------------- MODULE InodeContent ----------------------------
(* The contents of files: the block map of an inode and its indirect block     *)
(* (ov6_kernel/src/fs/inode/content.rs), the allocation of data blocks         *)
(* (fs/data_block.rs), and the loop that writes a buffer through a shared file *)
(* offset in transactions of a few blocks (file/inode.rs).                     *)
(*                                                                             *)
(* A call on an inode holds its sleep lock, so each is one step.  The loops    *)
(* over blocks are folds.  Blocks are numbers and 0 is "no block".             *)
EXTENDS Integers, FiniteSets, Sequences, SequencesExt, FiniteSetsExt

CONSTANTS Procs,       \* processes that write
          Files,       \* inodes
          NBlocks,     \* data blocks of the disk
          BlockSize,   \* FS_BLOCK_SIZE in bytes
          NumDirect,   \* NUM_DIRECT_REFS
          NumIndirect, \* NUM_INDIRECT_REFS
          Chunk,       \* the bytes write puts in one transaction
          Sizes,       \* lengths of the buffers that are written
          MaxWrites    \* how many writes a process starts

VARIABLES fs,          \* the bitmap, the blocks and the in-memory inodes
          disk,        \* the inodes as update last wrote them
          text,        \* what each file should contain
          off,         \* the offset each file is open at, shared by the writers
          job,         \* the write each process is in
          writes,      \* writes it has started
          unsaved,     \* files whose block map changed without an update
          lost         \* blocks of such a change that no inode has any more

vars == <<fs, disk, text, off, job, writes, unsaved, lost>>

Blocks == 1..NBlocks
MaxFile == (NumDirect + NumIndirect) * BlockSize
Zeros == [k \in 0..BlockSize-1 |-> 0]
NoInd == [k \in 0..NumIndirect-1 |-> 0]
Empty == [addrs |-> [k \in 0..NumDirect |-> 0], size |-> 0]
NoJob == [file |-> 0, len |-> 0, done |-> 0, got |-> 0]

Init ==
  /\ fs = [used |-> {}, data |-> [b \in Blocks |-> Zeros],
           ind |-> [b \in Blocks |-> NoInd], node |-> [f \in Files |-> Empty]]
  /\ disk = fs.node
  /\ text = [f \in Files |-> <<>>]
  /\ off = [f \in Files |-> 0]
  /\ job = [p \in Procs |-> NoJob]
  /\ writes = [p \in Procs |-> 0]
  /\ unsaved = {}
  /\ lost = {}

(* The blocks data_block::alloc looks for.                                     *)
FreeBlocks(s) == Blocks \ s.used

(* data_block::alloc: the first free block, marked and zeroed, or 0.           *)
Alloc(s) ==
  IF FreeBlocks(s) = {} THEN [s |-> s, bn |-> 0]
  ELSE LET b == Min(FreeBlocks(s))
       IN [s |-> [s EXCEPT !.used = @ \cup {b}, !.data[b] = Zeros, !.ind[b] = NoInd], bn |-> b]

Direct(s, f, i) ==
  IF s.node[f].addrs[i] # 0 THEN [s |-> s, bn |-> s.node[f].addrs[i]]
  ELSE LET a == Alloc(s)
       IN IF a.bn = 0 THEN a ELSE [a EXCEPT !.s.node[f].addrs[i] = a.bn]

(* The indirect block is allocated first and stays allocated when the data     *)
(* block cannot be.                                                            *)
Indirect(s, f, i) ==
  LET d == Direct(s, f, NumDirect)
      a == Alloc(d.s)
  IN IF d.bn = 0 THEN d
     ELSE IF d.s.ind[d.bn][i] # 0 THEN [s |-> d.s, bn |-> d.s.ind[d.bn][i]]
     ELSE IF a.bn = 0 THEN a ELSE [a EXCEPT !.s.ind[d.bn][i] = a.bn]

GetOrAlloc(s, f, i) == IF i < NumDirect THEN Direct(s, f, i) ELSE Indirect(s, f, i - NumDirect)

(* The block of the file's i-th block, 0 for a hole.                           *)
BlockOf(s, f, i) ==
  LET n == s.node[f].addrs
  IN IF i < NumDirect THEN n[i] ELSE IF n[NumDirect] = 0 THEN 0 ELSE s.ind[n[NumDirect]][i - NumDirect]

(* LockedTxInode::read of the whole file.                                      *)
Read(s, f) ==
  [k \in 1..s.node[f].size |->
     s.data[BlockOf(s, f, (k - 1) \div BlockSize)][(k - 1) % BlockSize]]

(* Where in its i-th block a write at byte o begins.                           *)
Within(o, i) == IF i = o \div BlockSize THEN o % BlockSize ELSE 0

(* LockedTxInode::write of len bytes v at byte o: block by block until one     *)
(* cannot be had.  tot is what was written.                                    *)
Fill(f, o, len, v, s0) ==
  LET block(acc, i) ==
        LET g == GetOrAlloc(acc.s, f, i)
            from == Within(o, i)
            m == Min({len - acc.tot, BlockSize - from})
        IN IF acc.stop THEN acc
           ELSE IF g.bn = 0 THEN [acc EXCEPT !.s = g.s, !.stop = TRUE]
           ELSE [s |-> [g.s EXCEPT !.data[g.bn] =
                          [k \in DOMAIN @ |-> IF k \in from..from+m-1 THEN v ELSE @[k]]],
                 tot |-> acc.tot + m, stop |-> FALSE]
      first == o \div BlockSize
      last == (o + len - 1) \div BlockSize
  IN FoldLeft(block, [s |-> s0, tot |-> 0, stop |-> FALSE],
              [i \in 1..(last - first + 1) |-> first + i - 1])

(* A process starts to write a buffer.                                         *)
Start(p, f, n) ==
  /\ job[p] = NoJob /\ writes[p] < MaxWrites
  /\ job' = [job EXCEPT ![p] = [file |-> f, len |-> n, done |-> 0, got |-> 0]]
  /\ writes' = [writes EXCEPT ![p] = @ + 1]
  /\ UNCHANGED <<fs, disk, text, off, unsaved, lost>>

(* One transaction of InodeFile::write.  A chunk of which nothing could be     *)
(* written is an error and leaves the inode on disk as it was; a short chunk   *)
(* ends the loop.                                                              *)
WriteChunk(p) ==
  LET j == job[p]
      f == j.file
      n == Min({j.len - j.done, Chunk})
      r == Fill(f, off[f], n, p, fs)
      end == off[f] + r.tot
  IN /\ j # NoJob /\ j.done < j.len
     /\ \/ /\ off[f] + n > MaxFile \/ off[f] > fs.node[f].size
           /\ job' = [job EXCEPT ![p] = NoJob]
           /\ UNCHANGED <<fs, disk, text, off, unsaved>>
        \/ /\ off[f] + n <= MaxFile /\ off[f] <= fs.node[f].size /\ r.tot = 0
           /\ fs' = r.s
           /\ unsaved' = IF r.s.node[f] # disk[f] THEN unsaved \cup {f} ELSE unsaved
           /\ job' = [job EXCEPT ![p] = NoJob]
           /\ UNCHANGED <<disk, text, off>>
        \/ /\ off[f] + n <= MaxFile /\ off[f] <= fs.node[f].size /\ r.tot > 0
           /\ fs' = [r.s EXCEPT !.node[f].size = Max({@, end})]
           /\ disk' = [disk EXCEPT ![f] = fs'.node[f]]
           /\ unsaved' = unsaved \ {f}
           /\ off' = [off EXCEPT ![f] = end]
           /\ text' = [text EXCEPT ![f] =
                [k \in 1..Max({Len(@), end}) |-> IF k \in off[f]+1..end THEN p ELSE @[k]]]
           /\ job' = [job EXCEPT ![p] =
                [@ EXCEPT !.done = IF r.tot = n THEN j.done + n ELSE j.len, !.got = @ + r.tot]]
     /\ UNCHANGED <<writes, lost>>

(* The loop is over: the length of the buffer is returned, whatever was        *)
(* written of it.                                                              *)
Finish(p) ==
  /\ job[p] # NoJob /\ job[p].done = job[p].len
  /\ job' = [job EXCEPT ![p] = NoJob]
  /\ UNCHANGED <<fs, disk, text, off, writes, unsaved, lost>>

(* The blocks an inode refers to.                                              *)
Mapped(s, node) ==
  LET i == node.addrs[NumDirect]
  IN ({node.addrs[k] : k \in 0..NumDirect}
       \cup (IF i = 0 THEN {} ELSE {s.ind[i][k] : k \in DOMAIN s.ind[i]})) \ {0}


Freed(s, node) == Mapped(s, node)

(* truncate frees the direct blocks, those of the indirect block and the       *)
(* indirect block itself, and saves the inode.  Open files keep their offset.  *)
Truncate(f) ==
  /\ fs.node[f] # Empty
  /\ fs' = [fs EXCEPT !.used = @ \ Freed(fs, fs.node[f]), !.node[f] = Empty,
              !.ind = [b \in Blocks |-> IF b = fs.node[f].addrs[NumDirect] THEN NoInd ELSE @[b]]]
  /\ disk' = [disk EXCEPT ![f] = Empty]
  /\ text' = [text EXCEPT ![f] = <<>>]
  /\ unsaved' = unsaved \ {f}
  /\ UNCHANGED <<off, job, writes, lost>>

(* The last reference goes and the file is opened again: the inode is read     *)
(* from the disk, the offset starts at zero.                                   *)
Reopen(f) ==
  /\ \A p \in Procs : job[p].file # f
  /\ off[f] # 0 \/ fs.node[f] # disk[f]
  /\ fs' = [fs EXCEPT !.node[f] = disk[f]]
  /\ off' = [off EXCEPT ![f] = 0]
  /\ lost' = lost \cup (Mapped(fs, fs.node[f]) \ Mapped(fs, disk[f]))
  /\ unsaved' = unsaved \ {f}
  /\ UNCHANGED <<disk, text, job, writes>>

Next ==
  \/ \E p \in Procs : \/ \E f \in Files, n \in Sizes : Start(p, f, n)
                      \/ WriteChunk(p) \/ Finish(p)
  \/ \E f \in Files : Truncate(f) \/ Reopen(f)

Spec == Init /\ [][Next]_vars

-----------------------------------------------------------------------------

(* Reading a file returns the bytes that were written to it, at the offsets    *)
(* they were written at, in the order the writers' transactions took the lock: *)
(* the block map, the indirect block and the shared offset lose nothing and    *)
(* never show the bytes of another file.                                       *)
ContentsAgree == \A f \in Files : Read(fs, f) = text[f]

(* Every block in use belongs to one inode and every block of an inode is in   *)
(* use, so none is handed out twice and free never meets a free block.  Blocks *)
(* are lost only after a write that allocated the indirect block and then ran  *)
(* out of blocks, which returns without saving the inode.                      *)
BlocksAccounted ==
  /\ fs.used = lost \cup UNION {Mapped(fs, fs.node[f]) : f \in Files}
  /\ \A f \in Files : /\ Mapped(fs, fs.node[f]) \cap lost = {}
                      /\ f \notin unsaved => fs.node[f] = disk[f]
  /\ \A f, g \in Files : f # g => Mapped(fs, fs.node[f]) \cap Mapped(fs, fs.node[g]) = {}

(* InodeFile::write returns the length of the buffer even when a chunk was     *)
(* short.  A chunk is short only when the disk has no block left: the only     *)
(* calls that report bytes they did not write are those.                       *)
ShortIfFull ==
  \A p \in Procs : LET j == job'[p] IN
    j # NoJob /\ j # job[p] /\ j.done = j.len /\ j.got < j.len => fs'.used = Blocks
ShortOnlyWhenFull == [][ShortIfFull]_vars

=============================================================================
