----------------------------- MODULE InodeTable -----------------------------
(***************************************************************************)
(* The life of an inode (fs/inode/mod.rs, fs/inode/table.rs) and the calls *)
(* that create, find, link, unlink, open and close it (fs/ops.rs,          *)
(* file/common.rs): the table of weak references, the strong count of the  *)
(* shared in-memory copy, its sleep lock, the inode on disk, and the       *)
(* entries of one directory that name it.                                  *)
(*                                                                         *)
(* The critical sections of the table's spin lock are single steps; the    *)
(* reference itself goes away in a step of its own, after the lock was     *)
(* released (Decrement).                                                   *)
(***************************************************************************)
EXTENDS Integers, FiniteSets

CONSTANTS Proc,
          Ino,      \* inode numbers
          NInode,   \* NINODE, the size of the table
          MaxLink,  \* bound: link makes no more names than this
          None

ASSUME ConstAssumption ==
  /\ None \notin Proc /\ None \notin Ino
  /\ NInode \in Nat /\ MaxLink \in Nat

VARIABLES
  used,    \* the inodes whose type on disk is not 0
  nlink,   \* the link count on disk
  links,   \* the number of directory entries that name the inode
  valid,   \* the inodes whose in-memory copy is Some
  copy,    \* the link count in the copy
  lk,      \* who holds the sleep lock of the copy
  dir,     \* who holds the lock of the directory
  file,    \* the Inode that a process holds through a file or its cwd
  tx,      \* the TxInode a process works with
  op,      \* what for
  pc,
  halted   \* why the kernel panicked

disk == <<used, nlink>>
data == <<valid, copy>>
vars == <<disk, links, data, lk, dir, file, tx, op, pc, halted>>

Ops == {"look", "read", "unlink", "create", "link", "linked"}
PC == {"idle", "alloc", "lock", "locked", "dirent", "drop", "free", "decrement"}

Init ==
  /\ used = {} /\ nlink = [i \in Ino |-> 0]
  /\ links = [i \in Ino |-> 0]
  /\ valid = {} /\ copy = [i \in Ino |-> 0]
  /\ lk = [i \in Ino |-> None]
  /\ dir = None
  /\ file = [p \in Proc |-> None]
  /\ tx = [p \in Proc |-> None]
  /\ op = [p \in Proc |-> "look"]
  /\ pc = [p \in Proc |-> "idle"]
  /\ halted = "no"

(* A process holds strong references to the copy of i through an Inode, a  *)
(* TxInode and a LockedTxInode.                                            *)
Holds(p, i) == file[p] = i \/ (tx[p] = i /\ pc[p] # "alloc") \/ lk[i] = p

Live(i) == \E p \in Proc : Holds(p, i)

(* strong_count == 1: the TxInode of p is the only reference.              *)
Last(p) ==
  /\ file[p] # tx[p] /\ lk[tx[p]] # p
  /\ \A q \in Proc \ {p} : ~ Holds(q, tx[p])

(* The link count that who locks i sees: read from disk if need be.        *)
Content(i) == IF i \in valid THEN copy[i] ELSE nlink[i]
Read(i) == valid' = valid \cup {i} /\ copy' = [copy EXCEPT ![i] = Content(i)]

Goto(p, l) == pc' = [pc EXCEPT ![p] = l]
Panic(why) == halted' = why /\ UNCHANGED <<disk, links, data, lk, dir, file, tx, op, pc>>

(* nlink is set in the copy, and update() writes it to disk.               *)
Update(i, n) ==
  /\ copy' = [copy EXCEPT ![i] = n]
  /\ nlink' = [nlink EXCEPT ![i] = n]
  /\ UNCHANGED <<valid, used>>

Unlock(i) == lk' = [lk EXCEPT ![i] = None]

-----------------------------------------------------------------------------
(* TxInode::get, Inode::into_tx, the locks.                                *)

TableFull(i) == ~ Live(i) /\ Cardinality({j \in Ino : Live(j)}) >= NInode

(* DirInode::lookup under the lock of the directory; unlink keeps the lock.*)
Lookup(p, i, o) ==
  /\ pc[p] = "idle" /\ dir = None
  /\ links[i] > 0
  /\ ~ TableFull(i)
  /\ tx' = [tx EXCEPT ![p] = i]
  /\ op' = [op EXCEPT ![p] = o]
  /\ dir' = IF o = "unlink" THEN p ELSE dir
  /\ Goto(p, "lock")
  /\ UNCHANGED <<disk, links, data, lk, file, halted>>

LookupPanics(p, i) ==
  /\ pc[p] = "idle" /\ dir = None /\ links[i] > 0 /\ TableFull(i)
  /\ Panic("table full")

(* A read or write through an open file; a read-only transaction for read. *)
UseFile(p, o) ==
  /\ pc[p] = "idle" /\ file[p] # None
  /\ tx' = [tx EXCEPT ![p] = file[p]]
  /\ op' = [op EXCEPT ![p] = o]
  /\ Goto(p, "lock")
  /\ UNCHANGED <<disk, links, data, lk, dir, file, halted>>

(* FileData::drop, exit and chdir: the Inode becomes a TxInode and is put. *)
Close(p) ==
  /\ pc[p] = "idle" /\ file[p] # None
  /\ tx' = [tx EXCEPT ![p] = file[p]]
  /\ file' = [file EXCEPT ![p] = None]
  /\ op' = [op EXCEPT ![p] = "look"]
  /\ Goto(p, "drop")
  /\ UNCHANGED <<disk, links, data, lk, dir, halted>>

(* fork clones the cwd of p for q.                                         *)
Fork(p, q) ==
  /\ file[p] # None /\ file[q] = None /\ pc[p] = "idle" /\ pc[q] = "idle"
  /\ file' = [file EXCEPT ![q] = file[p]]
  /\ UNCHANGED <<disk, links, data, lk, dir, tx, op, pc, halted>>

(* The call gives up before it locks: wait_lock of a killed process, or    *)
(* unlink of "." or ".." after the path was resolved.                      *)
GiveUp(p) ==
  /\ pc[p] = "lock" /\ op[p] \in {"look", "read"}
  /\ Goto(p, "drop")
  /\ UNCHANGED <<disk, links, data, lk, dir, file, tx, op, halted>>

Lock(p) ==
  /\ pc[p] = "lock" /\ lk[tx[p]] = None
  /\ lk' = [lk EXCEPT ![tx[p]] = p]
  /\ Read(tx[p])
  /\ Goto(p, "locked")
  /\ UNCHANGED <<disk, links, dir, file, tx, op, halted>>

-----------------------------------------------------------------------------
(* What is done under the lock.                                            *)

(* Look at the inode, and open a file on it or not.                        *)
Use(p) ==
  /\ pc[p] = "locked" /\ op[p] \in {"look", "read"}
  /\ \/ UNCHANGED file
     \/ op[p] = "look" /\ file[p] = None /\ file' = [file EXCEPT ![p] = tx[p]]
  /\ Unlock(tx[p])
  /\ Goto(p, "drop")
  /\ UNCHANGED <<disk, links, data, dir, tx, op, halted>>

(* Faulty variant: the link count is changed in memory only.               *)
UnlinkInMemory(p) ==
  LET i == tx[p] IN
  /\ pc[p] = "locked" /\ op[p] = "unlink" /\ copy[i] > 0
  /\ links' = [links EXCEPT ![i] = @ - 1]
  /\ copy' = [copy EXCEPT ![i] = @ - 1]
  /\ Unlock(i)
  /\ dir' = None
  /\ Goto(p, "drop")
  /\ UNCHANGED <<disk, valid, file, tx, op, halted>>

(* unlink: erase the entry, unlock the directory, decrement the count.     *)
Unlink(p) ==
  LET i == tx[p] IN
  /\ pc[p] = "locked" /\ op[p] = "unlink" /\ copy[i] > 0
  /\ links' = [links EXCEPT ![i] = @ - 1]
  /\ Update(i, copy[i] - 1) /\ Unlock(i)
  /\ dir' = None
  /\ Goto(p, "drop")
  /\ UNCHANGED <<file, tx, op, halted>>

(* create: no such name in the directory; alloc_ino takes a free inode,    *)
(* the directory stays locked.                                             *)
AllocIno(p, i) ==
  /\ pc[p] = "idle" /\ dir = None
  /\ i \notin used
  /\ used' = used \cup {i}
  /\ nlink' = [nlink EXCEPT ![i] = 0]
  /\ dir' = p
  /\ tx' = [tx EXCEPT ![p] = i]
  /\ op' = [op EXCEPT ![p] = "create"]
  /\ Goto(p, "alloc")
  /\ UNCHANGED <<links, data, lk, file, halted>>

AllocGet(p) ==
  /\ pc[p] = "alloc" /\ ~ TableFull(tx[p])
  /\ Goto(p, "lock")
  /\ UNCHANGED <<disk, links, data, lk, dir, file, tx, op, halted>>

AllocPanics(p) ==
  /\ pc[p] = "alloc" /\ TableFull(tx[p])
  /\ Panic("table full")

(* create: the first update, with no link yet.                             *)
CreateInit(p) ==
  /\ pc[p] = "locked" /\ op[p] = "create"
  /\ Update(tx[p], 0)
  /\ Goto(p, "dirent")
  /\ UNCHANGED <<links, lk, dir, file, tx, op, halted>>

(* create: the entry is written; the caller goes on with the new inode.    *)
CreateLink(p) ==
  LET i == tx[p] IN
  /\ pc[p] = "dirent" /\ op[p] = "create"
  /\ links' = [links EXCEPT ![i] = @ + 1]
  /\ Update(i, 1) /\ Unlock(i)
  /\ dir' = None
  /\ op' = [op EXCEPT ![p] = "look"]
  /\ Goto(p, "lock")
  /\ UNCHANGED <<file, tx, halted>>

(* create: no room for the entry; the new inode is dropped with the        *)
(* directory still locked.                                                 *)
CreateFails(p) ==
  /\ pc[p] = "dirent" /\ op[p] = "create"
  /\ Unlock(tx[p])
  /\ Goto(p, "drop")
  /\ UNCHANGED <<disk, links, data, dir, file, tx, op, halted>>

(* link: the old inode is no directory; unlock it.                         *)
LinkCheck(p) ==
  /\ pc[p] = "locked" /\ op[p] = "link"
  /\ Unlock(tx[p])
  /\ Goto(p, "dirent")
  /\ UNCHANGED <<disk, links, data, dir, file, tx, op, halted>>

(* link: write the new entry under the lock of the directory ...           *)
LinkEntry(p) ==
  /\ pc[p] = "dirent" /\ op[p] = "link" /\ dir = None
  /\ links[tx[p]] < MaxLink
  /\ links' = [links EXCEPT ![tx[p]] = @ + 1]
  /\ dir' = p
  /\ op' = [op EXCEPT ![p] = "linked"]
  /\ Goto(p, "lock")
  /\ UNCHANGED <<disk, data, lk, file, tx, halted>>

(* ... or fail, for lack of room or because the name exists.               *)
LinkFails(p) ==
  /\ pc[p] = "dirent" /\ op[p] = "link" /\ dir = None
  /\ Goto(p, "drop")
  /\ UNCHANGED <<disk, links, data, lk, dir, file, tx, op, halted>>

(* link: lock the old inode again and count the link.                      *)
LinkCount(p) ==
  LET i == tx[p] IN
  /\ pc[p] = "locked" /\ op[p] = "linked"
  /\ Update(i, copy[i] + 1) /\ Unlock(i)
  /\ dir' = None
  /\ Goto(p, "drop")
  /\ UNCHANGED <<links, file, tx, op, halted>>

-----------------------------------------------------------------------------
(* TxInode::drop.                                                          *)

(* Not the last reference, or links remain: nothing to do.                 *)
DropKeep(p) ==
  /\ pc[p] = "drop"
  /\ Last(p) => Content(tx[p]) > 0
  /\ Goto(p, "decrement")
  /\ UNCHANGED <<disk, links, data, lk, dir, file, tx, op, halted>>

(* Faulty variant: the other references are not looked at.                 *)
DropFreeAnyway(p) ==
  /\ pc[p] = "drop"
  /\ lk[tx[p]] = None /\ Content(tx[p]) = 0
  /\ op[p] # "read"
  /\ lk' = [lk EXCEPT ![tx[p]] = p]
  /\ Read(tx[p])
  /\ Goto(p, "free")
  /\ UNCHANGED <<disk, links, dir, file, tx, op, halted>>

(* The last reference to an inode without links: keep it locked to free it.*)
DropFree(p) ==
  /\ pc[p] = "drop"
  /\ Last(p) /\ Content(tx[p]) = 0
  /\ op[p] # "read"
  /\ lk' = [lk EXCEPT ![tx[p]] = p]
  /\ Read(tx[p])
  /\ Goto(p, "free")
  /\ UNCHANGED <<disk, links, dir, file, tx, op, halted>>

(* The copy was never read and the inode block has to be waited for, while *)
(* the spin lock of the table is held: sched() panics.                     *)
DropPanics(p) ==
  /\ pc[p] = "drop" /\ Last(p) /\ tx[p] \notin valid
  /\ Panic("sleep")

(* truncate and free: the type becomes 0 on disk, the copy is forgotten.   *)
FreeIno(p) ==
  LET i == tx[p] IN
  /\ pc[p] = "free"
  /\ used' = used \ {i}
  /\ valid' = valid \ {i} /\ copy' = [copy EXCEPT ![i] = 0]
  /\ Unlock(i)
  /\ Goto(p, "decrement")
  /\ UNCHANGED <<nlink, links, dir, file, tx, op, halted>>

(* The Arc is dropped, with the copy when it was the last; create unlocks  *)
(* the directory after that.                                               *)
Decrement(p) ==
  /\ pc[p] = "decrement"
  /\ IF Last(p)
     THEN valid' = valid \ {tx[p]} /\ copy' = [copy EXCEPT ![tx[p]] = 0]
     ELSE UNCHANGED data
  /\ tx' = [tx EXCEPT ![p] = None]
  /\ dir' = IF dir = p THEN None ELSE dir
  /\ op' = [op EXCEPT ![p] = "look"]
  /\ Goto(p, "idle")
  /\ UNCHANGED <<disk, links, lk, file, halted>>

-----------------------------------------------------------------------------
Step(p) ==
  \/ GiveUp(p) \/ Lock(p) \/ Use(p) \/ Unlink(p)
  \/ AllocGet(p) \/ AllocPanics(p) \/ CreateInit(p) \/ CreateLink(p) \/ CreateFails(p)
  \/ LinkCheck(p) \/ LinkEntry(p) \/ LinkFails(p) \/ LinkCount(p)
  \/ DropKeep(p) \/ DropFree(p) \/ DropPanics(p) \/ FreeIno(p) \/ Decrement(p)

Call(p) ==
  \/ \E i \in Ino : (\E o \in {"look", "unlink", "link"} : Lookup(p, i, o)) \/ LookupPanics(p, i)
  \/ \E i \in Ino : AllocIno(p, i)
  \/ \E o \in {"look", "read"} : UseFile(p, o)
  \/ Close(p)
  \/ \E q \in Proc : Fork(p, q)

Running == halted = "no" /\ \E p \in Proc : Call(p) \/ Step(p)

(* After a panic nothing happens any more.                                 *)
Halted == halted # "no" /\ UNCHANGED vars

Next == Running \/ Halted

Spec == Init /\ [][Next]_vars

-----------------------------------------------------------------------------
(* Properties.                                                             *)

(* Every variable has its type.                                            *)
TypeOK ==
  /\ used \subseteq Ino /\ nlink \in [Ino -> Nat]
  /\ links \in [Ino -> Nat]
  /\ valid \subseteq Ino /\ copy \in [Ino -> Nat]
  /\ lk \in [Ino -> Proc \cup {None}]
  /\ dir \in Proc \cup {None}
  /\ file \in [Proc -> Ino \cup {None}]
  /\ tx \in [Proc -> Ino \cup {None}]
  /\ op \in [Proc -> Ops]
  /\ pc \in [Proc -> PC]
  /\ halted \in {"no", "table full", "sleep"}

(* The lock of a copy is held by who works on it, through a TxInode.       *)
LockDiscipline ==
  /\ \A p \in Proc : pc[p] = "idle" <=> tx[p] = None
  /\ \A i \in Ino, p \in Proc :
       lk[i] = p <=> /\ tx[p] = i
                     /\ pc[p] \in {"locked", "free"} \/ (pc[p] = "dirent" /\ op[p] = "create")
  /\ \A i \in Ino : lk[i] # None => i \in valid

(* The lock of the directory is held from the lookup to the change of the  *)
(* link count.                                                             *)
DirDiscipline ==
  \A p \in Proc :
    /\ dir = p <=> op[p] = "create" \/ (op[p] \in {"unlink", "linked"} /\ pc[p] \in {"lock", "locked"})
    /\ pc[p] = "idle" => op[p] = "look"
    /\ pc[p] = "alloc" => op[p] = "create"
    /\ pc[p] = "dirent" => op[p] \in {"create", "link"}

(* An inode somebody can reach, through an entry, a file or a TxInode, is  *)
(* allocated on disk: alloc_ino never hands it out a second time.          *)
InUseIsAllocated ==
  \A i \in Ino \ used :
    /\ links[i] = 0
    /\ \A p \in Proc : file[p] # i
    /\ \A p \in Proc : tx[p] = i => pc[p] = "decrement"

(* An inode is allocated and freed by one process, while no other has it.  *)
Exclusive ==
  \A p \in Proc : pc[p] \in {"alloc", "free"} =>
    /\ links[tx[p]] = 0
    /\ \A q \in Proc : file[q] # tx[p]
    /\ \A q \in Proc \ {p} : tx[q] = tx[p] => pc[p] = "alloc" /\ pc[q] = "decrement"

(* The copy of an inode agrees with the disk whenever somebody else can    *)
(* look at it, and neither a free inode nor a dead table entry has one.    *)
CopyAgrees ==
  /\ \A i \in valid : copy[i] = nlink[i]
  /\ \A i \in valid : i \in used /\ Live(i)

(* link has made an entry for i and not counted it yet.                    *)
Linking(i) == \E p \in Proc : dir = p /\ tx[p] = i /\ op[p] = "linked"

(* The link count is the number of entries, but for a link that is being   *)
(* made under the lock of the directory.                                   *)
LinksCounted ==
  \A i \in Ino : links[i] = nlink[i] + (IF Linking(i) THEN 1 ELSE 0)

(* unlink holds the lock of the directory in which it found the entry, a   *)
(* new inode has no links yet.                                             *)
EntryDiscipline ==
  \A p \in Proc :
    /\ op[p] = "unlink" /\ pc[p] \in {"lock", "locked"} => links[tx[p]] > 0
    /\ op[p] = "create" /\ pc[p] # "decrement" => links[tx[p]] = 0

(* The assertions of unlink and drop hold: unlink finds a counted link,    *)
(* and a read-only transaction never drops the last reference.             *)
AssertionsHold ==
  \A p \in Proc :
    /\ pc[p] = "locked" /\ op[p] = "unlink" => copy[tx[p]] > 0
    /\ op[p] = "read" => file[p] = tx[p]

(* The inductive invariant of the inode table: what get, dup, lock, unlink *)
(* and TxInode::drop keep of references, copies, links and inodes on disk. *)
InodeInv ==
  /\ TypeOK /\ LockDiscipline /\ DirDiscipline
  /\ InUseIsAllocated /\ Exclusive /\ CopyAgrees
  /\ EntryDiscipline /\ LinksCounted /\ AssertionsHold

(* An inode becomes free on disk only without entries, files or other      *)
(* users.                                                                  *)
FreedWhenUnused ==
  [][\A i \in used \ used' :
       /\ links[i] = 0
       /\ \A p \in Proc : file[p] # i
       /\ \E p \in Proc : \A q \in Proc \ {p} : ~ Holds(q, i)]_vars

(* fs/inode/mod.rs: "TxInode::drop() (destructor) or TxInode::put() frees  *)
(* if the reference and link counts have fallen to zero".                  *)
UnusedIsFreed ==
  \A i \in used : nlink[i] = 0 => Live(i) \/ \E p \in Proc : tx[p] = i
=============================================================================
