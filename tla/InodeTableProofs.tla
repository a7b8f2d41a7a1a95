-------------------------- MODULE InodeTableProofs --------------------------
(***************************************************************************)
(* InodeInv is an invariant of the inode table for all sets of processes   *)
(* and inodes, and so an inode is never freed while it is used.            *)
(***************************************************************************)
EXTENDS InodeTable, TLAPS

(* Who is in a call has a TxInode.                                         *)
LEMMA Working ==
  ASSUME InodeInv, NEW p \in Proc, pc[p] # "idle" PROVE tx[p] \in Ino
<1>1. tx \in [Proc -> Ino \cup {None}] BY Zenon DEF InodeInv, TypeOK
<1> QED BY <1>1 DEF InodeInv, LockDiscipline

(* Who locks an inode sees the link count on disk.                         *)
LEMMA ContentOnDisk ==
  ASSUME InodeInv, NEW i \in Ino PROVE Content(i) = nlink[i]
BY Zenon DEF InodeInv, CopyAgrees, Content

(* References stay where files and TxInodes stay.                          *)
LEMMA StillLive ==
  ASSUME InodeInv, UNCHANGED <<file, tx>>, NEW j \in Ino, Live(j),
         \A q \in Proc : pc'[q] = "alloc" => pc[q] = "alloc"
  PROVE Live(j)'
<1>1. PICK q \in Proc : Holds(q, j) BY Zenon DEF Live
<1>2. file[q] = j \/ (tx[q] = j /\ pc[q] # "alloc")
  BY <1>1, Zenon DEF Holds, InodeInv, LockDiscipline
<1> QED BY <1>2, Zenon DEF Live, Holds

(* update() keeps copies and disk in agreement.                            *)
LEMMA UpdateAgrees ==
  ASSUME InodeInv, NEW i \in Ino, NEW n \in Nat, Update(i, n)
  PROVE /\ \A j \in valid' : copy'[j] = nlink'[j]
        /\ valid' = valid /\ used' = used
<1>1. copy \in [Ino -> Nat] /\ nlink \in [Ino -> Nat] /\ valid \subseteq Ino
  BY Zenon DEF InodeInv, TypeOK
<1>2. \A j \in valid : copy[j] = nlink[j] BY Zenon DEF InodeInv, CopyAgrees
<1> QED BY <1>1, <1>2, Zenon DEF Update

(* So does reading a copy.                                                 *)
LEMMA ReadAgrees ==
  ASSUME InodeInv, NEW i \in Ino, Read(i), UNCHANGED nlink
  PROVE /\ \A j \in valid' : copy'[j] = nlink'[j]
        /\ valid' = valid \cup {i}
<1>1. copy \in [Ino -> Nat] /\ valid \subseteq Ino
  BY Zenon DEF InodeInv, TypeOK
<1>2. \A j \in valid : copy[j] = nlink[j] BY Zenon DEF InodeInv, CopyAgrees
<1>3. valid' = valid \cup {i} /\ copy' = [copy EXCEPT ![i] = nlink[i]]
  BY ContentOnDisk, Zenon DEF Read
<1> QED BY <1>1, <1>2, <1>3, Zenon

(* The last reference to an inode with link count 0: no entry names it, as *)
(* nobody can be between the two halves of link.                           *)
LEMMA LastUnlinked ==
  ASSUME InodeInv, NEW p \in Proc, pc[p] = "drop", Last(p), Content(tx[p]) = 0
  PROVE links[tx[p]] = 0
<1>1. tx[p] \in Ino BY Working, Zenon
<1>2. nlink[tx[p]] = 0 BY <1>1, ContentOnDisk, Zenon
<1>3. ASSUME NEW q \in Proc, dir = q, tx[q] = tx[p], op[q] = "linked" PROVE FALSE
  <2>1. pc[q] \in {"lock", "locked"} BY <1>3, Zenon DEF InodeInv, DirDiscipline
  <2>2. q # p /\ Holds(q, tx[p]) BY <1>3, <2>1, Zenon DEF Holds
  <2> QED BY <2>2, Zenon DEF Last
<1>4. ~ Linking(tx[p]) BY <1>3, Zenon DEF Linking
<1> QED BY <1>1, <1>2, <1>4 DEF InodeInv, LinksCounted

(* A locked copy was read.                                                 *)
LEMMA Locked ==
  ASSUME InodeInv, NEW p \in Proc, pc[p] = "locked" PROVE tx[p] \in valid
<1>1. tx[p] \in Ino BY Working, Zenon
<1>2. lk[tx[p]] = p BY <1>1, Zenon DEF InodeInv, LockDiscipline
<1> QED BY <1>1, <1>2, ConstAssumption DEF InodeInv, LockDiscipline

(* Initially there is nothing.                                             *)
LEMMA InitInv == Init => InodeInv
<1> SUFFICES ASSUME Init PROVE InodeInv BY Zenon
<1> USE ConstAssumption
<1>1. TypeOK BY Zenon DEF Init, TypeOK, Ops, PC
<1>2. LockDiscipline BY Zenon DEF Init, LockDiscipline
<1>3. DirDiscipline BY Zenon DEF Init, DirDiscipline
<1>4. InUseIsAllocated BY Zenon DEF Init, InUseIsAllocated
<1>5. Exclusive BY Zenon DEF Init, Exclusive
<1>6. CopyAgrees BY Zenon DEF Init, CopyAgrees
<1>7. EntryDiscipline BY Zenon DEF Init, EntryDiscipline
<1>8. LinksCounted BY DEF Init, LinksCounted, Linking
<1>9. AssertionsHold BY Zenon DEF Init, AssertionsHold
<1> QED BY <1>1, <1>2, <1>3, <1>4, <1>5, <1>6, <1>7, <1>8, <1>9, Zenon DEF InodeInv

(* The steps, with the panics, which change halted only.                   *)
LEMMA NextCases ==
  ASSUME [Next]_vars
  PROVE  \/ /\ UNCHANGED <<disk, links, data, lk, dir, file, tx, op, pc>>
            /\ halted' \in {halted, "table full", "sleep"}
         \/ \E p \in Proc, i \in Ino : AllocIno(p, i)
         \/ \E p \in Proc, i \in Ino, o \in {"look", "unlink", "link"} : Lookup(p, i, o)
         \/ \E p \in Proc, o \in {"look", "read"} : UseFile(p, o)
         \/ \E p \in Proc, q \in Proc : Fork(p, q)
         \/ \E p \in Proc :
             \/ Close(p) \/ GiveUp(p) \/ Lock(p) \/ Use(p)
             \/ Unlink(p) \/ AllocGet(p) \/ CreateInit(p) \/ CreateLink(p)
             \/ CreateFails(p) \/ LinkCheck(p) \/ LinkEntry(p) \/ LinkFails(p)
             \/ LinkCount(p) \/ DropKeep(p) \/ DropFree(p) \/ FreeIno(p)
             \/ Decrement(p)
BY ZenonT(40) DEF Next, Running, Halted, Call, Step, LookupPanics, AllocPanics, DropPanics,
   Panic, vars

(* The types, but for the numbers.                                         *)
RefOK ==
  /\ tx \in [Proc -> Ino \cup {None}] /\ file \in [Proc -> Ino \cup {None}]
  /\ op \in [Proc -> Ops] /\ pc \in [Proc -> PC]
  /\ lk \in [Ino -> Proc \cup {None}] /\ dir \in Proc \cup {None}
  /\ used \subseteq Ino /\ valid \subseteq Ino
  /\ halted \in {"no", "table full", "sleep"}

(* They are kept.                                                          *)
LEMMA RefStep ==
  ASSUME InodeInv, [Next]_vars PROVE RefOK'
<1> USE DEF vars, disk, data
<1>t. RefOK BY Zenon DEF InodeInv, TypeOK, RefOK
<1>w. \A p \in Proc : pc[p] # "idle" => tx[p] \in Ino BY Working, Zenon
<1>h. halted \in {"no", "table full", "sleep"} BY <1>t, Zenon DEF RefOK
<1>0. CASE /\ UNCHANGED <<disk, links, data, lk, dir, file, tx, op, pc>>
           /\ halted' \in {"no", "table full", "sleep"}
  BY <1>0, <1>t, Zenon DEF RefOK
<1>1. ASSUME NEW p \in Proc, NEW i \in Ino, NEW o \in {"look", "unlink", "link"}, Lookup(p, i, o) PROVE RefOK'
  BY <1>1, <1>t, <1>w, Zenon DEF Lookup, Goto, Ops, PC, RefOK
<1>2. ASSUME NEW p \in Proc, NEW i \in Ino, AllocIno(p, i) PROVE RefOK'
  BY <1>2, <1>t, <1>w, Zenon DEF AllocIno, Goto, Ops, PC, RefOK
<1>3. ASSUME NEW p \in Proc, NEW o \in {"look", "read"}, UseFile(p, o) PROVE RefOK'
  BY <1>3, <1>t, <1>w, Zenon DEF UseFile, Goto, Ops, PC, RefOK
<1>4. ASSUME NEW p \in Proc, Close(p) PROVE RefOK'
  BY <1>4, <1>t, <1>w, Zenon DEF Close, Goto, Ops, PC, RefOK
<1>5. ASSUME NEW p \in Proc, NEW q \in Proc, Fork(p, q) PROVE RefOK'
  BY <1>5, <1>t, <1>w, Zenon DEF Fork, Ops, PC, RefOK
<1>6. ASSUME NEW p \in Proc, GiveUp(p) PROVE RefOK'
  BY <1>6, <1>t, <1>w, Zenon DEF GiveUp, Goto, Ops, PC, RefOK
<1>7. ASSUME NEW p \in Proc, Lock(p) PROVE RefOK'
  BY <1>7, <1>t, <1>w, Zenon DEF Lock, Goto, Read, Ops, PC, RefOK
<1>8. ASSUME NEW p \in Proc, Use(p) PROVE RefOK'
  BY <1>8, <1>t, <1>w, Zenon DEF Use, Goto, Unlock, Ops, PC, RefOK
<1>9. ASSUME NEW p \in Proc, Unlink(p) PROVE RefOK'
  BY <1>9, <1>t, <1>w, Zenon DEF Unlink, Goto, Unlock, Update, Ops, PC, RefOK
<1>10. ASSUME NEW p \in Proc, AllocGet(p) PROVE RefOK'
  BY <1>10, <1>t, <1>w, Zenon DEF AllocGet, Goto, Ops, PC, RefOK
<1>11. ASSUME NEW p \in Proc, CreateInit(p) PROVE RefOK'
  BY <1>11, <1>t, <1>w, Zenon DEF CreateInit, Goto, Update, Ops, PC, RefOK
<1>12. ASSUME NEW p \in Proc, CreateLink(p) PROVE RefOK'
  BY <1>12, <1>t, <1>w, Zenon DEF CreateLink, Goto, Update, Unlock, Ops, PC, RefOK
<1>13. ASSUME NEW p \in Proc, CreateFails(p) PROVE RefOK'
  BY <1>13, <1>t, <1>w, Zenon DEF CreateFails, Goto, Unlock, Ops, PC, RefOK
<1>14. ASSUME NEW p \in Proc, LinkCheck(p) PROVE RefOK'
  BY <1>14, <1>t, <1>w, Zenon DEF LinkCheck, Goto, Unlock, Ops, PC, RefOK
<1>15. ASSUME NEW p \in Proc, LinkEntry(p) PROVE RefOK'
  BY <1>15, <1>t, <1>w, Zenon DEF LinkEntry, Goto, Ops, PC, RefOK
<1>16. ASSUME NEW p \in Proc, LinkFails(p) PROVE RefOK'
  BY <1>16, <1>t, <1>w, Zenon DEF LinkFails, Goto, Ops, PC, RefOK
<1>17. ASSUME NEW p \in Proc, LinkCount(p) PROVE RefOK'
  BY <1>17, <1>t, <1>w, Zenon DEF LinkCount, Goto, Update, Unlock, Ops, PC, RefOK
<1>18. ASSUME NEW p \in Proc, DropKeep(p) PROVE RefOK'
  BY <1>18, <1>t, <1>w, Zenon DEF DropKeep, Goto, Ops, PC, RefOK
<1>19. ASSUME NEW p \in Proc, DropFree(p) PROVE RefOK'
  BY <1>19, <1>t, <1>w, Zenon DEF DropFree, Goto, Read, Ops, PC, RefOK
<1>20. ASSUME NEW p \in Proc, FreeIno(p) PROVE RefOK'
  BY <1>20, <1>t, <1>w, Zenon DEF FreeIno, Goto, Unlock, Ops, PC, RefOK
<1>21. ASSUME NEW p \in Proc, Decrement(p) PROVE RefOK'
  BY <1>21, <1>t, <1>w, Zenon DEF Decrement, Goto, Ops, PC, RefOK
<1> QED BY NextCases, <1>0, <1>1, <1>2, <1>3, <1>4, <1>5, <1>6, <1>7, <1>8,
  <1>9, <1>10, <1>11, <1>12, <1>13, <1>14, <1>15, <1>16, <1>17, <1>18, <1>19,
  <1>20, <1>21, <1>h, Zenon

(* The numbers.                                                            *)
NumOK == nlink \in [Ino -> Nat] /\ links \in [Ino -> Nat] /\ copy \in [Ino -> Nat]

(* They stay numbers: what is decremented is positive.                     *)
LEMMA NumStep ==
  ASSUME InodeInv, [Next]_vars PROVE NumOK'
<1> USE DEF vars, disk, data
<1>t. nlink \in [Ino -> Nat] /\ links \in [Ino -> Nat] /\ copy \in [Ino -> Nat]
  BY Zenon DEF InodeInv, TypeOK
<1>w. \A p \in Proc : pc[p] # "idle" => tx[p] \in Ino BY Working, Zenon
<1>0. CASE UNCHANGED <<disk, links, data, lk, dir, file, tx, op, pc>>
  BY <1>0, <1>t, Zenon DEF NumOK
<1>1. ASSUME NEW p \in Proc, NEW i \in Ino, NEW o \in {"look", "unlink", "link"}, Lookup(p, i, o) PROVE NumOK'
  BY <1>1, <1>t, Zenon DEF Lookup, Update, NumOK
<1>2. ASSUME NEW p \in Proc, NEW i \in Ino, AllocIno(p, i) PROVE NumOK'
  BY <1>2, <1>t, Zenon DEF AllocIno, Update, NumOK
<1>3. ASSUME NEW p \in Proc, NEW o \in {"look", "read"}, UseFile(p, o) PROVE NumOK'
  BY <1>3, <1>t, Zenon DEF UseFile, Update, NumOK
<1>4. ASSUME NEW p \in Proc, Close(p) PROVE NumOK'
  BY <1>4, <1>t, Zenon DEF Close, Update, NumOK
<1>5. ASSUME NEW p \in Proc, NEW q \in Proc, Fork(p, q) PROVE NumOK'
  BY <1>5, <1>t, Zenon DEF Fork, Update, NumOK
<1>6. ASSUME NEW p \in Proc, GiveUp(p) PROVE NumOK'
  BY <1>6, <1>t, Zenon DEF GiveUp, Update, NumOK
<1>7. ASSUME NEW p \in Proc, Lock(p) PROVE NumOK'
  <2>1. tx[p] \in Ino BY <1>7, Working, Zenon DEF Lock
  <2>2. Content(tx[p]) \in Nat BY <1>t, <2>1, ContentOnDisk, Zenon
  <2> QED BY <1>7, <1>t, <2>2, Zenon DEF Lock, Read, NumOK
<1>8. ASSUME NEW p \in Proc, Use(p) PROVE NumOK'
  BY <1>8, <1>t, Zenon DEF Use, Update, NumOK
<1>9. ASSUME NEW p \in Proc, Unlink(p) PROVE NumOK'
  <2>1. tx[p] \in Ino BY <1>9, Working, Zenon DEF Unlink
  <2>2. links[tx[p]] \in Nat /\ links[tx[p]] > 0 /\ copy[tx[p]] \in Nat /\ copy[tx[p]] > 0
    BY <1>9, <1>t, <2>1, Zenon DEF Unlink, InodeInv, EntryDiscipline
  <2>3. links[tx[p]] - 1 \in Nat /\ copy[tx[p]] - 1 \in Nat BY <2>2
  <2> QED BY <1>9, <1>t, <2>3, Zenon DEF Unlink, Update, NumOK
<1>10. ASSUME NEW p \in Proc, AllocGet(p) PROVE NumOK'
  BY <1>10, <1>t, Zenon DEF AllocGet, Update, NumOK
<1>11. ASSUME NEW p \in Proc, CreateInit(p) PROVE NumOK'
  BY <1>11, <1>t, Zenon DEF CreateInit, Update, NumOK
<1>12. ASSUME NEW p \in Proc, CreateLink(p) PROVE NumOK'
  <2>1. tx[p] \in Ino BY <1>12, Working, Zenon DEF CreateLink
  <2>2. links[tx[p]] \in Nat BY <1>t, <2>1, Zenon
  <2>3. links[tx[p]] + 1 \in Nat BY <2>2
  <2> QED BY <1>12, <1>t, <2>3, Zenon DEF CreateLink, Update, NumOK
<1>13. ASSUME NEW p \in Proc, CreateFails(p) PROVE NumOK'
  BY <1>13, <1>t, Zenon DEF CreateFails, Update, NumOK
<1>14. ASSUME NEW p \in Proc, LinkCheck(p) PROVE NumOK'
  BY <1>14, <1>t, Zenon DEF LinkCheck, Update, NumOK
<1>15. ASSUME NEW p \in Proc, LinkEntry(p) PROVE NumOK'
  <2>1. tx[p] \in Ino BY <1>15, Working, Zenon DEF LinkEntry
  <2>2. links[tx[p]] \in Nat BY <1>t, <2>1, Zenon
  <2>3. links[tx[p]] + 1 \in Nat BY <2>2
  <2> QED BY <1>15, <1>t, <2>3, Zenon DEF LinkEntry, NumOK
<1>16. ASSUME NEW p \in Proc, LinkFails(p) PROVE NumOK'
  BY <1>16, <1>t, Zenon DEF LinkFails, Update, NumOK
<1>17. ASSUME NEW p \in Proc, LinkCount(p) PROVE NumOK'
  <2>1. tx[p] \in Ino BY <1>17, Working, Zenon DEF LinkCount
  <2>2. copy[tx[p]] \in Nat BY <1>t, <2>1, Zenon
  <2>3. copy[tx[p]] + 1 \in Nat BY <2>2
  <2> QED BY <1>17, <1>t, <2>3, Zenon DEF LinkCount, Update, NumOK
<1>18. ASSUME NEW p \in Proc, DropKeep(p) PROVE NumOK'
  BY <1>18, <1>t, Zenon DEF DropKeep, Update, NumOK
<1>19. ASSUME NEW p \in Proc, DropFree(p) PROVE NumOK'
  <2>1. tx[p] \in Ino BY <1>19, Working, Zenon DEF DropFree
  <2>2. Content(tx[p]) \in Nat BY <1>t, <2>1, ContentOnDisk, Zenon
  <2> QED BY <1>19, <1>t, <2>2, Zenon DEF DropFree, Read, NumOK
<1>20. ASSUME NEW p \in Proc, FreeIno(p) PROVE NumOK'
  BY <1>20, <1>t, Zenon DEF FreeIno, Update, NumOK
<1>21. ASSUME NEW p \in Proc, Decrement(p) PROVE NumOK'
  BY <1>21, <1>t DEF Decrement, Update, NumOK
<1> QED BY NextCases, <1>0, <1>1, <1>2, <1>3, <1>4, <1>5, <1>6, <1>7, <1>8,
  <1>9, <1>10, <1>11, <1>12, <1>13, <1>14, <1>15, <1>16, <1>17, <1>18, <1>19,
  <1>20, <1>21, Zenon

(* The type invariant.                                                     *)
LEMMA TypeStep ==
  ASSUME InodeInv, [Next]_vars PROVE TypeOK'
BY RefStep, NumStep, Zenon DEF TypeOK, RefOK, NumOK

(* The locks of the copies: Lock and DropFree take one that is free, the   *)
(* last because nobody else has a reference.                               *)
LEMMA LockStep ==
  ASSUME InodeInv, [Next]_vars PROVE LockDiscipline'
<1> USE DEF vars, disk, data
<1>t. /\ tx \in [Proc -> Ino \cup {None}] /\ file \in [Proc -> Ino \cup {None}]
      /\ op \in [Proc -> Ops] /\ pc \in [Proc -> PC]
      /\ lk \in [Ino -> Proc \cup {None}] /\ dir \in Proc \cup {None}
      /\ used \subseteq Ino /\ valid \subseteq Ino
  BY Zenon DEF InodeInv, TypeOK
<1>c. None \notin Ino /\ None \notin Proc BY ConstAssumption, Zenon
<1>i. LockDiscipline /\ DirDiscipline
  BY Zenon DEF InodeInv
<1>0. CASE UNCHANGED <<disk, links, data, lk, dir, file, tx, op, pc>>
  BY <1>0, <1>i DEF LockDiscipline, Last, Holds
<1>1. ASSUME NEW p \in Proc, NEW i \in Ino, NEW o \in {"look", "unlink", "link"}, Lookup(p, i, o) PROVE LockDiscipline'
  BY <1>1, <1>t, <1>c, <1>i DEF Lookup, Goto, LockDiscipline, DirDiscipline,
     Last, Holds
<1>2. ASSUME NEW p \in Proc, NEW i \in Ino, AllocIno(p, i) PROVE LockDiscipline'
  BY <1>2, <1>t, <1>c, <1>i DEF AllocIno, Goto, LockDiscipline, DirDiscipline,
     Last, Holds
<1>3. ASSUME NEW p \in Proc, NEW o \in {"look", "read"}, UseFile(p, o) PROVE LockDiscipline'
  BY <1>3, <1>t, <1>c, <1>i DEF UseFile, Goto, LockDiscipline, DirDiscipline,
     Last, Holds
<1>4. ASSUME NEW p \in Proc, Close(p) PROVE LockDiscipline'
  BY <1>4, <1>t, <1>c, <1>i DEF Close, Goto, LockDiscipline, DirDiscipline,
     Last, Holds
<1>5. ASSUME NEW p \in Proc, NEW q \in Proc, Fork(p, q) PROVE LockDiscipline'
  BY <1>5, <1>t, <1>c, <1>i DEF Fork, LockDiscipline, DirDiscipline, Last, Holds
<1>6. ASSUME NEW p \in Proc, GiveUp(p) PROVE LockDiscipline'
  BY <1>6, <1>t, <1>c, <1>i DEF GiveUp, Goto, LockDiscipline, DirDiscipline,
     Last, Holds
<1>7. ASSUME NEW p \in Proc, Lock(p) PROVE LockDiscipline'
  BY <1>7, <1>t, <1>c, <1>i DEF Lock, Goto, Read, Content, LockDiscipline,
     DirDiscipline, Last, Holds
<1>8. ASSUME NEW p \in Proc, Use(p) PROVE LockDiscipline'
  BY <1>8, <1>t, <1>c, <1>i DEF Use, Goto, Unlock, LockDiscipline,
     DirDiscipline, Last, Holds
<1>9. ASSUME NEW p \in Proc, Unlink(p) PROVE LockDiscipline'
  BY <1>9, <1>t, <1>c, <1>i DEF Unlink, Goto, Unlock, Update, LockDiscipline,
     DirDiscipline, Last, Holds
<1>10. ASSUME NEW p \in Proc, AllocGet(p) PROVE LockDiscipline'
  BY <1>10, <1>t, <1>c, <1>i DEF AllocGet, Goto, LockDiscipline, DirDiscipline,
     Last, Holds
<1>11. ASSUME NEW p \in Proc, CreateInit(p) PROVE LockDiscipline'
  BY <1>11, <1>t, <1>c, <1>i DEF CreateInit, Goto, Update, LockDiscipline,
     DirDiscipline, Last, Holds
<1>12. ASSUME NEW p \in Proc, CreateLink(p) PROVE LockDiscipline'
  BY <1>12, <1>t, <1>c, <1>i DEF CreateLink, Goto, Update, Unlock,
     LockDiscipline, DirDiscipline, Last, Holds
<1>13. ASSUME NEW p \in Proc, CreateFails(p) PROVE LockDiscipline'
  BY <1>13, <1>t, <1>c, <1>i DEF CreateFails, Goto, Unlock, LockDiscipline,
     DirDiscipline, Last, Holds
<1>14. ASSUME NEW p \in Proc, LinkCheck(p) PROVE LockDiscipline'
  BY <1>14, <1>t, <1>c, <1>i DEF LinkCheck, Goto, Unlock, LockDiscipline,
     DirDiscipline, Last, Holds
<1>15. ASSUME NEW p \in Proc, LinkEntry(p) PROVE LockDiscipline'
  BY <1>15, <1>t, <1>c, <1>i DEF LinkEntry, Goto, LockDiscipline, DirDiscipline,
     Last, Holds
<1>16. ASSUME NEW p \in Proc, LinkFails(p) PROVE LockDiscipline'
  BY <1>16, <1>t, <1>c, <1>i DEF LinkFails, Goto, LockDiscipline, DirDiscipline,
     Last, Holds
<1>17. ASSUME NEW p \in Proc, LinkCount(p) PROVE LockDiscipline'
  BY <1>17, <1>t, <1>c, <1>i DEF LinkCount, Goto, Update, Unlock,
     LockDiscipline, DirDiscipline, Last, Holds
<1>18. ASSUME NEW p \in Proc, DropKeep(p) PROVE LockDiscipline'
  BY <1>18, <1>t, <1>c, <1>i DEF DropKeep, Goto, LockDiscipline, DirDiscipline,
     Last, Holds
<1>19. ASSUME NEW p \in Proc, DropFree(p) PROVE LockDiscipline'
  BY <1>19, <1>t, <1>c, <1>i DEF DropFree, Goto, Read, Content, LockDiscipline,
     DirDiscipline, Last, Holds
<1>20. ASSUME NEW p \in Proc, FreeIno(p) PROVE LockDiscipline'
  BY <1>20, <1>t, <1>c, <1>i DEF FreeIno, Goto, Unlock, LockDiscipline,
     DirDiscipline, Last, Holds
<1>21. ASSUME NEW p \in Proc, Decrement(p) PROVE LockDiscipline'
  BY <1>21, <1>t, <1>c, <1>i DEF Decrement, Goto, LockDiscipline, DirDiscipline,
     Last, Holds
<1> QED BY NextCases, <1>0, <1>1, <1>2, <1>3, <1>4, <1>5, <1>6, <1>7, <1>8,
  <1>9, <1>10, <1>11, <1>12, <1>13, <1>14, <1>15, <1>16, <1>17, <1>18, <1>19,
  <1>20, <1>21, Zenon

(* The lock of the directory.                                              *)
LEMMA DirStep ==
  ASSUME InodeInv, [Next]_vars PROVE DirDiscipline'
<1> USE DEF vars, disk, data
<1>t. /\ tx \in [Proc -> Ino \cup {None}] /\ file \in [Proc -> Ino \cup {None}]
      /\ op \in [Proc -> Ops] /\ pc \in [Proc -> PC]
      /\ lk \in [Ino -> Proc \cup {None}] /\ dir \in Proc \cup {None}
      /\ used \subseteq Ino /\ valid \subseteq Ino
  BY Zenon DEF InodeInv, TypeOK
<1>c. None \notin Ino /\ None \notin Proc BY ConstAssumption, Zenon
<1>i. LockDiscipline /\ DirDiscipline
  BY Zenon DEF InodeInv
<1>0. CASE UNCHANGED <<disk, links, data, lk, dir, file, tx, op, pc>>
  BY <1>0, <1>i, Zenon DEF DirDiscipline
<1>1. ASSUME NEW p \in Proc, NEW i \in Ino, NEW o \in {"look", "unlink", "link"}, Lookup(p, i, o) PROVE DirDiscipline'
  BY <1>1, <1>t, <1>c, <1>i DEF Lookup, Goto, LockDiscipline, DirDiscipline
<1>2. ASSUME NEW p \in Proc, NEW i \in Ino, AllocIno(p, i) PROVE DirDiscipline'
  BY <1>2, <1>t, <1>c, <1>i DEF AllocIno, Goto, LockDiscipline, DirDiscipline
<1>3. ASSUME NEW p \in Proc, NEW o \in {"look", "read"}, UseFile(p, o) PROVE DirDiscipline'
  BY <1>3, <1>t, <1>c, <1>i DEF UseFile, Goto, LockDiscipline, DirDiscipline
<1>4. ASSUME NEW p \in Proc, Close(p) PROVE DirDiscipline'
  BY <1>4, <1>t, <1>c, <1>i DEF Close, Goto, LockDiscipline, DirDiscipline
<1>5. ASSUME NEW p \in Proc, NEW q \in Proc, Fork(p, q) PROVE DirDiscipline'
  BY <1>5, <1>t, <1>c, <1>i, Zenon DEF Fork, LockDiscipline, DirDiscipline
<1>6. ASSUME NEW p \in Proc, GiveUp(p) PROVE DirDiscipline'
  BY <1>6, <1>t, <1>c, <1>i DEF GiveUp, Goto, LockDiscipline, DirDiscipline
<1>7. ASSUME NEW p \in Proc, Lock(p) PROVE DirDiscipline'
  BY <1>7, <1>t, <1>c, <1>i DEF Lock, Goto, Read, Content, LockDiscipline,
     DirDiscipline
<1>8. ASSUME NEW p \in Proc, Use(p) PROVE DirDiscipline'
  BY <1>8, <1>t, <1>c, <1>i DEF Use, Goto, Unlock, LockDiscipline, DirDiscipline
<1>9. ASSUME NEW p \in Proc, Unlink(p) PROVE DirDiscipline'
  BY <1>9, <1>t, <1>c, <1>i DEF Unlink, Goto, Unlock, Update, LockDiscipline,
     DirDiscipline
<1>10. ASSUME NEW p \in Proc, AllocGet(p) PROVE DirDiscipline'
  BY <1>10, <1>t, <1>c, <1>i DEF AllocGet, Goto, LockDiscipline, DirDiscipline
<1>11. ASSUME NEW p \in Proc, CreateInit(p) PROVE DirDiscipline'
  BY <1>11, <1>t, <1>c, <1>i DEF CreateInit, Goto, Update, LockDiscipline,
     DirDiscipline
<1>12. ASSUME NEW p \in Proc, CreateLink(p) PROVE DirDiscipline'
  BY <1>12, <1>t, <1>c, <1>i DEF CreateLink, Goto, Update, Unlock,
     LockDiscipline, DirDiscipline
<1>13. ASSUME NEW p \in Proc, CreateFails(p) PROVE DirDiscipline'
  BY <1>13, <1>t, <1>c, <1>i DEF CreateFails, Goto, Unlock, LockDiscipline,
     DirDiscipline
<1>14. ASSUME NEW p \in Proc, LinkCheck(p) PROVE DirDiscipline'
  BY <1>14, <1>t, <1>c, <1>i DEF LinkCheck, Goto, Unlock, LockDiscipline,
     DirDiscipline
<1>15. ASSUME NEW p \in Proc, LinkEntry(p) PROVE DirDiscipline'
  BY <1>15, <1>t, <1>c, <1>i DEF LinkEntry, Goto, LockDiscipline, DirDiscipline
<1>16. ASSUME NEW p \in Proc, LinkFails(p) PROVE DirDiscipline'
  BY <1>16, <1>t, <1>c, <1>i DEF LinkFails, Goto, LockDiscipline, DirDiscipline
<1>17. ASSUME NEW p \in Proc, LinkCount(p) PROVE DirDiscipline'
  BY <1>17, <1>t, <1>c, <1>i DEF LinkCount, Goto, Update, Unlock,
     LockDiscipline, DirDiscipline
<1>18. ASSUME NEW p \in Proc, DropKeep(p) PROVE DirDiscipline'
  BY <1>18, <1>t, <1>c, <1>i DEF DropKeep, Goto, LockDiscipline, DirDiscipline
<1>19. ASSUME NEW p \in Proc, DropFree(p) PROVE DirDiscipline'
  BY <1>19, <1>t, <1>c, <1>i DEF DropFree, Goto, Read, Content, LockDiscipline,
     DirDiscipline
<1>20. ASSUME NEW p \in Proc, FreeIno(p) PROVE DirDiscipline'
  BY <1>20, <1>t, <1>c, <1>i DEF FreeIno, Goto, Unlock, LockDiscipline,
     DirDiscipline
<1>21. ASSUME NEW p \in Proc, Decrement(p) PROVE DirDiscipline'
  BY <1>21, <1>t, <1>c, <1>i DEF Decrement, Goto, LockDiscipline, DirDiscipline
<1> QED BY NextCases, <1>0, <1>1, <1>2, <1>3, <1>4, <1>5, <1>6, <1>7, <1>8,
  <1>9, <1>10, <1>11, <1>12, <1>13, <1>14, <1>15, <1>16, <1>17, <1>18, <1>19,
  <1>20, <1>21, Zenon

(* FreeIno is the only step that could break it, and it is exclusive.      *)
LEMMA AllocStep ==
  ASSUME InodeInv, [Next]_vars PROVE InUseIsAllocated'
<1> USE DEF vars, disk, data
<1>t. /\ tx \in [Proc -> Ino \cup {None}] /\ file \in [Proc -> Ino \cup {None}]
      /\ op \in [Proc -> Ops] /\ pc \in [Proc -> PC]
      /\ lk \in [Ino -> Proc \cup {None}] /\ dir \in Proc \cup {None}
      /\ used \subseteq Ino /\ valid \subseteq Ino
  BY Zenon DEF InodeInv, TypeOK
<1>c. None \notin Ino /\ None \notin Proc BY ConstAssumption, Zenon
<1>i. LockDiscipline /\ InUseIsAllocated /\ Exclusive
  BY Zenon DEF InodeInv
<1>0. CASE UNCHANGED <<disk, links, data, lk, dir, file, tx, op, pc>>
  BY <1>0, <1>i, Zenon DEF InUseIsAllocated
<1>1. ASSUME NEW p \in Proc, NEW i \in Ino, NEW o \in {"look", "unlink", "link"}, Lookup(p, i, o) PROVE InUseIsAllocated'
  BY <1>1, <1>t, <1>c, <1>i DEF Lookup, Goto, LockDiscipline, InUseIsAllocated,
     Exclusive
<1>2. ASSUME NEW p \in Proc, NEW i \in Ino, AllocIno(p, i) PROVE InUseIsAllocated'
  BY <1>2, <1>t, <1>c, <1>i DEF AllocIno, Goto, LockDiscipline,
     InUseIsAllocated, Exclusive
<1>3. ASSUME NEW p \in Proc, NEW o \in {"look", "read"}, UseFile(p, o) PROVE InUseIsAllocated'
  BY <1>3, <1>t, <1>c, <1>i DEF UseFile, Goto, LockDiscipline, InUseIsAllocated,
     Exclusive
<1>4. ASSUME NEW p \in Proc, Close(p) PROVE InUseIsAllocated'
  BY <1>4, <1>t, <1>c, <1>i DEF Close, Goto, LockDiscipline, InUseIsAllocated,
     Exclusive
<1>5. ASSUME NEW p \in Proc, NEW q \in Proc, Fork(p, q) PROVE InUseIsAllocated'
  BY <1>5, <1>t, <1>c, <1>i DEF Fork, LockDiscipline, InUseIsAllocated,
     Exclusive
<1>6. ASSUME NEW p \in Proc, GiveUp(p) PROVE InUseIsAllocated'
  BY <1>6, <1>t, <1>c, <1>i DEF GiveUp, Goto, LockDiscipline, InUseIsAllocated,
     Exclusive
<1>7. ASSUME NEW p \in Proc, Lock(p) PROVE InUseIsAllocated'
  BY <1>7, <1>t, <1>c, <1>i DEF Lock, Goto, Read, Content, LockDiscipline,
     InUseIsAllocated, Exclusive
<1>8. ASSUME NEW p \in Proc, Use(p) PROVE InUseIsAllocated'
  BY <1>8, <1>t, <1>c, <1>i DEF Use, Goto, Unlock, LockDiscipline,
     InUseIsAllocated, Exclusive
<1>9. ASSUME NEW p \in Proc, Unlink(p) PROVE InUseIsAllocated'
  BY <1>9, <1>t, <1>c, <1>i DEF Unlink, Goto, Unlock, Update, LockDiscipline,
     InUseIsAllocated, Exclusive
<1>10. ASSUME NEW p \in Proc, AllocGet(p) PROVE InUseIsAllocated'
  BY <1>10, <1>t, <1>c, <1>i DEF AllocGet, Goto, LockDiscipline,
     InUseIsAllocated, Exclusive
<1>11. ASSUME NEW p \in Proc, CreateInit(p) PROVE InUseIsAllocated'
  BY <1>11, <1>t, <1>c, <1>i DEF CreateInit, Goto, Update, LockDiscipline,
     InUseIsAllocated, Exclusive
<1>12. ASSUME NEW p \in Proc, CreateLink(p) PROVE InUseIsAllocated'
  BY <1>12, <1>t, <1>c, <1>i DEF CreateLink, Goto, Update, Unlock,
     LockDiscipline, InUseIsAllocated, Exclusive
<1>13. ASSUME NEW p \in Proc, CreateFails(p) PROVE InUseIsAllocated'
  BY <1>13, <1>t, <1>c, <1>i DEF CreateFails, Goto, Unlock, LockDiscipline,
     InUseIsAllocated, Exclusive
<1>14. ASSUME NEW p \in Proc, LinkCheck(p) PROVE InUseIsAllocated'
  BY <1>14, <1>t, <1>c, <1>i DEF LinkCheck, Goto, Unlock, LockDiscipline,
     InUseIsAllocated, Exclusive
<1>15. ASSUME NEW p \in Proc, LinkEntry(p) PROVE InUseIsAllocated'
  BY <1>15, <1>t, <1>c, <1>i DEF LinkEntry, Goto, LockDiscipline,
     InUseIsAllocated, Exclusive
<1>16. ASSUME NEW p \in Proc, LinkFails(p) PROVE InUseIsAllocated'
  BY <1>16, <1>t, <1>c, <1>i DEF LinkFails, Goto, LockDiscipline,
     InUseIsAllocated, Exclusive
<1>17. ASSUME NEW p \in Proc, LinkCount(p) PROVE InUseIsAllocated'
  BY <1>17, <1>t, <1>c, <1>i DEF LinkCount, Goto, Update, Unlock,
     LockDiscipline, InUseIsAllocated, Exclusive
<1>18. ASSUME NEW p \in Proc, DropKeep(p) PROVE InUseIsAllocated'
  BY <1>18, <1>t, <1>c, <1>i DEF DropKeep, Goto, LockDiscipline,
     InUseIsAllocated, Exclusive
<1>19. ASSUME NEW p \in Proc, DropFree(p) PROVE InUseIsAllocated'
  BY <1>19, <1>t, <1>c, <1>i DEF DropFree, Goto, Read, Content, LockDiscipline,
     InUseIsAllocated, Exclusive
<1>20. ASSUME NEW p \in Proc, FreeIno(p) PROVE InUseIsAllocated'
  BY <1>20, <1>t, <1>c, <1>i DEF FreeIno, Goto, Unlock, LockDiscipline,
     InUseIsAllocated, Exclusive
<1>21. ASSUME NEW p \in Proc, Decrement(p) PROVE InUseIsAllocated'
  BY <1>21, <1>t, <1>c, <1>i DEF Decrement, Goto, LockDiscipline,
     InUseIsAllocated, Exclusive
<1> QED BY NextCases, <1>0, <1>1, <1>2, <1>3, <1>4, <1>5, <1>6, <1>7, <1>8,
  <1>9, <1>10, <1>11, <1>12, <1>13, <1>14, <1>15, <1>16, <1>17, <1>18, <1>19,
  <1>20, <1>21, Zenon

(* Nobody else can get a reference to an inode without entries and users.  *)
LEMMA ExclStep ==
  ASSUME InodeInv, [Next]_vars PROVE Exclusive'
<1> USE DEF vars, disk, data
<1>t. /\ tx \in [Proc -> Ino \cup {None}] /\ file \in [Proc -> Ino \cup {None}]
      /\ op \in [Proc -> Ops] /\ pc \in [Proc -> PC]
      /\ lk \in [Ino -> Proc \cup {None}] /\ dir \in Proc \cup {None}
      /\ used \subseteq Ino /\ valid \subseteq Ino
  BY Zenon DEF InodeInv, TypeOK
<1>c. None \notin Ino /\ None \notin Proc BY ConstAssumption, Zenon
<1>i. LockDiscipline /\ DirDiscipline /\ InUseIsAllocated /\ Exclusive /\ EntryDiscipline
  BY Zenon DEF InodeInv
<1>0. CASE UNCHANGED <<disk, links, data, lk, dir, file, tx, op, pc>>
  BY <1>0, <1>i, Zenon DEF Exclusive
<1>1. ASSUME NEW p \in Proc, NEW i \in Ino, NEW o \in {"look", "unlink", "link"}, Lookup(p, i, o) PROVE Exclusive'
  BY <1>1, <1>t, <1>c, <1>i DEF Lookup, Goto, LockDiscipline, DirDiscipline,
     InUseIsAllocated, Exclusive, EntryDiscipline
<1>2. ASSUME NEW p \in Proc, NEW i \in Ino, AllocIno(p, i) PROVE Exclusive'
  BY <1>2, <1>t, <1>c, <1>i DEF AllocIno, Goto, LockDiscipline, DirDiscipline,
     InUseIsAllocated, Exclusive, EntryDiscipline
<1>3. ASSUME NEW p \in Proc, NEW o \in {"look", "read"}, UseFile(p, o) PROVE Exclusive'
  BY <1>3, <1>t, <1>c, <1>i DEF UseFile, Goto, LockDiscipline, DirDiscipline,
     InUseIsAllocated, Exclusive, EntryDiscipline
<1>4. ASSUME NEW p \in Proc, Close(p) PROVE Exclusive'
  BY <1>4, <1>t, <1>c, <1>i DEF Close, Goto, LockDiscipline, DirDiscipline,
     InUseIsAllocated, Exclusive, EntryDiscipline
<1>5. ASSUME NEW p \in Proc, NEW q \in Proc, Fork(p, q) PROVE Exclusive'
  BY <1>5, <1>t, <1>c, <1>i DEF Fork, LockDiscipline, DirDiscipline,
     InUseIsAllocated, Exclusive, EntryDiscipline
<1>6. ASSUME NEW p \in Proc, GiveUp(p) PROVE Exclusive'
  BY <1>6, <1>t, <1>c, <1>i DEF GiveUp, Goto, LockDiscipline, DirDiscipline,
     InUseIsAllocated, Exclusive, EntryDiscipline
<1>7. ASSUME NEW p \in Proc, Lock(p) PROVE Exclusive'
  BY <1>7, <1>t, <1>c, <1>i DEF Lock, Goto, Read, Content, LockDiscipline,
     DirDiscipline, InUseIsAllocated, Exclusive, EntryDiscipline
<1>8. ASSUME NEW p \in Proc, Use(p) PROVE Exclusive'
  BY <1>8, <1>t, <1>c, <1>i DEF Use, Goto, Unlock, LockDiscipline,
     DirDiscipline, InUseIsAllocated, Exclusive, EntryDiscipline
<1>9. ASSUME NEW p \in Proc, Unlink(p) PROVE Exclusive'
  BY <1>9, <1>t, <1>c, <1>i DEF Unlink, Goto, Unlock, Update, LockDiscipline,
     DirDiscipline, InUseIsAllocated, Exclusive, EntryDiscipline
<1>10. ASSUME NEW p \in Proc, AllocGet(p) PROVE Exclusive'
  BY <1>10, <1>t, <1>c, <1>i DEF AllocGet, Goto, LockDiscipline, DirDiscipline,
     InUseIsAllocated, Exclusive, EntryDiscipline
<1>11. ASSUME NEW p \in Proc, CreateInit(p) PROVE Exclusive'
  BY <1>11, <1>t, <1>c, <1>i DEF CreateInit, Goto, Update, LockDiscipline,
     DirDiscipline, InUseIsAllocated, Exclusive, EntryDiscipline
<1>12. ASSUME NEW p \in Proc, CreateLink(p) PROVE Exclusive'
  BY <1>12, <1>t, <1>c, <1>i DEF CreateLink, Goto, Update, Unlock,
     LockDiscipline, DirDiscipline, InUseIsAllocated, Exclusive, EntryDiscipline
<1>13. ASSUME NEW p \in Proc, CreateFails(p) PROVE Exclusive'
  BY <1>13, <1>t, <1>c, <1>i DEF CreateFails, Goto, Unlock, LockDiscipline,
     DirDiscipline, InUseIsAllocated, Exclusive, EntryDiscipline
<1>14. ASSUME NEW p \in Proc, LinkCheck(p) PROVE Exclusive'
  BY <1>14, <1>t, <1>c, <1>i DEF LinkCheck, Goto, Unlock, LockDiscipline,
     DirDiscipline, InUseIsAllocated, Exclusive, EntryDiscipline
<1>15. ASSUME NEW p \in Proc, LinkEntry(p) PROVE Exclusive'
  BY <1>15, <1>t, <1>c, <1>i DEF LinkEntry, Goto, LockDiscipline, DirDiscipline,
     InUseIsAllocated, Exclusive, EntryDiscipline
<1>16. ASSUME NEW p \in Proc, LinkFails(p) PROVE Exclusive'
  BY <1>16, <1>t, <1>c, <1>i DEF LinkFails, Goto, LockDiscipline, DirDiscipline,
     InUseIsAllocated, Exclusive, EntryDiscipline
<1>17. ASSUME NEW p \in Proc, LinkCount(p) PROVE Exclusive'
  BY <1>17, <1>t, <1>c, <1>i DEF LinkCount, Goto, Update, Unlock,
     LockDiscipline, DirDiscipline, InUseIsAllocated, Exclusive, EntryDiscipline
<1>18. ASSUME NEW p \in Proc, DropKeep(p) PROVE Exclusive'
  BY <1>18, <1>t, <1>c, <1>i DEF DropKeep, Goto, LockDiscipline, DirDiscipline,
     InUseIsAllocated, Exclusive, EntryDiscipline
<1>19. ASSUME NEW p \in Proc, DropFree(p) PROVE Exclusive'
  <2>1. links[tx[p]] = 0 BY <1>19, LastUnlinked, Zenon DEF DropFree
  <2>2. /\ Last(p) /\ pc[p] = "drop" /\ pc' = [pc EXCEPT ![p] = "free"]
        /\ UNCHANGED <<links, file, tx>>
    BY <1>19, Zenon DEF DropFree, Goto
  <2> QED BY <1>t, <1>i, <2>1, <2>2 DEF Exclusive, Last, Holds, LockDiscipline
<1>20. ASSUME NEW p \in Proc, FreeIno(p) PROVE Exclusive'
  BY <1>20, <1>t, <1>c, <1>i DEF FreeIno, Goto, Unlock, LockDiscipline,
     DirDiscipline, InUseIsAllocated, Exclusive, EntryDiscipline
<1>21. ASSUME NEW p \in Proc, Decrement(p) PROVE Exclusive'
  BY <1>21, <1>t, <1>c, <1>i DEF Decrement, Goto, LockDiscipline, DirDiscipline,
     InUseIsAllocated, Exclusive, EntryDiscipline
<1> QED BY NextCases, <1>0, <1>1, <1>2, <1>3, <1>4, <1>5, <1>6, <1>7, <1>8,
  <1>9, <1>10, <1>11, <1>12, <1>13, <1>14, <1>15, <1>16, <1>17, <1>18, <1>19,
  <1>20, <1>21, Zenon

(* The copy follows the disk.                                              *)
LEMMA CopyStep ==
  ASSUME InodeInv, [Next]_vars PROVE CopyAgrees'
<1> USE DEF vars, disk, data
<1>t. /\ tx \in [Proc -> Ino \cup {None}] /\ file \in [Proc -> Ino \cup {None}]
      /\ op \in [Proc -> Ops] /\ pc \in [Proc -> PC]
      /\ lk \in [Ino -> Proc \cup {None}] /\ dir \in Proc \cup {None}
      /\ used \subseteq Ino /\ valid \subseteq Ino
  BY Zenon DEF InodeInv, TypeOK
<1>c. None \notin Ino /\ None \notin Proc BY ConstAssumption, Zenon
<1>i. LockDiscipline /\ InUseIsAllocated /\ CopyAgrees
  BY Zenon DEF InodeInv
<1>0. CASE UNCHANGED <<disk, links, data, lk, dir, file, tx, op, pc>>
  BY <1>0, <1>i DEF CopyAgrees, Live, Holds
<1>1. ASSUME NEW p \in Proc, NEW i \in Ino, NEW o \in {"look", "unlink", "link"}, Lookup(p, i, o) PROVE CopyAgrees'
  BY <1>1, <1>t, <1>c, <1>i DEF Lookup, Goto, LockDiscipline, InUseIsAllocated,
     CopyAgrees, Live, Holds
<1>2. ASSUME NEW p \in Proc, NEW i \in Ino, AllocIno(p, i) PROVE CopyAgrees'
  BY <1>2, <1>t, <1>c, <1>i DEF AllocIno, Goto, LockDiscipline,
     InUseIsAllocated, CopyAgrees, Live, Holds
<1>3. ASSUME NEW p \in Proc, NEW o \in {"look", "read"}, UseFile(p, o) PROVE CopyAgrees'
  BY <1>3, <1>t, <1>c, <1>i DEF UseFile, Goto, LockDiscipline, InUseIsAllocated,
     CopyAgrees, Live, Holds
<1>4. ASSUME NEW p \in Proc, Close(p) PROVE CopyAgrees'
  BY <1>4, <1>t, <1>c, <1>i DEF Close, Goto, LockDiscipline, InUseIsAllocated,
     CopyAgrees, Live, Holds
<1>5. ASSUME NEW p \in Proc, NEW q \in Proc, Fork(p, q) PROVE CopyAgrees'
  BY <1>5, <1>t, <1>c, <1>i DEF Fork, LockDiscipline, InUseIsAllocated,
     CopyAgrees, Live, Holds
<1>6. ASSUME NEW p \in Proc, GiveUp(p) PROVE CopyAgrees'
  BY <1>6, <1>t, <1>c, <1>i DEF GiveUp, Goto, LockDiscipline, InUseIsAllocated,
     CopyAgrees, Live, Holds
<1>7. ASSUME NEW p \in Proc, Lock(p) PROVE CopyAgrees'
  <2>1. tx[p] \in Ino BY <1>7, Working, Zenon DEF Lock
  <2>2. /\ \A j \in valid' : copy'[j] = nlink'[j]
        /\ valid' = valid \cup {tx[p]}
    BY <1>7, <2>1, ReadAgrees, Zenon DEF Lock, disk
  <2>3. UNCHANGED <<file, tx, used>> /\ pc' = [pc EXCEPT ![p] = "locked"] /\ pc[p] = "lock"
    BY <1>7, Zenon DEF Lock, Goto, disk
  <2>4. tx[p] \in used /\ Holds(p, tx[p])
    BY <1>i, <2>1, <2>3, Zenon DEF InUseIsAllocated, Holds
  <2>5. \A j \in valid' : j \in Ino /\ j \in used' /\ Live(j)
    BY <1>t, <1>i, <2>1, <2>2, <2>3, <2>4, Zenon DEF CopyAgrees, Live
  <2>6. \A j \in valid' : Live(j)'
    BY <1>t, <2>3, <2>5, StillLive, Zenon
  <2> QED BY <2>2, <2>5, <2>6, Zenon DEF CopyAgrees
<1>8. ASSUME NEW p \in Proc, Use(p) PROVE CopyAgrees'
  BY <1>8, <1>t, <1>c, <1>i DEF Use, Goto, Unlock, LockDiscipline,
     InUseIsAllocated, CopyAgrees, Live, Holds
<1>9. ASSUME NEW p \in Proc, Unlink(p) PROVE CopyAgrees'
  <2>1. tx[p] \in Ino BY <1>9, Working, Zenon DEF Unlink
  <2>2. copy[tx[p]] - 1 \in Nat
    <3>1. copy \in [Ino -> Nat] BY Zenon DEF InodeInv, TypeOK
    <3> QED BY <1>9, <2>1, <3>1 DEF Unlink
  <2>3. Update(tx[p], copy[tx[p]] - 1) /\ UNCHANGED <<file, tx>> /\ pc' = [pc EXCEPT ![p] = "drop"]
    BY <1>9, Zenon DEF Unlink, Goto
  <2>4. /\ \A j \in valid' : copy'[j] = nlink'[j]
        /\ valid' = valid /\ used' = used
    BY <2>1, <2>2, <2>3, UpdateAgrees, Zenon
  <2>5. \A j \in valid' : j \in Ino /\ j \in used' /\ Live(j)
    BY <1>t, <1>i, <2>4, Zenon DEF CopyAgrees
  <2>6. \A j \in valid' : Live(j)'
    BY <1>t, <2>3, <2>5, StillLive, Zenon
  <2> QED BY <2>4, <2>5, <2>6, Zenon DEF CopyAgrees
<1>10. ASSUME NEW p \in Proc, AllocGet(p) PROVE CopyAgrees'
  BY <1>10, <1>t, <1>c, <1>i DEF AllocGet, Goto, LockDiscipline,
     InUseIsAllocated, CopyAgrees, Live, Holds
<1>11. ASSUME NEW p \in Proc, CreateInit(p) PROVE CopyAgrees'
  <2>1. tx[p] \in Ino BY <1>11, Working, Zenon DEF CreateInit
  <2>2. 0 \in Nat
    BY Zenon
  <2>3. Update(tx[p], 0) /\ UNCHANGED <<file, tx>> /\ pc' = [pc EXCEPT ![p] = "dirent"]
    BY <1>11, Zenon DEF CreateInit, Goto
  <2>4. /\ \A j \in valid' : copy'[j] = nlink'[j]
        /\ valid' = valid /\ used' = used
    BY <2>1, <2>2, <2>3, UpdateAgrees, Zenon
  <2>5. \A j \in valid' : j \in Ino /\ j \in used' /\ Live(j)
    BY <1>t, <1>i, <2>4, Zenon DEF CopyAgrees
  <2>6. \A j \in valid' : Live(j)'
    BY <1>t, <2>3, <2>5, StillLive, Zenon
  <2> QED BY <2>4, <2>5, <2>6, Zenon DEF CopyAgrees
<1>12. ASSUME NEW p \in Proc, CreateLink(p) PROVE CopyAgrees'
  <2>1. tx[p] \in Ino BY <1>12, Working, Zenon DEF CreateLink
  <2>2. 1 \in Nat
    BY Zenon
  <2>3. Update(tx[p], 1) /\ UNCHANGED <<file, tx>> /\ pc' = [pc EXCEPT ![p] = "lock"]
    BY <1>12, Zenon DEF CreateLink, Goto
  <2>4. /\ \A j \in valid' : copy'[j] = nlink'[j]
        /\ valid' = valid /\ used' = used
    BY <2>1, <2>2, <2>3, UpdateAgrees, Zenon
  <2>5. \A j \in valid' : j \in Ino /\ j \in used' /\ Live(j)
    BY <1>t, <1>i, <2>4, Zenon DEF CopyAgrees
  <2>6. \A j \in valid' : Live(j)'
    BY <1>t, <2>3, <2>5, StillLive, Zenon
  <2> QED BY <2>4, <2>5, <2>6, Zenon DEF CopyAgrees
<1>13. ASSUME NEW p \in Proc, CreateFails(p) PROVE CopyAgrees'
  BY <1>13, <1>t, <1>c, <1>i DEF CreateFails, Goto, Unlock, LockDiscipline,
     InUseIsAllocated, CopyAgrees, Live, Holds
<1>14. ASSUME NEW p \in Proc, LinkCheck(p) PROVE CopyAgrees'
  BY <1>14, <1>t, <1>c, <1>i DEF LinkCheck, Goto, Unlock, LockDiscipline,
     InUseIsAllocated, CopyAgrees, Live, Holds
<1>15. ASSUME NEW p \in Proc, LinkEntry(p) PROVE CopyAgrees'
  BY <1>15, <1>t, <1>c, <1>i DEF LinkEntry, Goto, LockDiscipline,
     InUseIsAllocated, CopyAgrees, Live, Holds
<1>16. ASSUME NEW p \in Proc, LinkFails(p) PROVE CopyAgrees'
  BY <1>16, <1>t, <1>c, <1>i DEF LinkFails, Goto, LockDiscipline,
     InUseIsAllocated, CopyAgrees, Live, Holds
<1>17. ASSUME NEW p \in Proc, LinkCount(p) PROVE CopyAgrees'
  <2>1. tx[p] \in Ino BY <1>17, Working, Zenon DEF LinkCount
  <2>2. copy[tx[p]] + 1 \in Nat
    <3>1. copy \in [Ino -> Nat] BY Zenon DEF InodeInv, TypeOK
    <3> QED BY <1>17, <2>1, <3>1 DEF LinkCount
  <2>3. Update(tx[p], copy[tx[p]] + 1) /\ UNCHANGED <<file, tx>> /\ pc' = [pc EXCEPT ![p] = "drop"]
    BY <1>17, Zenon DEF LinkCount, Goto
  <2>4. /\ \A j \in valid' : copy'[j] = nlink'[j]
        /\ valid' = valid /\ used' = used
    BY <2>1, <2>2, <2>3, UpdateAgrees, Zenon
  <2>5. \A j \in valid' : j \in Ino /\ j \in used' /\ Live(j)
    BY <1>t, <1>i, <2>4, Zenon DEF CopyAgrees
  <2>6. \A j \in valid' : Live(j)'
    BY <1>t, <2>3, <2>5, StillLive, Zenon
  <2> QED BY <2>4, <2>5, <2>6, Zenon DEF CopyAgrees
<1>18. ASSUME NEW p \in Proc, DropKeep(p) PROVE CopyAgrees'
  BY <1>18, <1>t, <1>c, <1>i DEF DropKeep, Goto, LockDiscipline,
     InUseIsAllocated, CopyAgrees, Live, Holds
<1>19. ASSUME NEW p \in Proc, DropFree(p) PROVE CopyAgrees'
  <2>1. tx[p] \in Ino BY <1>19, Working, Zenon DEF DropFree
  <2>2. /\ \A j \in valid' : copy'[j] = nlink'[j]
        /\ valid' = valid \cup {tx[p]}
    BY <1>19, <2>1, ReadAgrees, Zenon DEF DropFree, disk
  <2>3. UNCHANGED <<file, tx, used>> /\ pc' = [pc EXCEPT ![p] = "free"] /\ pc[p] = "drop"
    BY <1>19, Zenon DEF DropFree, Goto, disk
  <2>4. tx[p] \in used /\ Holds(p, tx[p])
    BY <1>i, <2>1, <2>3, Zenon DEF InUseIsAllocated, Holds
  <2>5. \A j \in valid' : j \in Ino /\ j \in used' /\ Live(j)
    BY <1>t, <1>i, <2>1, <2>2, <2>3, <2>4, Zenon DEF CopyAgrees, Live
  <2>6. \A j \in valid' : Live(j)'
    BY <1>t, <2>3, <2>5, StillLive, Zenon
  <2> QED BY <2>2, <2>5, <2>6, Zenon DEF CopyAgrees
<1>20. ASSUME NEW p \in Proc, FreeIno(p) PROVE CopyAgrees'
  BY <1>20, <1>t, <1>c, <1>i DEF FreeIno, Goto, Unlock, LockDiscipline,
     InUseIsAllocated, CopyAgrees, Live, Holds
<1>21. ASSUME NEW p \in Proc, Decrement(p) PROVE CopyAgrees'
  <2>1. PICK i \in Ino : i = tx[p] BY <1>21, Working, Zenon DEF Decrement
  <2>2. /\ tx' = [tx EXCEPT ![p] = None] /\ pc' = [pc EXCEPT ![p] = "idle"]
        /\ UNCHANGED <<file, lk, used, nlink>> /\ pc[p] = "decrement"
    BY <1>21, Zenon DEF Decrement, Goto
  <2>3. copy \in [Ino -> Nat] BY Zenon DEF InodeInv, TypeOK
  <2>4. /\ \A j \in valid' : j \in valid /\ copy'[j] = copy[j]
        /\ Last(p) => i \notin valid'
    BY <1>21, <1>t, <2>1, <2>3 DEF Decrement
  <2>5. \A j \in Ino, q \in Proc : Holds(q, j) /\ (q # p \/ j # i) => Holds(q, j)'
    BY <1>t, <2>1, <2>2, Zenon DEF Holds
  <2>6. lk[i] # p BY <1>i, <2>1, <2>2, Zenon DEF LockDiscipline
  <2>7. file[p] = i => Holds(p, i)' BY <2>2, Zenon DEF Holds
  <2>8. ~ Last(p) => Live(i)'
    BY <2>1, <2>5, <2>6, <2>7, Zenon DEF Last, Live
  <2>9. \A j \in valid' : Live(j)'
    <3>1. SUFFICES ASSUME NEW j \in valid' PROVE Live(j)' BY Zenon
    <3>2. CASE j = i BY <2>4, <2>8, <3>1, <3>2, Zenon
    <3>3. CASE j # i BY <1>t, <1>i, <2>4, <2>5, <3>1, <3>3, Zenon DEF CopyAgrees, Live
    <3> QED BY <3>2, <3>3, Zenon
  <2>10. \A j \in valid' : copy'[j] = nlink'[j] /\ j \in used'
    BY <1>i, <2>2, <2>4, Zenon DEF CopyAgrees
  <2> QED BY <2>9, <2>10, Zenon DEF CopyAgrees
<1> QED BY NextCases, <1>0, <1>1, <1>2, <1>3, <1>4, <1>5, <1>6, <1>7, <1>8,
  <1>9, <1>10, <1>11, <1>12, <1>13, <1>14, <1>15, <1>16, <1>17, <1>18, <1>19,
  <1>20, <1>21, Zenon

(* Entries come and go under the lock of the directory.                    *)
LEMMA EntryStep ==
  ASSUME InodeInv, [Next]_vars PROVE EntryDiscipline'
<1> USE DEF vars, disk, data
<1>t. /\ tx \in [Proc -> Ino \cup {None}] /\ file \in [Proc -> Ino \cup {None}]
      /\ op \in [Proc -> Ops] /\ pc \in [Proc -> PC]
      /\ lk \in [Ino -> Proc \cup {None}] /\ dir \in Proc \cup {None}
      /\ used \subseteq Ino /\ valid \subseteq Ino
  BY Zenon DEF InodeInv, TypeOK
<1>c. None \notin Ino /\ None \notin Proc BY ConstAssumption, Zenon
<1>i. LockDiscipline /\ DirDiscipline /\ EntryDiscipline /\ InUseIsAllocated
  BY Zenon DEF InodeInv
<1>0. CASE UNCHANGED <<disk, links, data, lk, dir, file, tx, op, pc>>
  BY <1>0, <1>i, Zenon DEF EntryDiscipline
<1>1. ASSUME NEW p \in Proc, NEW i \in Ino, NEW o \in {"look", "unlink", "link"}, Lookup(p, i, o) PROVE EntryDiscipline'
  <2>1. /\ UNCHANGED links /\ links[i] > 0 /\ tx' = [tx EXCEPT ![p] = i]
        /\ op' = [op EXCEPT ![p] = o] /\ pc' = [pc EXCEPT ![p] = "lock"]
    BY <1>1, Zenon DEF Lookup, Goto
  <2>2. tx'[p] = i /\ op'[p] # "create" BY <1>t, <2>1, Zenon
  <2>3. \A q \in Proc \ {p} : pc'[q] = pc[q] /\ op'[q] = op[q] /\ tx'[q] = tx[q]
    BY <1>t, <2>1, Zenon
  <2> QED BY <1>i, <2>1, <2>2, <2>3 DEF EntryDiscipline
<1>2. ASSUME NEW p \in Proc, NEW i \in Ino, AllocIno(p, i) PROVE EntryDiscipline'
  BY <1>2, <1>t, <1>c, <1>i DEF AllocIno, Goto, LockDiscipline, DirDiscipline,
     EntryDiscipline, InUseIsAllocated
<1>3. ASSUME NEW p \in Proc, NEW o \in {"look", "read"}, UseFile(p, o) PROVE EntryDiscipline'
  BY <1>3, <1>t, <1>c, <1>i DEF UseFile, Goto, LockDiscipline, DirDiscipline,
     EntryDiscipline, InUseIsAllocated
<1>4. ASSUME NEW p \in Proc, Close(p) PROVE EntryDiscipline'
  BY <1>4, <1>t, <1>c, <1>i DEF Close, Goto, LockDiscipline, DirDiscipline,
     EntryDiscipline, InUseIsAllocated
<1>5. ASSUME NEW p \in Proc, NEW q \in Proc, Fork(p, q) PROVE EntryDiscipline'
  BY <1>5, <1>t, <1>c, <1>i, Zenon DEF Fork, LockDiscipline, DirDiscipline,
     EntryDiscipline, InUseIsAllocated
<1>6. ASSUME NEW p \in Proc, GiveUp(p) PROVE EntryDiscipline'
  BY <1>6, <1>t, <1>c, <1>i DEF GiveUp, Goto, LockDiscipline, DirDiscipline,
     EntryDiscipline, InUseIsAllocated
<1>7. ASSUME NEW p \in Proc, Lock(p) PROVE EntryDiscipline'
  BY <1>7, <1>t, <1>c, <1>i DEF Lock, Goto, Read, Content, LockDiscipline,
     DirDiscipline, EntryDiscipline, InUseIsAllocated
<1>8. ASSUME NEW p \in Proc, Use(p) PROVE EntryDiscipline'
  BY <1>8, <1>t, <1>c, <1>i DEF Use, Goto, Unlock, LockDiscipline,
     DirDiscipline, EntryDiscipline, InUseIsAllocated
<1>9. ASSUME NEW p \in Proc, Unlink(p) PROVE EntryDiscipline'
  <2>1. /\ pc[p] = "locked" /\ op[p] = "unlink" /\ UNCHANGED <<tx, op>>
        /\ pc' = [pc EXCEPT ![p] = "drop"]
    BY <1>9, Zenon DEF Unlink, Goto
  <2>2. dir = p BY <1>i, <2>1, Zenon DEF DirDiscipline
  <2>3. pc'[p] = "drop" /\ \A q \in Proc \ {p} : pc'[q] = pc[q] BY <1>t, <2>1, Zenon
  <2>4. \A q \in Proc \ {p} : /\ op[q] # "create"
                              /\ op[q] = "unlink" => pc[q] \notin {"lock", "locked"}
    BY <1>i, <2>2, Zenon DEF DirDiscipline
  <2> QED BY <2>1, <2>3, <2>4, Zenon DEF EntryDiscipline
<1>10. ASSUME NEW p \in Proc, AllocGet(p) PROVE EntryDiscipline'
  BY <1>10, <1>t, <1>c, <1>i DEF AllocGet, Goto, LockDiscipline, DirDiscipline,
     EntryDiscipline, InUseIsAllocated
<1>11. ASSUME NEW p \in Proc, CreateInit(p) PROVE EntryDiscipline'
  BY <1>11, <1>t, <1>c, <1>i DEF CreateInit, Goto, Update, LockDiscipline,
     DirDiscipline, EntryDiscipline, InUseIsAllocated
<1>12. ASSUME NEW p \in Proc, CreateLink(p) PROVE EntryDiscipline'
  BY <1>12, <1>t, <1>c, <1>i DEF CreateLink, Goto, Update, Unlock,
     LockDiscipline, DirDiscipline, EntryDiscipline, InUseIsAllocated
<1>13. ASSUME NEW p \in Proc, CreateFails(p) PROVE EntryDiscipline'
  BY <1>13, <1>t, <1>c, <1>i DEF CreateFails, Goto, Unlock, LockDiscipline,
     DirDiscipline, EntryDiscipline, InUseIsAllocated
<1>14. ASSUME NEW p \in Proc, LinkCheck(p) PROVE EntryDiscipline'
  BY <1>14, <1>t, <1>c, <1>i DEF LinkCheck, Goto, Unlock, LockDiscipline,
     DirDiscipline, EntryDiscipline, InUseIsAllocated
<1>15. ASSUME NEW p \in Proc, LinkEntry(p) PROVE EntryDiscipline'
  BY <1>15, <1>t, <1>c, <1>i DEF LinkEntry, Goto, LockDiscipline, DirDiscipline,
     EntryDiscipline, InUseIsAllocated
<1>16. ASSUME NEW p \in Proc, LinkFails(p) PROVE EntryDiscipline'
  BY <1>16, <1>t, <1>c, <1>i DEF LinkFails, Goto, LockDiscipline, DirDiscipline,
     EntryDiscipline, InUseIsAllocated
<1>17. ASSUME NEW p \in Proc, LinkCount(p) PROVE EntryDiscipline'
  BY <1>17, <1>t, <1>c, <1>i DEF LinkCount, Goto, Update, Unlock,
     LockDiscipline, DirDiscipline, EntryDiscipline, InUseIsAllocated
<1>18. ASSUME NEW p \in Proc, DropKeep(p) PROVE EntryDiscipline'
  BY <1>18, <1>t, <1>c, <1>i DEF DropKeep, Goto, LockDiscipline, DirDiscipline,
     EntryDiscipline, InUseIsAllocated
<1>19. ASSUME NEW p \in Proc, DropFree(p) PROVE EntryDiscipline'
  BY <1>19, <1>t, <1>c, <1>i DEF DropFree, Goto, Read, Content, LockDiscipline,
     DirDiscipline, EntryDiscipline, InUseIsAllocated
<1>20. ASSUME NEW p \in Proc, FreeIno(p) PROVE EntryDiscipline'
  BY <1>20, <1>t, <1>c, <1>i DEF FreeIno, Goto, Unlock, LockDiscipline,
     DirDiscipline, EntryDiscipline, InUseIsAllocated
<1>21. ASSUME NEW p \in Proc, Decrement(p) PROVE EntryDiscipline'
  BY <1>21, <1>t, <1>c, <1>i DEF Decrement, Goto, LockDiscipline, DirDiscipline,
     EntryDiscipline, InUseIsAllocated
<1> QED BY NextCases, <1>0, <1>1, <1>2, <1>3, <1>4, <1>5, <1>6, <1>7, <1>8,
  <1>9, <1>10, <1>11, <1>12, <1>13, <1>14, <1>15, <1>16, <1>17, <1>18, <1>19,
  <1>20, <1>21, Zenon

(* Nothing is counted anew where entries, counts and link's second half    *)
(* stay: p neither has nor gets an entry that is not counted.              *)
LEMMA CountFrame ==
  ASSUME InodeInv, UNCHANGED <<links, nlink>>,
         \/ UNCHANGED <<dir, tx, op>>
         \/ \E p \in Proc :
              /\ dir = p => op[p] # "linked"
              /\ op'[p] # "linked"
              /\ \A q \in Proc \ {p} : op'[q] = op[q] /\ tx'[q] = tx[q] /\ (dir' = q <=> dir = q)
  PROVE LinksCounted'
<1>1. \A j \in Ino : Linking(j)' <=> Linking(j) BY Zenon DEF Linking
<1>2. \A j \in Ino : links[j] = nlink[j] + (IF Linking(j) THEN 1 ELSE 0)
  BY Zenon DEF InodeInv, LinksCounted
<1> QED BY <1>1, <1>2, Zenon DEF LinksCounted

(* An inode without entries has link count 0.                              *)
LEMMA NoEntryNoCount ==
  ASSUME InodeInv, NEW i \in Ino, links[i] = 0 PROVE nlink[i] = 0
<1>0. TypeOK BY Zenon DEF InodeInv
<1>1. nlink[i] \in Nat BY <1>0, Zenon DEF TypeOK
<1>2. links[i] = nlink[i] + (IF Linking(i) THEN 1 ELSE 0) BY Zenon DEF InodeInv, LinksCounted
<1> QED BY <1>1, <1>2

(* The link count: four steps change entries or counts.                    *)
LEMMA CountStep ==
  ASSUME InodeInv, [Next]_vars PROVE LinksCounted'
<1> USE DEF disk, data
<1>a. TypeOK BY Zenon DEF InodeInv
<1>t. /\ tx \in [Proc -> Ino \cup {None}] /\ op \in [Proc -> Ops] /\ pc \in [Proc -> PC]
      /\ dir \in Proc \cup {None}
  BY <1>a, Zenon DEF TypeOK
<1>n. nlink \in [Ino -> Nat] /\ links \in [Ino -> Nat] /\ copy \in [Ino -> Nat]
  BY <1>a, Zenon DEF TypeOK
<1>c. None \notin Ino /\ None \notin Proc BY ConstAssumption, Zenon
<1>d. DirDiscipline /\ EntryDiscipline BY Zenon DEF InodeInv
<1>l. \A j \in Ino : links[j] = nlink[j] + (IF Linking(j) THEN 1 ELSE 0)
  BY Zenon DEF InodeInv, LinksCounted
<1>0. CASE UNCHANGED <<disk, links, data, lk, dir, file, tx, op, pc>>
  BY <1>0, CountFrame, Zenon
<1>1. ASSUME NEW p \in Proc,
             \/ \E q \in Proc : Fork(p, q)
             \/ GiveUp(p) \/ Lock(p) \/ Use(p) \/ AllocGet(p) \/ CreateFails(p) \/ LinkCheck(p)
             \/ LinkFails(p) \/ DropKeep(p) \/ DropFree(p) \/ FreeIno(p)
      PROVE LinksCounted'
  <2>1. UNCHANGED <<links, nlink, dir, tx, op>>
    BY <1>1, Zenon DEF Fork, GiveUp, Lock, Use, AllocGet, CreateFails, LinkCheck, LinkFails, DropKeep,
       DropFree, FreeIno
  <2> QED BY <2>1, CountFrame, Zenon
<1>2. ASSUME NEW p \in Proc, NEW i \in Ino, NEW o \in {"look", "unlink", "link"}, Lookup(p, i, o)
      PROVE LinksCounted'
  <2>1. /\ UNCHANGED <<links, nlink>> /\ dir = None /\ dir' \in {None, p}
        /\ op' = [op EXCEPT ![p] = o] /\ tx' = [tx EXCEPT ![p] = i]
    BY <1>2, Zenon DEF Lookup
  <2>2. op'[p] # "linked" /\ \A q \in Proc \ {p} : op'[q] = op[q] /\ tx'[q] = tx[q]
    BY <1>t, <2>1, Zenon
  <2> QED BY <1>c, <2>1, <2>2, CountFrame
<1>3. ASSUME NEW p \in Proc, NEW o \in {"look", "read"}, UseFile(p, o) \/ Close(p)
      PROVE LinksCounted'
  <2>1. /\ UNCHANGED <<links, nlink, dir>> /\ pc[p] = "idle" /\ tx' = [tx EXCEPT ![p] = file[p]]
        /\ op' = [op EXCEPT ![p] = o] \/ op' = [op EXCEPT ![p] = "look"]
    BY <1>3, Zenon DEF UseFile, Close
  <2>2. op'[p] # "linked" /\ \A q \in Proc \ {p} : op'[q] = op[q] /\ tx'[q] = tx[q]
    BY <1>t, <2>1, Zenon
  <2>3. op[p] # "linked" BY <1>d, <2>1, Zenon DEF DirDiscipline
  <2> QED BY <2>1, <2>2, <2>3, CountFrame, Zenon
<1>4. ASSUME NEW p \in Proc, NEW i \in Ino, AllocIno(p, i) PROVE LinksCounted'
  <2>1. /\ UNCHANGED links /\ i \notin used /\ nlink' = [nlink EXCEPT ![i] = 0]
        /\ dir = None /\ dir' = p
        /\ op' = [op EXCEPT ![p] = "create"] /\ tx' = [tx EXCEPT ![p] = i]
    BY <1>4, Zenon DEF AllocIno
  <2>2. op'[p] # "linked" /\ \A q \in Proc \ {p} : op'[q] = op[q] /\ tx'[q] = tx[q]
    BY <1>t, <2>1, Zenon
  <2>3. links[i] = 0 BY <2>1, Zenon DEF InodeInv, InUseIsAllocated
  <2>4. nlink' = nlink BY <1>n, <2>1, <2>3, NoEntryNoCount, Zenon
  <2> QED BY <1>c, <2>1, <2>2, <2>4, CountFrame, Zenon
<1>5. ASSUME NEW p \in Proc, CreateInit(p) PROVE LinksCounted'
  <2>1. tx[p] \in Ino BY <1>5, Working, Zenon DEF CreateInit
  <2>2. UNCHANGED <<links, dir, tx, op>> /\ nlink' = [nlink EXCEPT ![tx[p]] = 0]
    BY <1>5, Zenon DEF CreateInit, Update
  <2>3. links[tx[p]] = 0 BY <1>5, <1>d, Zenon DEF CreateInit, EntryDiscipline
  <2>4. nlink' = nlink BY <1>n, <2>1, <2>2, <2>3, NoEntryNoCount, Zenon
  <2> QED BY <2>2, <2>4, CountFrame, Zenon
<1>6. ASSUME NEW p \in Proc, Decrement(p) PROVE LinksCounted'
  <2>1. /\ UNCHANGED <<links, nlink>> /\ pc[p] = "decrement"
        /\ dir' = IF dir = p THEN None ELSE dir
        /\ op' = [op EXCEPT ![p] = "look"] /\ tx' = [tx EXCEPT ![p] = None]
    BY <1>6, Zenon DEF Decrement
  <2>2. op'[p] # "linked" /\ \A q \in Proc \ {p} : op'[q] = op[q] /\ tx'[q] = tx[q]
    BY <1>t, <2>1, Zenon
  <2>3. dir = p => op[p] # "linked" BY <1>d, <2>1, Zenon DEF DirDiscipline
  <2> QED BY <1>c, <2>1, <2>2, <2>3, CountFrame
<1>7. ASSUME NEW p \in Proc, Unlink(p) \/ CreateLink(p) PROVE LinksCounted'
  <2>1. tx[p] \in Ino BY <1>7, Working, Zenon DEF Unlink, CreateLink
  <2>2. dir = p /\ op[p] # "linked"
    BY <1>7, <1>d, Zenon DEF Unlink, CreateLink, DirDiscipline
  <2>3. \A j \in Ino : ~ Linking(j) BY <2>2, Zenon DEF Linking
  <2>4. dir' = None BY <1>7, Zenon DEF Unlink, CreateLink
  <2>5. \A j \in Ino : ~ Linking(j)' BY <1>c, <2>4, Zenon DEF Linking
  <2>6. \A j \in Ino : links[j] = nlink[j] BY <1>l, <1>n, <2>3
  <2>7. \E n \in Nat : /\ links' = [links EXCEPT ![tx[p]] = n]
                       /\ nlink' = [nlink EXCEPT ![tx[p]] = n]
    <3>1. CASE Unlink(p)
      <4>1. pc[p] = "locked" /\ copy[tx[p]] > 0 BY <3>1, Zenon DEF Unlink
      <4>2. copy[tx[p]] = nlink[tx[p]] BY <2>1, <4>1, Locked, ContentOnDisk, Zenon DEF Content
      <4>3. /\ links' = [links EXCEPT ![tx[p]] = links[tx[p]] - 1]
            /\ nlink' = [nlink EXCEPT ![tx[p]] = copy[tx[p]] - 1]
        BY <3>1, Zenon DEF Unlink, Update
      <4>4. links[tx[p]] - 1 = copy[tx[p]] - 1 /\ copy[tx[p]] - 1 \in Nat
        BY <1>n, <2>1, <2>6, <4>1, <4>2
      <4> QED BY <4>3, <4>4, Zenon
    <3>2. CASE CreateLink(p)
      <4>1. links[tx[p]] = 0 BY <1>d, <3>2, Zenon DEF CreateLink, EntryDiscipline
      <4>2. /\ links' = [links EXCEPT ![tx[p]] = links[tx[p]] + 1]
            /\ nlink' = [nlink EXCEPT ![tx[p]] = 1]
        BY <3>2, Zenon DEF CreateLink, Update
      <4>3. links[tx[p]] + 1 = 1 BY <4>1
      <4> QED BY <4>2, <4>3, Zenon
    <3> QED BY <1>7, <3>1, <3>2, Zenon
  <2>8. \A j \in Ino : links'[j] = nlink'[j] /\ nlink'[j] \in Nat BY <1>n, <2>1, <2>6, <2>7
  <2> QED BY <2>5, <2>8 DEF LinksCounted
<1>8. ASSUME NEW p \in Proc, LinkEntry(p) PROVE LinksCounted'
  <2>1. tx[p] \in Ino BY <1>8, Working, Zenon DEF LinkEntry
  <2>2. \A j \in Ino : ~ Linking(j) BY <1>8, <1>c, Zenon DEF LinkEntry, Linking
  <2>3. \A j \in Ino : links[j] = nlink[j] BY <1>l, <1>n, <2>2
  <2>4. /\ links' = [links EXCEPT ![tx[p]] = links[tx[p]] + 1] /\ UNCHANGED <<nlink, tx>>
        /\ dir' = p /\ op' = [op EXCEPT ![p] = "linked"]
    BY <1>8, Zenon DEF LinkEntry
  <2>5. \A j \in Ino : Linking(j)' <=> j = tx[p] BY <1>t, <2>4, Zenon DEF Linking
  <2>6. ASSUME NEW j \in Ino PROVE links'[j] = nlink'[j] + (IF Linking(j)' THEN 1 ELSE 0)
    <3>1. CASE j = tx[p]
      <4>1. links'[j] = links[j] + 1 BY <1>n, <2>4, <3>1, Zenon
      <4> QED BY <2>3, <2>4, <2>5, <3>1, <4>1, Zenon
    <3>2. CASE j # tx[p]
      <4>1. links'[j] = links[j] /\ nlink[j] \in Nat BY <1>n, <2>4, <3>2, Zenon
      <4> QED BY <2>3, <2>4, <2>5, <3>2, <4>1
    <3> QED BY <3>1, <3>2, Zenon
  <2> QED BY <2>6, Zenon DEF LinksCounted
<1>9. ASSUME NEW p \in Proc, LinkCount(p) PROVE LinksCounted'
  <2>1. tx[p] \in Ino BY <1>9, Working, Zenon DEF LinkCount
  <2>2. pc[p] = "locked" /\ op[p] = "linked" /\ dir' = None BY <1>9, Zenon DEF LinkCount
  <2>3. dir = p BY <1>d, <2>2, Zenon DEF DirDiscipline
  <2>4. \A j \in Ino : Linking(j) <=> j = tx[p] BY <2>2, <2>3, Zenon DEF Linking
  <2>5. \A j \in Ino : ~ Linking(j)' BY <1>c, <2>2, Zenon DEF Linking
  <2>6. copy[tx[p]] = nlink[tx[p]] BY <2>1, <2>2, Locked, ContentOnDisk, Zenon DEF Content
  <2>7. links' = links /\ nlink' = [nlink EXCEPT ![tx[p]] = copy[tx[p]] + 1]
    BY <1>9, Zenon DEF LinkCount, Update
  <2>8. ASSUME NEW j \in Ino PROVE links'[j] = nlink'[j] /\ nlink'[j] \in Nat
    <3>1. CASE j = tx[p]
      <4>1. nlink'[j] = nlink[j] + 1 BY <1>n, <2>6, <2>7, <3>1, Zenon
      <4> QED BY <1>l, <1>n, <2>4, <2>7, <3>1, <4>1
    <3>2. CASE j # tx[p]
      <4>1. nlink'[j] = nlink[j] BY <1>n, <2>7, <3>2, Zenon
      <4> QED BY <1>l, <1>n, <2>4, <2>7, <3>2, <4>1
    <3> QED BY <3>1, <3>2, Zenon
  <2> QED BY <2>5, <2>8 DEF LinksCounted
<1> QED BY NextCases, <1>0, <1>1, <1>2, <1>3, <1>4, <1>5, <1>6, <1>7, <1>8, <1>9, Zenon

(* The assertions are kept by a step of p that leaves the others, and the  *)
(* copies they have locked, alone.                                         *)
LEMMA AssertFrame ==
  ASSUME InodeInv, NEW p \in Proc,
         \A q \in Proc \ {p} :
           /\ pc'[q] = pc[q] /\ op'[q] = op[q] /\ tx'[q] = tx[q] /\ file'[q] = file[q]
           /\ pc[q] = "locked" => copy'[tx[q]] = copy[tx[q]],
         pc'[p] = "locked" /\ op'[p] = "unlink" => copy'[tx'[p]] > 0,
         op'[p] = "read" => file'[p] = tx'[p]
  PROVE AssertionsHold'
<1>1. AssertionsHold BY Zenon DEF InodeInv
<1>2. SUFFICES ASSUME NEW q \in Proc
               PROVE /\ pc'[q] = "locked" /\ op'[q] = "unlink" => copy'[tx'[q]] > 0
                     /\ op'[q] = "read" => file'[q] = tx'[q]
  BY Zenon DEF AssertionsHold
<1>3. CASE q = p BY <1>3, Zenon
<1>4. CASE q # p BY <1>1, <1>4 DEF AssertionsHold
<1> QED BY <1>3, <1>4, Zenon

(* Two processes never have the same inode locked.                         *)
LEMMA OtherInode ==
  ASSUME InodeInv, NEW p \in Proc, NEW q \in Proc \ {p}, pc[q] = "locked",
         tx[p] \in Ino, lk[tx[p]] \in {p, None}
  PROVE tx[q] \in Ino /\ tx[q] # tx[p]
<1>1. tx[q] \in Ino BY Working, Zenon
<1>2. lk[tx[q]] = q BY <1>1, Zenon DEF InodeInv, LockDiscipline
<1> QED BY <1>1, <1>2, ConstAssumption, Zenon

(* Who works on an inode under its lock has the lock.                      *)
LEMMA Owner ==
  ASSUME InodeInv, NEW p \in Proc,
         pc[p] \in {"locked", "free"} \/ (pc[p] = "dirent" /\ op[p] = "create")
  PROVE tx[p] \in Ino /\ lk[tx[p]] = p
<1>1. tx[p] \in Ino BY Working, Zenon
<1> QED BY <1>1, Zenon DEF InodeInv, LockDiscipline

(* What Lock reads is the count of a link that unlink has found.           *)
LEMMA AssertStep ==
  ASSUME InodeInv, [Next]_vars PROVE AssertionsHold'
<1> USE DEF disk, data
<1>a. TypeOK BY Zenon DEF InodeInv
<1>t. /\ tx \in [Proc -> Ino \cup {None}] /\ file \in [Proc -> Ino \cup {None}]
      /\ op \in [Proc -> Ops] /\ pc \in [Proc -> PC]
  BY <1>a, Zenon DEF TypeOK
<1>n. nlink \in [Ino -> Nat] /\ links \in [Ino -> Nat] /\ copy \in [Ino -> Nat]
  BY <1>a, Zenon DEF TypeOK
<1>c. None \notin Ino /\ None \notin Proc BY ConstAssumption, Zenon
<1>i. DirDiscipline /\ EntryDiscipline /\ AssertionsHold BY Zenon DEF InodeInv
<1>0. CASE UNCHANGED <<disk, links, data, lk, dir, file, tx, op, pc>>
  BY <1>0, <1>i, Zenon DEF AssertionsHold
<1>1. ASSUME NEW p \in Proc, NEW i \in Ino, NEW o \in {"look", "unlink", "link"},
             Lookup(p, i, o) \/ AllocIno(p, i)
      PROVE AssertionsHold'
  <2>1. /\ UNCHANGED <<copy, file>> /\ tx' = [tx EXCEPT ![p] = i]
        /\ \E m \in {"look", "unlink", "link", "create"} : op' = [op EXCEPT ![p] = m]
        /\ \E l \in {"lock", "alloc"} : pc' = [pc EXCEPT ![p] = l]
    BY <1>1, Zenon DEF Lookup, AllocIno, Goto
  <2>2. pc'[p] # "locked" /\ op'[p] # "read" BY <1>t, <2>1, Zenon
  <2>3. \A q \in Proc \ {p} : pc'[q] = pc[q] /\ op'[q] = op[q] /\ tx'[q] = tx[q]
    BY <1>t, <2>1, Zenon
  <2> QED BY <2>1, <2>2, <2>3, AssertFrame
<1>2. ASSUME NEW p \in Proc, NEW o \in {"look", "read"}, UseFile(p, o) PROVE AssertionsHold'
  <2>1. /\ UNCHANGED <<copy, file>> /\ tx' = [tx EXCEPT ![p] = file[p]]
        /\ op' = [op EXCEPT ![p] = o] /\ pc' = [pc EXCEPT ![p] = "lock"]
    BY <1>2, Zenon DEF UseFile, Goto
  <2>2. pc'[p] # "locked" /\ file'[p] = tx'[p] BY <1>t, <2>1, Zenon
  <2>3. \A q \in Proc \ {p} : pc'[q] = pc[q] /\ op'[q] = op[q] /\ tx'[q] = tx[q]
    BY <1>t, <2>1, Zenon
  <2> QED BY <2>1, <2>2, <2>3, AssertFrame, Zenon
<1>3. ASSUME NEW p \in Proc, Close(p) PROVE AssertionsHold'
  <2>1. /\ UNCHANGED copy /\ tx' = [tx EXCEPT ![p] = file[p]] /\ file' = [file EXCEPT ![p] = None]
        /\ op' = [op EXCEPT ![p] = "look"] /\ pc' = [pc EXCEPT ![p] = "drop"]
    BY <1>3, Zenon DEF Close, Goto
  <2>2. pc'[p] # "locked" /\ op'[p] # "read" BY <1>t, <2>1, Zenon
  <2>3. \A q \in Proc \ {p} : /\ pc'[q] = pc[q] /\ op'[q] = op[q] /\ tx'[q] = tx[q]
                              /\ file'[q] = file[q]
    BY <1>t, <2>1, Zenon
  <2> QED BY <2>1, <2>2, <2>3, AssertFrame, Zenon
<1>4. ASSUME NEW p \in Proc, NEW q \in Proc, Fork(p, q) PROVE AssertionsHold'
  <2>1. /\ UNCHANGED <<copy, tx, op, pc>> /\ file' = [file EXCEPT ![q] = file[p]]
        /\ pc[q] = "idle"
    BY <1>4, Zenon DEF Fork
  <2>2. op[q] = "look" BY <1>i, <2>1, Zenon DEF DirDiscipline
  <2>3. \A r \in Proc \ {q} : file'[r] = file[r] BY <1>t, <2>1, Zenon
  <2> QED BY <2>1, <2>2, <2>3, AssertFrame, Zenon
<1>5. ASSUME NEW p \in Proc, Lock(p) PROVE AssertionsHold'
  <2>1. tx[p] \in Ino BY <1>5, Working, Zenon DEF Lock
  <2>2. /\ UNCHANGED <<file, tx, op>> /\ pc' = [pc EXCEPT ![p] = "locked"] /\ pc[p] = "lock"
        /\ copy' = [copy EXCEPT ![tx[p]] = nlink[tx[p]]] /\ lk[tx[p]] = None
    BY <1>5, <2>1, ContentOnDisk, Zenon DEF Lock, Goto, Read
  <2>3. ASSUME op[p] = "unlink" PROVE nlink[tx[p]] > 0
    <3>1. ~ Linking(tx[p]) BY <1>i, <2>2, <2>3, Zenon DEF Linking, DirDiscipline
    <3>2. links[tx[p]] > 0 BY <1>i, <2>2, <2>3, Zenon DEF EntryDiscipline
    <3>3. LinksCounted BY Zenon DEF InodeInv
    <3> QED BY <1>n, <2>1, <3>1, <3>2, <3>3 DEF LinksCounted
  <2>4. copy'[tx[p]] = nlink[tx[p]] /\ \A i \in Ino : i # tx[p] => copy'[i] = copy[i]
    BY <1>n, <2>1, <2>2, Zenon
  <2>5. \A q \in Proc \ {p} : pc'[q] = pc[q] BY <1>t, <2>2, Zenon
  <2>6. \A q \in Proc \ {p} : pc[q] = "locked" => copy'[tx[q]] = copy[tx[q]]
    BY <2>1, <2>2, <2>4, OtherInode, Zenon
  <2>7. op[p] = "read" => file[p] = tx[p] BY <1>i, Zenon DEF AssertionsHold
  <2> QED BY <2>2, <2>3, <2>4, <2>5, <2>6, <2>7, AssertFrame
<1>6. ASSUME NEW p \in Proc, Use(p) PROVE AssertionsHold'
  <2>1. /\ UNCHANGED <<copy, tx, op>> /\ pc' = [pc EXCEPT ![p] = "drop"]
        /\ file' = file \/ (op[p] = "look" /\ file' = [file EXCEPT ![p] = tx[p]])
    BY <1>6, Zenon DEF Use, Goto
  <2>2. pc'[p] # "locked" BY <1>t, <2>1, Zenon
  <2>3. \A q \in Proc \ {p} : pc'[q] = pc[q] /\ file'[q] = file[q] BY <1>t, <2>1, Zenon
  <2>4. op[p] = "read" => file'[p] = tx[p] BY <1>i, <2>1 DEF AssertionsHold
  <2> QED BY <2>1, <2>2, <2>3, <2>4, AssertFrame, Zenon
<1>7. ASSUME NEW p \in Proc, Unlink(p) \/ CreateInit(p) \/ CreateLink(p) \/ LinkCount(p) \/ FreeIno(p)
      PROVE AssertionsHold'
  <2>1. pc[p] \in {"locked", "free"} \/ (pc[p] = "dirent" /\ op[p] = "create")
    BY <1>7, Zenon DEF Unlink, CreateInit, CreateLink, LinkCount, FreeIno
  <2>2. tx[p] \in Ino /\ lk[tx[p]] = p BY <2>1, Owner, Zenon
  <2>3. /\ UNCHANGED <<file, tx>>
        /\ \E n : copy' = [copy EXCEPT ![tx[p]] = n]
        /\ op' = op \/ op' = [op EXCEPT ![p] = "look"]
        /\ \E l \in {"lock", "drop", "dirent", "decrement"} : pc' = [pc EXCEPT ![p] = l]
    BY <1>7, Zenon DEF Unlink, CreateInit, CreateLink, LinkCount, FreeIno, Update, Goto
  <2>4. pc'[p] # "locked" /\ (op'[p] = "read" => op[p] = "read") BY <1>t, <2>3, Zenon
  <2>5. \A q \in Proc \ {p} : pc'[q] = pc[q] /\ op'[q] = op[q] BY <1>t, <2>3, Zenon
  <2>6. \A i \in Ino : i # tx[p] => copy'[i] = copy[i] BY <1>n, <2>3, Zenon
  <2>7. \A q \in Proc \ {p} : pc[q] = "locked" => copy'[tx[q]] = copy[tx[q]]
    BY <2>2, <2>6, OtherInode, Zenon
  <2>8. op[p] = "read" => file[p] = tx[p] BY <1>i, Zenon DEF AssertionsHold
  <2> QED BY <2>3, <2>4, <2>5, <2>7, <2>8, AssertFrame
<1>8. ASSUME NEW p \in Proc,
             \/ GiveUp(p) \/ AllocGet(p) \/ CreateFails(p) \/ LinkCheck(p) \/ LinkEntry(p)
             \/ LinkFails(p) \/ DropKeep(p)
      PROVE AssertionsHold'
  <2>1. /\ UNCHANGED <<copy, file, tx>>
        /\ op' = op \/ op' = [op EXCEPT ![p] = "linked"]
        /\ \E l \in {"lock", "drop", "dirent", "decrement"} : pc' = [pc EXCEPT ![p] = l]
    BY <1>8, Zenon DEF GiveUp, AllocGet, CreateFails, LinkCheck, LinkEntry, LinkFails, DropKeep, Goto
  <2>2. pc'[p] # "locked" /\ (op'[p] = "read" => op[p] = "read") BY <1>t, <2>1, Zenon
  <2>3. \A q \in Proc \ {p} : pc'[q] = pc[q] /\ op'[q] = op[q] BY <1>t, <2>1, Zenon
  <2>4. op[p] = "read" => file[p] = tx[p] BY <1>i, Zenon DEF AssertionsHold
  <2> QED BY <2>1, <2>2, <2>3, <2>4, AssertFrame, Zenon
<1>9. ASSUME NEW p \in Proc, DropFree(p) \/ Decrement(p) PROVE AssertionsHold'
  <2>1. tx[p] \in Ino BY <1>9, Working, Zenon DEF DropFree, Decrement
  <2>2. /\ UNCHANGED file
        /\ copy' = copy \/ (Last(p) /\ \E n : copy' = [copy EXCEPT ![tx[p]] = n])
        /\ (op' = op /\ tx' = tx) \/ (op' = [op EXCEPT ![p] = "look"] /\ tx' = [tx EXCEPT ![p] = None])
        /\ \E l \in {"idle", "free"} : pc' = [pc EXCEPT ![p] = l]
    BY <1>9, Zenon DEF DropFree, Decrement, Read, Goto
  <2>3. pc'[p] # "locked" BY <1>t, <2>2, Zenon
  <2>4. op'[p] = "read" => op[p] = "read" /\ tx'[p] = tx[p] BY <1>t, <2>2, Zenon
  <2>5. \A q \in Proc \ {p} : pc'[q] = pc[q] /\ op'[q] = op[q] /\ tx'[q] = tx[q] BY <1>t, <2>2, Zenon
  <2>6. ASSUME NEW q \in Proc \ {p}, pc[q] = "locked" PROVE copy'[tx[q]] = copy[tx[q]]
    <3>1. tx[q] \in Ino BY <2>6, Working, Zenon
    <3>2. CASE copy' = copy BY <3>2, Zenon
    <3>3. CASE Last(p) /\ \E n : copy' = [copy EXCEPT ![tx[p]] = n]
      <4>1. tx[q] # tx[p] BY <2>6, <3>3, Zenon DEF Last, Holds
      <4> QED BY <1>n, <3>1, <3>3, <4>1, Zenon
    <3> QED BY <2>2, <3>2, <3>3, Zenon
  <2>7. op[p] = "read" => file[p] = tx[p] BY <1>i, Zenon DEF AssertionsHold
  <2> QED BY <2>2, <2>3, <2>4, <2>5, <2>6, <2>7, AssertFrame
<1> QED BY NextCases, <1>0, <1>1, <1>2, <1>3, <1>4, <1>5, <1>6, <1>7, <1>8, <1>9, Zenon

(* The inode table keeps its invariant: copies agree with the disk, link   *)
(* counts with the entries, and what is in use is allocated.               *)
THEOREM InodeInvariant == Spec => []InodeInv
<1>1. InodeInv /\ [Next]_vars => InodeInv'
  BY TypeStep, LockStep, DirStep, AllocStep, ExclStep, CopyStep, EntryStep,
     CountStep, AssertStep, Zenon DEF InodeInv
<1> QED BY <1>1, InitInv, PTL DEF Spec

(* TxInode::drop frees an inode only when it has no entries, no file and   *)
(* no user but the one that drops it.                                      *)
THEOREM InodeFreedWhenUnused == Spec => FreedWhenUnused
<1> DEFINE P == \A i \in used \ used' :
                  /\ links[i] = 0
                  /\ \A p \in Proc : file[p] # i
                  /\ \E p \in Proc : \A q \in Proc \ {p} : ~ Holds(q, i)
<1>1. ASSUME InodeInv, [Next]_vars PROVE P
  <2> USE DEF vars, disk, data
  <2>1. CASE used \subseteq used' BY <2>1, Zenon
  <2>2. ASSUME NEW p \in Proc, FreeIno(p) PROVE P
    <3>1. pc[p] = "free" /\ used \ used' \subseteq {tx[p]} BY <2>2, Zenon DEF FreeIno
    <3>2. tx[p] \in Ino BY <1>1, <3>1, Working, Zenon
    <3>3. LockDiscipline /\ Exclusive /\ lk \in [Ino -> Proc \cup {None}]
      BY <1>1, Zenon DEF InodeInv, TypeOK
    <3>4. lk[tx[p]] = p BY <3>1, <3>2, <3>3, Zenon DEF LockDiscipline
    <3>5. /\ links[tx[p]] = 0 /\ \A q \in Proc : file[q] # tx[p]
          /\ \A q \in Proc \ {p} : tx[q] # tx[p]
      BY <3>1, <3>3, Zenon DEF Exclusive
    <3>6. \A q \in Proc \ {p} : ~ Holds(q, tx[p]) BY <3>4, <3>5, Zenon DEF Holds
    <3> QED BY <3>1, <3>5, <3>6
  <2>3. used \subseteq used' \/ \E p \in Proc : FreeIno(p)
    BY <1>1, NextCases, Zenon DEF Lookup, UseFile, Close, Fork, GiveUp, Lock, Use, Unlink, Update,
       AllocIno, AllocGet, CreateInit, CreateLink, CreateFails, LinkCheck, LinkEntry,
       LinkFails, LinkCount, DropKeep, DropFree, Decrement
  <2> QED BY <2>1, <2>2, <2>3, Zenon
<1>2. InodeInv /\ [Next]_vars => [P]_vars BY <1>1, Zenon
<1> QED BY <1>2, InodeInvariant, PTL DEF Spec, FreedWhenUnused
=============================================================================
