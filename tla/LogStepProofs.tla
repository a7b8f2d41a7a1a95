--------------------------- MODULE LogStepProofs ---------------------------
(***************************************************************************)
(* The steps of Log, one lemma per part of its invariants and one step per *)
(* action: the types, the locks, the phases of commit, the agreement of    *)
(* cache and disk, what is still to be installed, and the refinement of    *)
(* AtomicDisk.  Whatever counts (outstanding, the space in the log) is in  *)
(* LogProofs, with the theorems.                                           *)
(***************************************************************************)
EXTENDS Log, TLAPS

USE ConstAssumption DEF HeaderSlot, BodySlot, Header, Headers, PC, Phase

(* What the file system reads is data.                                     *)
LEMMA MemoryType == TypeOK => Memory \in [Home -> Data]
BY DEF TypeOK, Memory

(* Variables keep their types; write_log_body reads inside the header.     *)
LEMMA TypeStep == ASSUME TypeOK, HeaderPhases, Next PROVE TypeOK'
<1> USE DEF TypeOK
<1>m. Memory \in [Home -> Data]
  BY MemoryType
<1>1. ASSUME NEW b \in Home, ReadOnlyRead(b) \/ Evict(b) PROVE TypeOK'
  BY <1>1 DEF ReadOnlyRead, Evict, diskVars, logVars, opVars, haltVars
<1>2. ASSUME NEW p \in Proc, Begin(p) PROVE TypeOK'
  BY <1>2 DEF Begin, diskVars, cacheVars, haltVars
<1>3. ASSUME NEW p \in Proc, BeginWait(p) PROVE TypeOK'
  BY <1>3 DEF BeginWait, diskVars, cacheVars, logVars, opVars, haltVars
<1>4. ASSUME NEW p \in Proc, ForceBeginWait(p) PROVE TypeOK'
  BY <1>4 DEF ForceBeginWait, diskVars, cacheVars, logVars, opVars, haltVars
<1>5. ASSUME NEW p \in Proc, KillWaiter(p) PROVE TypeOK'
  BY <1>5 DEF KillWaiter, diskVars, cacheVars, logVars, opVars, haltVars
<1>6. ASSUME NEW p \in Proc, EndOp(p) PROVE TypeOK'
  BY <1>6 DEF EndOp, Notified, diskVars, cacheVars, opVars, haltVars
<1>7. ASSUME NEW p \in Proc, EndOpCommit(p) PROVE TypeOK'
  BY <1>7 DEF EndOpCommit, diskVars, cacheVars, opVars, haltVars
<1>8. ASSUME NEW p \in Proc, NEW b \in Home, LockBlock(p, b) PROVE TypeOK'
  BY <1>8, <1>m, Zenon DEF LockBlock, diskVars, logVars, haltVars
<1>9. ASSUME NEW p \in Proc, NEW b \in Home, ReleaseBlock(p, b) PROVE TypeOK'
  <2>1. header' \in Seq(Home) /\ held' \in [Proc -> SUBSET Home]
    BY <1>9 DEF ReleaseBlock
  <2> QED
    BY <1>9, <2>1 DEF ReleaseBlock, diskVars, cacheVars, haltVars
<1>10. ASSUME NEW p \in Proc, NEW b \in Home, ReleasePanic(p, b) PROVE TypeOK'
  BY <1>10 DEF ReleasePanic, diskVars, cacheVars, logVars, opVars
<1>11. ASSUME NEW p \in Proc, NEW b \in Home, NEW v \in Data, UpdateBlock(p, b, v) PROVE TypeOK'
  BY <1>11 DEF UpdateBlock, diskVars, logVars, haltVars
<1>12. CASE WriteLogBody
  <2>1. header[idx + 1] \in Home
    BY <1>12 DEF WriteLogBody, HeaderPhases
  <2>2. logArea' \in [0..MaxLogLen-1 -> Data \cup Headers]
    BY <1>12, <1>m, <2>1, Zenon DEF WriteLogBody
  <2> QED
    BY <1>12, <2>2 DEF WriteLogBody, cacheVars, opVars, haltVars
<1>13. CASE WriteLogHead
  <2>1. logArea' \in [0..MaxLogLen-1 -> Data \cup Headers]
    BY <1>13 DEF WriteLogHead
  <2> QED
    BY <1>13, <2>1 DEF WriteLogHead, cacheVars, opVars, haltVars
<1>14. CASE Install
  <2>1. Head(header) \in Home /\ Tail(header) \in Seq(Home)
    BY <1>14 DEF Install
  <2>2. dirty' \subseteq Home /\ cache' \in [Home -> Data \cup {NoData}]
    BY <1>14, <1>m, <2>1, Zenon DEF Install
  <2>3. disk' \in [Home -> Data]
    BY <1>14, <1>m, <2>1, Zenon DEF Install
  <2> QED
    BY <1>14, <2>1, <2>2, <2>3 DEF Install, opVars, haltVars
<1>15. CASE EraseLogHead
  <2>1. logArea' \in [0..MaxLogLen-1 -> Data \cup Headers]
    BY <1>15 DEF EraseLogHead
  <2> QED
    BY <1>15, <2>1 DEF EraseLogHead, cacheVars, opVars, haltVars
<1>16. CASE FinishCommit
  BY <1>16 DEF FinishCommit, Notified, diskVars, cacheVars, opVars, haltVars
<1>17. CASE ReadLogHead
  <2>1. header' \in Seq(Home)
    <3>1. logArea[HeaderSlot] \in Data \cup Headers
      OBVIOUS
    <3>2. CASE logArea[HeaderSlot] \in Data
      <4>1. <<>> \in Seq(Home) /\ \A b \in Home : <<b>> \in Seq(Home)
        OBVIOUS
      <4>2. header' = <<>> \/ \E b \in Home : header' = <<b>>
        BY <1>17, <3>2 DEF ReadLogHead, ReadAsHeader
      <4> QED
        BY <4>1, <4>2, Zenon
    <3>3. CASE logArea[HeaderSlot] \notin Data
      <4>1. logArea[HeaderSlot].blocks \in Seq(Home)
        BY <3>1, <3>3
      <4> QED
        BY <1>17, <3>3, <4>1 DEF ReadLogHead, ReadAsHeader
    <3> QED
      BY <3>2, <3>3
  <2> QED
    BY <1>17, <2>1 DEF ReadLogHead, diskVars, cacheVars, opVars, haltVars
<1>18. CASE ReadLogHeadPanic
  BY <1>18 DEF ReadLogHeadPanic, diskVars, cacheVars, logVars, opVars
<1>19. CASE Crash
  <2>1. /\ crashes' \in 0..MaxCrash
        /\ disk' \in [Home -> Data]
        /\ logArea' \in [0..MaxLogLen-1 -> Data \cup Headers]
    BY <1>19 DEF Crash, diskVars
  <2>2. /\ cache' \in [Home -> Data \cup {NoData}]
        /\ dirty' \subseteq Home
        /\ header' \in Seq(Home)
        /\ phase' \in Phase
        /\ idx' \in Nat
        /\ outstanding' \in Nat
    BY <1>19 DEF Crash
  <2>3. /\ pc' \in [Proc -> PC]
        /\ held' \in [Proc -> SUBSET Home]
        /\ wrote' \in [Proc -> SUBSET Home]
        /\ halted' \in BOOLEAN
    BY <1>19, Zenon DEF Crash
  <2> QED
    BY <2>1, <2>2, <2>3
<1>20. CASE Halted
  BY <1>20 DEF Halted, vars, diskVars, cacheVars, logVars, opVars, haltVars
<1> QED
  BY <1>1, <1>2, <1>3, <1>4, <1>5, <1>6, <1>7, <1>8, <1>9, <1>10, <1>11, <1>12, <1>13, <1>14,
     <1>15, <1>16, <1>17, <1>18, <1>19, <1>20, Zenon
  DEF Next, Running, OpStep, CacheStep, CommitStep, BootStep

(* The processes with an open transaction.                                 *)
ActiveSet == {p \in Proc : Active(p)}

(* SpinLockCondVar::notify neither opens nor closes a transaction.         *)
LEMMA NotifiedActive ==
  ASSUME NEW f \in [Proc -> PC], NEW p \in Proc
  PROVE  Notified(f)[p] = "active" <=> f[p] = "active"
BY DEF Notified

(* LogHeader::push of a new block adds that block only.                    *)
LEMMA EntriesAppend ==
  ASSUME NEW s \in Seq(Home), NEW b \in Home
  PROVE  Entries(Append(s, b)) = Entries(s) \cup {b} /\ Len(Append(s, b)) = Len(s) + 1
<1> DEFINE t == Append(s, b)
<1>1. t \in Seq(Home) /\ DOMAIN t = 1..Len(s)+1 /\ DOMAIN s = 1..Len(s)
  OBVIOUS
<1>2. \A i \in DOMAIN t : t[i] = IF i = Len(s) + 1 THEN b ELSE s[i]
  OBVIOUS
<1>3. Entries(t) \subseteq Entries(s) \cup {b}
  BY <1>1, <1>2 DEF Entries
<1>4. Entries(s) \cup {b} \subseteq Entries(t)
  BY <1>1, <1>2 DEF Entries
<1> QED
  BY <1>3, <1>4

(* Draining the first entry of the header loses that entry only.           *)
LEMMA EntriesTail ==
  ASSUME NEW s \in Seq(Home), s # <<>>
  PROVE  Entries(s) \subseteq Entries(Tail(s)) \cup {Head(s)}
<1> SUFFICES ASSUME NEW i \in DOMAIN s, s[i] # Head(s) PROVE s[i] \in Entries(Tail(s))
  BY DEF Entries
<1>1. i \in 2..Len(s)
  OBVIOUS
<1>2. i - 1 \in DOMAIN Tail(s) /\ Tail(s)[i-1] = s[i]
  BY <1>1
<1> QED
  BY <1>2 DEF Entries

(* Only install_transaction writes home blocks.                            *)
LEMMA OnlyInstallWrites == ASSUME Next PROVE Install \/ disk' = disk
BY ZenonT(40) DEF Next, Running, CommitStep, BootStep, CacheStep, OpStep, ReadOnlyRead, Evict, Begin,
   BeginWait, ForceBeginWait, KillWaiter, LockBlock, UpdateBlock, ReleaseBlock, ReleasePanic,
   EndOp, EndOpCommit, WriteLogBody, WriteLogHead, EraseLogHead, FinishCommit, Crash,
   ReadLogHead, ReadLogHeadPanic, Halted, vars, diskVars

(* What it changes is the block of a dirty buffer that the header names.   *)
LEMMA InstallWrites ==
  ASSUME TypeOK, CleanMatchesDisk, Install, NEW b \in Home, disk'[b] # disk[b]
  PROVE  b \in dirty /\ b \in Entries(header)
<1>1. disk \in [Home -> Data] /\ header \in Seq(Home)
  BY DEF TypeOK
<1>2. disk' = [disk EXCEPT ![Head(header)] = Memory[Head(header)]] /\ header # <<>>
  BY DEF Install
<1>3. b = Head(header) /\ Memory[b] # disk[b]
  BY <1>1, <1>2
<1>4. b \in dirty
  BY <1>3 DEF Memory, CleanMatchesDisk
<1>5. b \in Entries(header)
  BY <1>1, <1>2, <1>3 DEF Entries
<1> QED BY <1>4, <1>5

(* Buffers are held by one open transaction each, and a dirty buffer is    *)
(* held or pinned by the header, across every step.                        *)
LEMMA LockStep == ASSUME TypeOK, CommitExcludesOps, LockDiscipline, HeaderPhases, Next PROVE LockDiscipline'
<1> USE DEF TypeOK
<1>1. ASSUME NEW b \in Home, ReadOnlyRead(b) \/ Evict(b) PROVE LockDiscipline'
  BY <1>1 DEF LockDiscipline, Active, ReadOnlyRead, Evict, logVars, opVars
<1>2. ASSUME NEW p \in Proc, Begin(p) PROVE LockDiscipline'
  BY <1>2 DEF LockDiscipline, Active, Begin, cacheVars
<1>3. ASSUME NEW p \in Proc, BeginWait(p) \/ ForceBeginWait(p) \/ KillWaiter(p) PROVE LockDiscipline'
  BY <1>3 DEF LockDiscipline, Active, BeginWait, ForceBeginWait, KillWaiter, cacheVars, logVars, opVars
<1>4. ASSUME NEW p \in Proc, EndOp(p) PROVE LockDiscipline'
  <2> DEFINE f == [pc EXCEPT ![p] = "idle"]
  <2>0. f \in [Proc -> PC] /\ pc' = Notified(f)
    BY <1>4 DEF EndOp
  <2>1. \A q \in Proc : pc'[q] = "active" <=> f[q] = "active"
    BY <2>0, NotifiedActive, Zenon
  <2> QED
    BY <1>4, <2>1, Zenon DEF LockDiscipline, Active, EndOp, cacheVars, opVars
<1>5. ASSUME NEW p \in Proc, EndOpCommit(p) PROVE LockDiscipline'
  BY <1>5 DEF LockDiscipline, Active, EndOpCommit, cacheVars, opVars
<1>6. ASSUME NEW p \in Proc, NEW b \in Home, LockBlock(p, b) PROVE LockDiscipline'
  BY <1>6 DEF LockDiscipline, Active, Locked, LockBlock, logVars
<1>7. ASSUME NEW p \in Proc, NEW b \in Home, ReleaseBlock(p, b) PROVE LockDiscipline'
  <2>1. Entries(header) \subseteq Entries(header') /\ (b \in dirty => b \in Entries(header'))
    BY <1>7, EntriesAppend DEF ReleaseBlock
  <2>2. \A q \in Proc : held'[q] = IF q = p THEN held[q] \ {b} ELSE held[q]
    BY <1>7, Zenon DEF ReleaseBlock
  <2> QED
    BY <1>7, <2>1, <2>2 DEF LockDiscipline, Active, ReleaseBlock, cacheVars
<1>8. ASSUME NEW p \in Proc, NEW b \in Home, ReleasePanic(p, b) PROVE LockDiscipline'
  BY <1>8 DEF LockDiscipline, Active, ReleasePanic, cacheVars, logVars, opVars
<1>9. ASSUME NEW p \in Proc, NEW b \in Home, NEW v \in Data, UpdateBlock(p, b, v) PROVE LockDiscipline'
  BY <1>9 DEF LockDiscipline, Active, UpdateBlock, logVars
<1>10. CASE WriteLogBody \/ WriteLogHead \/ EraseLogHead
  BY <1>10 DEF LockDiscipline, Active, WriteLogBody, WriteLogHead, EraseLogHead, cacheVars, opVars
<1>11. CASE Install
  <2>1. Entries(header) \subseteq Entries(header') \cup {Head(header)}
    BY <1>11, EntriesTail DEF Install
  <2> QED
    BY <1>11, <2>1 DEF LockDiscipline, Active, Install, opVars
<1>12. CASE FinishCommit
  <2>1. \A q \in Proc : held[q] = {}
    BY <1>12 DEF FinishCommit, CommitExcludesOps, LockDiscipline
  <2> QED
    BY <1>12, <2>1 DEF LockDiscipline, FinishCommit, cacheVars, opVars
<1>13. CASE BootStep
  BY <1>13 DEF LockDiscipline, HeaderPhases, Active, BootStep, ReadLogHead, ReadLogHeadPanic,
     cacheVars, logVars, opVars
<1>14. CASE Crash
  BY <1>14 DEF LockDiscipline, Crash
<1>15. CASE Halted
  BY <1>15 DEF LockDiscipline, Active, Halted, vars, cacheVars, logVars, opVars
<1> QED
  BY <1>1, <1>2, <1>3, <1>4, <1>5, <1>6, <1>7, <1>8, <1>9, <1>10, <1>11, <1>12, <1>13, <1>14, <1>15
  DEF Next, Running, OpStep, CacheStep, CommitStep

(* The header is empty when recovery starts and when commit ends.          *)
LEMMA PhasesStep == ASSUME TypeOK, CommitExcludesOps, HeaderPhases, Next PROVE HeaderPhases'
<1> USE DEF TypeOK, HeaderPhases
<1>1. ASSUME NEW b \in Home, ReadOnlyRead(b) \/ Evict(b) PROVE HeaderPhases'
  BY <1>1 DEF ReadOnlyRead, Evict, logVars
<1>2. ASSUME NEW p \in Proc, Begin(p) \/ BeginWait(p) \/ ForceBeginWait(p) \/ KillWaiter(p) \/ EndOp(p)
      PROVE HeaderPhases'
  BY <1>2 DEF Begin, BeginWait, ForceBeginWait, KillWaiter, EndOp, cacheVars, logVars
<1>3. ASSUME NEW p \in Proc, EndOpCommit(p) PROVE HeaderPhases'
  BY <1>3 DEF EndOpCommit, cacheVars
<1>4. ASSUME NEW p \in Proc, NEW b \in Home, LockBlock(p, b) \/ ReleasePanic(p, b) PROVE HeaderPhases'
  BY <1>4 DEF LockBlock, ReleasePanic, cacheVars, logVars
<1>5. ASSUME NEW p \in Proc, NEW b \in Home, ReleaseBlock(p, b) PROVE HeaderPhases'
  <2>1. phase = "open"
    BY <1>5 DEF ReleaseBlock, CommitExcludesOps
  <2> QED
    BY <1>5, <2>1 DEF ReleaseBlock
<1>6. ASSUME NEW p \in Proc, NEW b \in Home, NEW v \in Data, UpdateBlock(p, b, v) PROVE HeaderPhases'
  <2>1. phase = "open"
    BY <1>6 DEF UpdateBlock, CommitExcludesOps
  <2> QED
    BY <1>6, <2>1 DEF UpdateBlock, logVars
<1>7. CASE WriteLogBody
  BY <1>7 DEF WriteLogBody, cacheVars
<1>8. CASE WriteLogHead \/ Install \/ EraseLogHead \/ FinishCommit
  BY <1>8, Zenon DEF WriteLogHead, Install, EraseLogHead, FinishCommit, cacheVars
<1>9. CASE BootStep \/ Crash
  BY <1>9 DEF BootStep, ReadLogHead, ReadLogHeadPanic, Crash, cacheVars, logVars
<1>10. CASE Halted
  BY <1>10 DEF Halted, vars, cacheVars, logVars
<1> QED
  BY <1>1, <1>2, <1>3, <1>4, <1>5, <1>6, <1>7, <1>8, <1>9, <1>10
  DEF Next, Running, OpStep, CacheStep, CommitStep

(* A clean buffer agrees with the disk across every step.                  *)
LEMMA CleanStep == ASSUME TypeOK, CleanMatchesDisk, HeaderPhases, Next PROVE CleanMatchesDisk'
<1> USE DEF TypeOK, CleanMatchesDisk
<1>m. \A b \in Home : Memory[b] = IF cache[b] = NoData THEN disk[b] ELSE cache[b]
  BY DEF Memory
<1>1. ASSUME NEW b \in Home, ReadOnlyRead(b) \/ Evict(b) PROVE CleanMatchesDisk'
  BY <1>1 DEF ReadOnlyRead, Evict, diskVars
<1>2. CASE disk' = disk /\ cache' = cache /\ dirty' = dirty
  BY <1>2
<1>3. ASSUME NEW p \in Proc, NEW b \in Home, LockBlock(p, b) PROVE CleanMatchesDisk'
  BY <1>3, <1>m DEF LockBlock, diskVars
<1>4. ASSUME NEW p \in Proc, NEW b \in Home, NEW v \in Data, UpdateBlock(p, b, v) PROVE CleanMatchesDisk'
  BY <1>4 DEF UpdateBlock, diskVars
<1>5. CASE Install
  <2>1. Head(header) \in Home
    BY <1>5 DEF Install
  <2> QED
    BY <1>5, <2>1 DEF Install
<1>6. CASE Crash
  BY <1>6 DEF Crash, diskVars
<1>7. CASE WriteLogBody \/ WriteLogHead \/ EraseLogHead \/ FinishCommit \/ BootStep \/ Halted
  BY <1>7, <1>2, Zenon DEF WriteLogBody, WriteLogHead, EraseLogHead, FinishCommit, BootStep, ReadLogHead,
     ReadLogHeadPanic, Halted, vars, diskVars, cacheVars
<1>8. ASSUME NEW p \in Proc, OpStep(p), \A b \in Home : ~ LockBlock(p, b),
             \A b \in Home, v \in Data : ~ UpdateBlock(p, b, v)
      PROVE CleanMatchesDisk'
  BY <1>8, <1>2, Zenon DEF OpStep, Begin, BeginWait, ForceBeginWait, KillWaiter, EndOp, EndOpCommit,
     ReleaseBlock, ReleasePanic, diskVars, cacheVars
<1> QED
  BY <1>1, <1>3, <1>4, <1>5, <1>6, <1>7, <1>8, Zenon DEF Next, Running, CacheStep, CommitStep

(* What install_transaction still has to write is named by the header on   *)
(* disk.                                                                   *)
LEMMA InstallStep ==
  ASSUME TypeOK, CommitExcludesOps, HeaderPhases, InstallIsLogged, Next
  PROVE  InstallIsLogged'
<1> USE DEF TypeOK, InstallIsLogged
<1>1. ASSUME NEW b \in Home, ReadOnlyRead(b) \/ Evict(b) PROVE InstallIsLogged'
  BY <1>1 DEF ReadOnlyRead, Evict, diskVars, logVars
<1>2. CASE phase' # "install"
  BY <1>2
<1>3. ASSUME NEW p \in Proc, OpStep(p) PROVE InstallIsLogged'
  <2>1. CASE BeginWait(p) \/ ForceBeginWait(p) \/ KillWaiter(p)
    BY <2>1 DEF BeginWait, ForceBeginWait, KillWaiter, diskVars, cacheVars, logVars
  <2>2. CASE ~ (BeginWait(p) \/ ForceBeginWait(p) \/ KillWaiter(p))
    <3>1. Begin(p) \/ Active(p)
      BY <1>3, <2>2, Zenon DEF OpStep, EndOp, EndOpCommit, LockBlock, UpdateBlock, ReleaseBlock, ReleasePanic
    <3>2. phase = "open"
      BY <3>1 DEF Begin, CanBegin, CommitExcludesOps
    <3> QED
      BY <1>2, <1>3, <2>2, <3>2, Zenon DEF OpStep, Begin, EndOp, EndOpCommit, LockBlock, UpdateBlock,
         ReleaseBlock, ReleasePanic, logVars
  <2> QED
    BY <2>1, <2>2
<1>4. CASE WriteLogHead
  <2>1. logArea'[HeaderSlot] = Header(header)
    BY <1>4 DEF WriteLogHead
  <2>2. Header(header) \notin Data
    BY DataAssumption
  <2> QED
    BY <1>4, <2>1, <2>2 DEF WriteLogHead
<1>5. CASE Install
  <2>1. Entries(Tail(header)) \subseteq Entries(header)
    BY <1>5 DEF Install, Entries
  <2> QED
    BY <1>5, <2>1 DEF Install
<1>6. CASE ReadLogHead
  BY <1>6 DEF ReadLogHead, HeaderPhases, cacheVars
<1>7. CASE WriteLogBody \/ EraseLogHead \/ FinishCommit \/ ReadLogHeadPanic \/ Crash
  BY <1>7, <1>2, Zenon DEF WriteLogBody, EraseLogHead, FinishCommit, ReadLogHeadPanic, Crash, logVars
<1>8. CASE Halted
  BY <1>8 DEF Halted, vars, diskVars, cacheVars, logVars
<1> QED
  BY <1>1, <1>3, <1>4, <1>5, <1>6, <1>7, <1>8, Zenon DEF Next, Running, CacheStep, CommitStep, BootStep

(* With no dirty buffer, cache and disk show the same image.               *)
LEMMA CleanMemory == ASSUME TypeOK, CleanMatchesDisk, dirty = {} PROVE Memory = disk
BY DEF TypeOK, CleanMatchesDisk, Memory

(* With an empty header and no buffer locked, nothing is dirty.            *)
LEMMA QuietIsClean ==
  ASSUME TypeOK, LockDiscipline, header = <<>>, \A p \in Proc : held[p] = {}
  PROVE  dirty = {}
BY DEF LockDiscipline, Entries, TypeOK

(* The last one out finds no other transaction open.                       *)
LastIsAlone == \A p \in Proc : Active(p) /\ outstanding = 1 => ActiveSet = {p}

(* Without crashes, every step of the log is a step of AtomicDisk or       *)
(* leaves its variables alone.                                             *)
LEMMA RefinementStep ==
  ASSUME MaxCrash = 0, TypeOK, CommitExcludesOps, LockDiscipline, HeaderPhases, CleanMatchesDisk,
         LastIsAlone, Next
  PROVE  [A!Next]_(A!vars)
<1> USE DEF TypeOK
<1>s. ASSUME Memory' = Memory, Durable' = Durable, ActiveSet' = ActiveSet PROVE UNCHANGED A!vars
  BY <1>s DEF A!vars, ActiveSet
<1>m. Memory \in [Home -> Data] /\ \A b \in Home : Memory[b] = IF cache[b] = NoData THEN disk[b] ELSE cache[b]
  BY DEF Memory
<1>k. ASSUME cache' = cache, disk' = disk PROVE Memory' = Memory
  BY <1>k DEF Memory
<1>1. ASSUME NEW b \in Home, ReadOnlyRead(b) PROVE UNCHANGED A!vars
  <2>1. Memory' = Memory
    BY <1>1 DEF ReadOnlyRead, Memory, diskVars
  <2> QED
    BY <1>1, <2>1, <1>s DEF ReadOnlyRead, Durable, ActiveSet, Active, diskVars, logVars
<1>2. ASSUME NEW b \in Home, Evict(b) PROVE UNCHANGED A!vars
  <2>1. cache[b] = disk[b]
    BY <1>2 DEF Evict, Locked, LockDiscipline, CleanMatchesDisk
  <2>2. Memory' = Memory
    BY <1>2, <2>1 DEF Evict, Memory, diskVars
  <2> QED
    BY <1>2, <2>2, <1>s DEF Evict, Durable, ActiveSet, Active, diskVars, logVars
<1>3. ASSUME NEW p \in Proc, Begin(p) PROVE A!Begin(p)
  <2>1. Memory' = Memory
    BY <1>3, <1>k DEF Begin, diskVars, cacheVars
  <2>2. ActiveSet' = ActiveSet \cup {p} /\ p \notin ActiveSet
    BY <1>3 DEF Begin, ActiveSet, Active
  <2>3. Durable' = Durable
    BY <1>3, <2>1 DEF Begin, Durable, diskVars
  <2> QED
    BY <2>1, <2>2, <2>3 DEF A!Begin, ActiveSet
<1>4. ASSUME NEW p \in Proc, BeginWait(p) \/ ForceBeginWait(p) \/ KillWaiter(p) PROVE UNCHANGED A!vars
  <2>1. Memory' = Memory
    BY <1>4, <1>k DEF BeginWait, ForceBeginWait, KillWaiter, diskVars, cacheVars
  <2>2. ActiveSet' = ActiveSet
    BY <1>4 DEF BeginWait, ForceBeginWait, KillWaiter, ActiveSet, Active
  <2>3. Durable' = Durable
    BY <1>4, <2>1 DEF BeginWait, ForceBeginWait, KillWaiter, Durable, diskVars, logVars
  <2> QED
    BY <2>1, <2>2, <2>3, <1>s
<1>5. ASSUME NEW p \in Proc, EndOp(p) PROVE A!End(p)
  <2> DEFINE f == [pc EXCEPT ![p] = "idle"]
  <2>0. f \in [Proc -> PC] /\ pc' = Notified(f)
    BY <1>5 DEF EndOp
  <2>1. Memory' = Memory
    BY <1>5, <1>k DEF EndOp, diskVars, cacheVars
  <2>2. ActiveSet' = ActiveSet \ {p} /\ p \in ActiveSet
    <3>1. \A q \in Proc : pc'[q] = "active" <=> f[q] = "active"
      BY <2>0, NotifiedActive, Zenon
    <3> QED
      BY <3>1, <1>5, Zenon DEF EndOp, ActiveSet, Active
  <2>3. Durable' = Durable
    BY <1>5, <2>1 DEF EndOp, Durable, diskVars
  <2> QED
    BY <2>1, <2>2, <2>3 DEF A!End, ActiveSet
<1>6. ASSUME NEW p \in Proc, EndOpCommit(p) PROVE A!End(p)
  <2>1. Memory' = Memory /\ disk' = disk
    BY <1>6, <1>k DEF EndOpCommit, diskVars, cacheVars
  <2>2. ActiveSet' = ActiveSet \ {p} /\ p \in ActiveSet
    BY <1>6 DEF EndOpCommit, ActiveSet, Active
  <2>3. phase = "open"
    BY <1>6 DEF EndOpCommit, CommitExcludesOps
  <2>4. CASE header = <<>>
    <3>1. ActiveSet = {p}
      BY <1>6, <2>2 DEF EndOpCommit, LastIsAlone, ActiveSet
    <3>2. \A q \in Proc : held[q] = {}
      BY <1>6, <3>1 DEF EndOpCommit, LockDiscipline, ActiveSet
    <3>3. Memory = disk
      BY <2>4, <3>2, QuietIsClean, CleanMemory, Zenon
    <3> QED
      BY <2>1, <2>2, <2>3, <3>3 DEF A!End, ActiveSet, Durable
  <2>5. CASE header # <<>>
    BY <1>6, <2>1, <2>2, <2>3, <2>5 DEF EndOpCommit, A!End, ActiveSet, Durable
  <2> QED
    BY <2>4, <2>5
<1>7. ASSUME NEW p \in Proc, NEW b \in Home, LockBlock(p, b) PROVE UNCHANGED A!vars
  <2>1. Memory' = Memory
    BY <1>7, <1>m DEF LockBlock, Memory, diskVars
  <2> QED
    BY <1>7, <2>1, <1>s DEF LockBlock, Durable, ActiveSet, Active, diskVars, logVars
<1>8. ASSUME NEW p \in Proc, NEW b \in Home, ReleaseBlock(p, b) \/ ReleasePanic(p, b) PROVE UNCHANGED A!vars
  <2>1. Memory' = Memory
    BY <1>8, <1>k DEF ReleaseBlock, ReleasePanic, diskVars, cacheVars
  <2> QED
    BY <1>8, <2>1, <1>s DEF ReleaseBlock, ReleasePanic, Durable, ActiveSet, Active, diskVars, logVars
<1>9. ASSUME NEW p \in Proc, NEW b \in Home, NEW v \in Data, UpdateBlock(p, b, v) PROVE A!Update(p, b, v)
  <2>1. Memory' = [Memory EXCEPT ![b] = v]
    BY <1>9, Zenon DEF UpdateBlock, Memory, diskVars
  <2>2. phase = "open" /\ p \in ActiveSet /\ ActiveSet' = ActiveSet
    BY <1>9 DEF UpdateBlock, CommitExcludesOps, ActiveSet, Active
  <2> QED
    BY <1>9, <2>1, <2>2 DEF UpdateBlock, Durable, ActiveSet, diskVars, logVars, A!Update
<1>10. CASE WriteLogBody
  <2>1. Memory' = Memory
    BY <1>10, <1>k DEF WriteLogBody, cacheVars
  <2> QED
    BY <1>10, <2>1, <1>s DEF WriteLogBody, Durable, ActiveSet, Active
<1>11. CASE WriteLogHead
  <2>1. Memory' = Memory
    BY <1>11, <1>k DEF WriteLogHead, cacheVars
  <2>2. ActiveSet = {} /\ ActiveSet' = ActiveSet
    BY <1>11 DEF WriteLogHead, CommitExcludesOps, ActiveSet, Active
  <2>3. A!Commit
    BY <1>11, <2>1, <2>2, Zenon DEF WriteLogHead, Durable, ActiveSet, A!Commit
  <2> QED
    BY <2>3 DEF A!Next
<1>12. CASE Install
  <2>1. Head(header) \in Home
    BY <1>12 DEF Install
  <2>2. Memory' = Memory
    BY <1>12, <2>1, <1>m DEF Install, Memory
  <2> QED
    BY <1>12, <2>2, <1>s DEF Install, Durable, ActiveSet, Active
<1>13. CASE EraseLogHead
  <2>1. Memory' = Memory
    BY <1>13, <1>k, Zenon DEF EraseLogHead, cacheVars
  <2> QED
    BY <1>13, <2>1, <1>s, Zenon DEF EraseLogHead, Durable, ActiveSet, Active
<1>14. CASE FinishCommit
  <2>1. Memory' = Memory
    BY <1>14, <1>k DEF FinishCommit, diskVars, cacheVars
  <2>2. \A q \in Proc : ~ Active(q) /\ held[q] = {}
    BY <1>14 DEF FinishCommit, CommitExcludesOps, LockDiscipline
  <2>3. Memory = disk
    BY <1>14, <2>2, QuietIsClean, CleanMemory, Zenon DEF FinishCommit, HeaderPhases
  <2> DEFINE f == [q \in Proc |-> IF pc[q] = "commit" THEN "idle" ELSE pc[q]]
  <2>4. f \in [Proc -> PC] /\ pc' = Notified(f)
    BY <1>14 DEF FinishCommit
  <2>5. \A q \in Proc : pc'[q] = "active" <=> f[q] = "active"
    BY <2>4, NotifiedActive
  <2>6. ActiveSet' = ActiveSet
    BY <2>5 DEF ActiveSet, Active
  <2> QED
    BY <1>14, <2>1, <2>3, <2>6, <1>s DEF FinishCommit, Durable, diskVars
<1>15. CASE ReadLogHead
  <2>1. Memory' = Memory
    BY <1>15, <1>k DEF ReadLogHead, diskVars, cacheVars
  <2>2. Memory = disk
    BY <1>15, CleanMemory, Zenon DEF ReadLogHead, HeaderPhases
  <2> QED
    BY <1>15, <2>1, <2>2, <1>s DEF ReadLogHead, Durable, ActiveSet, Active, diskVars
<1>16. CASE ReadLogHeadPanic \/ Halted
  <2>1. Memory' = Memory
    BY <1>16, <1>k DEF ReadLogHeadPanic, Halted, vars, diskVars, cacheVars
  <2> QED
    BY <1>16, <2>1, <1>s DEF ReadLogHeadPanic, Halted, vars, Durable, ActiveSet, Active, diskVars, logVars
<1>17. ~ Crash
  BY DEF Crash
<1> QED
  BY <1>1, <1>2, <1>3, <1>4, <1>5, <1>6, <1>7, <1>8, <1>9, <1>10, <1>11, <1>12, <1>13, <1>14, <1>15, <1>16, <1>17, Zenon
  DEF Next, Running, OpStep, CacheStep, CommitStep, BootStep, A!Next
=============================================================================
