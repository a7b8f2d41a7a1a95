-------------------------------- MODULE Log --------------------------------
(***************************************************************************)
(* The redo log of the file system (fs/log.rs) over the block cache        *)
(* (block_io, lru) and the disk.                                           *)
(*                                                                         *)
(* Processes open transactions, lock, update and release cached blocks,    *)
(* and end; the last one out takes the LogHeader and commits it, one disk  *)
(* write per step.  A crash keeps the disk and loses everything else;      *)
(* booting runs Log::new, which recovers from the log.                     *)
(***************************************************************************)
EXTENDS Integers, Sequences, FiniteSets

CONSTANTS Proc,       \* processes in file-system calls
          Home,       \* home blocks: every block outside the log area
          Data,       \* contents of a block
          InitData,   \* contents of every home block on the fresh image
          NoData,     \* no valid buffer of the block is cached
          MaxOp,      \* MAX_OP_BLOCKS
          LogSize,    \* LOG_SIZE, the capacity of LogHeader.blocks
          MaxLogLen,  \* SuperBlock::max_log_len(), the blocks of the log area
          MaxCrash    \* bound on the number of crashes

ASSUME ConstAssumption ==
  /\ IsFiniteSet(Proc)
  /\ InitData \in Data
  /\ NoData \notin Data
  /\ MaxOp \in Nat \ {0}
  /\ LogSize \in Nat
  /\ MaxOp <= LogSize
  /\ MaxLogLen = LogSize
  /\ MaxCrash \in Nat

(* A block's bytes are not a header until LogHeader::read takes them for   *)
(* one.                                                                    *)
ASSUME DataAssumption == \A d \in Data : d \notin [blocks : Seq(Home)]

VARIABLES
  disk,         \* contents of the home blocks on disk
  logArea,      \* contents of the log area on disk, by block offset
  cache,        \* block cache: the buffer's data, or NoData
  dirty,        \* cached blocks whose buffer is dirty
  header,       \* LogHeader.blocks, pinning one buffer per entry
  phase,        \* who owns the LogHeader: LogData ("open"), or the step of
                \* commit / recover_from_log that runs next
  idx,          \* blocks write_log_body has copied
  outstanding,  \* LogData.outstanding
  pc,           \* where each process is
  held,         \* the blocks whose buffers the process has locked
  wrote,        \* the blocks the open transaction has modified
  halted,       \* the kernel panicked
  crashes

diskVars == <<disk, logArea>>
cacheVars == <<cache, dirty>>
logVars == <<header, phase, idx, outstanding>>
opVars == <<held, wrote>>
haltVars == <<halted, crashes>>
vars == <<diskVars, cacheVars, logVars, pc, opVars, haltVars>>

PC == {"idle", "wait", "woken", "fwait", "fwoken", "active", "commit"}
Phase == {"open", "body", "head", "install", "finish", "read"}

Active(p) == pc[p] = "active"
Entries(s) == {s[i] : i \in DOMAIN s}

(* Log::new has taken the header and no process runs yet.                  *)
Booting == phase # "open" /\ \A p \in Proc : pc[p] # "commit"

(* A log block holds a header, or the data of the block it is a copy of.   *)
HeaderSlot == 0
BodySlot(i) == i
Header(bs) == [blocks |-> bs]
Headers == [blocks : Seq(Home)]

(* What the file system sees: the cached buffer, or else the disk.         *)
Memory == [b \in Home |-> IF cache[b] = NoData THEN disk[b] ELSE cache[b]]

Init ==
  /\ disk = [b \in Home |-> InitData]
  /\ logArea = [i \in 0..MaxLogLen-1 |-> IF i = HeaderSlot THEN Header(<<>>) ELSE InitData]
  /\ cache = [b \in Home |-> NoData]
  /\ dirty = {}
  /\ header = <<>>
  /\ phase = "read"
  /\ idx = 0
  /\ outstanding = 0
  /\ pc = [p \in Proc |-> "idle"]
  /\ held = [p \in Proc |-> {}]
  /\ wrote = [p \in Proc |-> {}]
  /\ halted = FALSE
  /\ crashes = 0

-----------------------------------------------------------------------------
(* Block cache.                                                            *)

Locked(b) == \E p \in Proc : b \in held[p]

(* BlockRef::lock().read() by a read-only transaction.                     *)
ReadOnlyRead(b) ==
  /\ ~ Booting
  /\ ~ Locked(b)
  /\ cache[b] = NoData
  /\ cache' = [cache EXCEPT ![b] = disk[b]]
  /\ UNCHANGED <<diskVars, dirty, logVars, pc, opVars, haltVars>>

(* Faulty variant: a buffer pinned by the header is recycled.              *)
EvictPinned(b) ==
  /\ cache[b] # NoData
  /\ ~ Locked(b)
  /\ cache' = [cache EXCEPT ![b] = NoData]
  /\ dirty' = dirty \ {b}
  /\ UNCHANGED <<diskVars, logVars, pc, opVars, haltVars>>

(* Lru::get recycles the buffer of a block nothing refers to.              *)
Evict(b) ==
  /\ cache[b] # NoData
  /\ ~ Locked(b)
  /\ b \notin Entries(header)
  /\ cache' = [cache EXCEPT ![b] = NoData]
  /\ dirty' = dirty \ {b}
  /\ UNCHANGED <<diskVars, logVars, pc, opVars, haltVars>>

-----------------------------------------------------------------------------
(* Transactions.                                                           *)

(* Faulty variants: the reservation of the caller is not counted; the      *)
(* entries already in the header are not counted.                          *)
HasSpaceForOthers == Len(header) + outstanding * MaxOp <= LogSize
HasSpaceWhenEmpty == (outstanding + 1) * MaxOp <= LogSize

(* What begin_op checks before it counts the caller in.                    *)
HasSpace == Len(header) + (outstanding + 1) * MaxOp <= LogSize

CanBegin == phase = "open" /\ HasSpace

(* begin_op / force_begin_op find room, at the first check or after a wait. *)
Begin(p) ==
  /\ pc[p] \in {"idle", "woken", "fwoken"}
  /\ CanBegin
  /\ outstanding' = outstanding + 1
  /\ pc' = [pc EXCEPT ![p] = "active"]
  /\ wrote' = [wrote EXCEPT ![p] = {}]
  /\ UNCHANGED <<diskVars, cacheVars, header, phase, idx, held, haltVars>>

(* begin_op sleeps: the log commits, or may run out of space.              *)
BeginWait(p) ==
  /\ pc[p] \in {"idle", "woken"}
  /\ ~ Booting
  /\ ~ CanBegin
  /\ pc' = [pc EXCEPT ![p] = "wait"]
  /\ UNCHANGED <<diskVars, cacheVars, logVars, opVars, haltVars>>

ForceBeginWait(p) ==
  /\ pc[p] \in {"idle", "fwoken"}
  /\ ~ Booting
  /\ ~ CanBegin
  /\ pc' = [pc EXCEPT ![p] = "fwait"]
  /\ UNCHANGED <<diskVars, cacheVars, logVars, opVars, haltVars>>

(* A kill ends begin_op's sleep with an error; force_wait sleeps on.       *)
KillWaiter(p) ==
  /\ pc[p] \in {"wait", "woken"}
  /\ pc' = [pc EXCEPT ![p] = "idle"]
  /\ UNCHANGED <<diskVars, cacheVars, logVars, opVars, haltVars>>

(* TxBlockRef::lock().read(): exclusive, and valid once it returns.        *)
LockBlock(p, b) ==
  /\ Active(p)
  /\ ~ Locked(b)
  /\ held' = [held EXCEPT ![p] = @ \cup {b}]
  /\ cache' = [cache EXCEPT ![b] = Memory[b]]
  /\ UNCHANGED <<diskVars, dirty, logVars, pc, wrote, haltVars>>

(* data_mut, bytes_mut or zeroed on a locked block.  The guard on wrote is *)
(* the contract of MAX_OP_BLOCKS.                                          *)
UpdateBlock(p, b, v) ==
  /\ Active(p)
  /\ b \in held[p]
  /\ Cardinality(wrote[p] \cup {b}) <= MaxOp
  /\ cache' = [cache EXCEPT ![b] = v]
  /\ dirty' = dirty \cup {b}
  /\ wrote' = [wrote EXCEPT ![p] = @ \cup {b}]
  /\ UNCHANGED <<diskVars, logVars, pc, held, haltVars>>

(* LogHeader::push: the assertion comes before the search for the block.   *)
PushPanics == Len(header) >= MaxLogLen

(* TxBlockGuard::drop: Log::write if the buffer is dirty, then unlock.     *)
ReleaseBlock(p, b) ==
  /\ Active(p)
  /\ b \in held[p]
  /\ b \in dirty => ~ PushPanics
  /\ header' = IF b \in dirty \ Entries(header) THEN Append(header, b) ELSE header
  /\ held' = [held EXCEPT ![p] = @ \ {b}]
  /\ UNCHANGED <<diskVars, cacheVars, phase, idx, outstanding, pc, wrote, haltVars>>

ReleasePanic(p, b) ==
  /\ Active(p)
  /\ b \in held[p]
  /\ b \in dirty /\ PushPanics
  /\ halted' = TRUE
  /\ UNCHANGED <<diskVars, cacheVars, logVars, pc, opVars, crashes>>

(* SpinLockCondVar::notify on Log.cond.                                    *)
Notified(f) ==
  [p \in Proc |-> CASE f[p] = "wait" -> "woken"
                    [] f[p] = "fwait" -> "fwoken"
                    [] OTHER -> f[p]]

(* end_op of a transaction that is not the last: its reservation is freed. *)
EndOp(p) ==
  /\ Active(p) /\ held[p] = {}
  /\ outstanding > 1
  /\ outstanding' = outstanding - 1
  /\ pc' = Notified([pc EXCEPT ![p] = "idle"])
  /\ UNCHANGED <<diskVars, cacheVars, header, phase, idx, opVars, haltVars>>

(* Faulty variant: install without writing the log first.                  *)
EndOpInstall(p) ==
  /\ Active(p) /\ held[p] = {}
  /\ outstanding = 1
  /\ outstanding' = 0
  /\ pc' = [pc EXCEPT ![p] = "commit"]
  /\ phase' = IF header = <<>> THEN "finish" ELSE "install"
  /\ idx' = 0
  /\ UNCHANGED <<diskVars, cacheVars, header, opVars, haltVars>>

(* end_op of the last one takes the header and runs LogHeader::commit.     *)
EndOpCommit(p) ==
  /\ Active(p) /\ held[p] = {}
  /\ outstanding = 1
  /\ outstanding' = 0
  /\ pc' = [pc EXCEPT ![p] = "commit"]
  /\ phase' = IF header = <<>> THEN "finish" ELSE "body"
  /\ idx' = 0
  /\ UNCHANGED <<diskVars, cacheVars, header, opVars, haltVars>>

-----------------------------------------------------------------------------
(* LogHeader::commit, one disk write per step.                             *)

(* write_log_body: the next block's buffer goes to its log block.          *)
WriteLogBody ==
  /\ phase = "body"
  /\ logArea' = [logArea EXCEPT ![BodySlot(idx)] = Memory[header[idx + 1]]]
  /\ idx' = idx + 1
  /\ phase' = IF idx + 1 = Len(header) THEN "head" ELSE "body"
  /\ UNCHANGED <<disk, cacheVars, header, outstanding, pc, opVars, haltVars>>

(* write_log_head: the commit point.                                       *)
WriteLogHead ==
  /\ phase = "head"
  /\ logArea' = [logArea EXCEPT ![HeaderSlot] = Header(header)]
  /\ phase' = "install"
  /\ UNCHANGED <<disk, cacheVars, header, idx, outstanding, pc, opVars, haltVars>>

(* Faulty variant: the entry is dropped without a write.                   *)
InstallNothing ==
  /\ phase = "install"
  /\ header # <<>>
  /\ dirty' = dirty \ {Head(header)}
  /\ header' = Tail(header)
  /\ UNCHANGED <<diskVars, cache, phase, idx, outstanding, pc, opVars, haltVars>>

(* install_transaction: drain one entry, write its buffer home, drop it.   *)
Install ==
  /\ phase = "install"
  /\ header # <<>>
  /\ LET b == Head(header) IN
       /\ cache' = [cache EXCEPT ![b] = Memory[b]]
       /\ disk' = [disk EXCEPT ![b] = Memory[b]]
       /\ dirty' = dirty \ {b}
  /\ header' = Tail(header)
  /\ UNCHANGED <<logArea, phase, idx, outstanding, pc, opVars, haltVars>>

(* write_log_head with the drained header erases the transaction.          *)
EraseLogHead ==
  /\ phase = "install"
  /\ header = <<>>
  /\ logArea' = [logArea EXCEPT ![HeaderSlot] = Header(<<>>)]
  /\ phase' = "finish"
  /\ UNCHANGED <<disk, cacheVars, header, idx, outstanding, pc, opVars, haltVars>>

(* Faulty variant: the processes waiting in begin_op are not notified.     *)
FinishSilently ==
  /\ phase = "finish"
  /\ phase' = "open"
  /\ pc' = [p \in Proc |-> IF pc[p] = "commit" THEN "idle" ELSE pc[p]]
  /\ UNCHANGED <<diskVars, cacheVars, header, idx, outstanding, opVars, haltVars>>

(* end_op puts the header back and notifies; Log::new publishes the log.   *)
FinishCommit ==
  /\ phase = "finish"
  /\ phase' = "open"
  /\ pc' = Notified([p \in Proc |-> IF pc[p] = "commit" THEN "idle" ELSE pc[p]])
  /\ UNCHANGED <<diskVars, cacheVars, header, idx, outstanding, opVars, haltVars>>

-----------------------------------------------------------------------------
(* Crash and boot.                                                         *)

Crash ==
  /\ crashes < MaxCrash
  /\ crashes' = crashes + 1
  /\ cache' = [b \in Home |-> NoData]
  /\ dirty' = {}
  /\ header' = <<>>
  /\ phase' = "read"
  /\ idx' = 0
  /\ outstanding' = 0
  /\ pc' = [p \in Proc |-> "idle"]
  /\ held' = [p \in Proc |-> {}]
  /\ wrote' = [p \in Proc |-> {}]
  /\ halted' = FALSE
  /\ UNCHANGED diskVars

(* The headers LogHeader::read may find in a log block.  A block's data    *)
(* read as a header is any list of block numbers.                          *)
ReadAsHeader(c) ==
  IF c \in Data THEN {<<>>} \cup {<<b>> : b \in Home} ELSE {c.blocks}

(* recover_from_log: LogHeader::read, then install and erase as in commit. *)
ReadLogHead ==
  /\ phase = "read"
  /\ \E bs \in ReadAsHeader(logArea[HeaderSlot]) : header' = bs
  /\ phase' = "install"
  /\ UNCHANGED <<diskVars, cacheVars, idx, outstanding, pc, opVars, haltVars>>

(* Data read as a header may name a block the disk or the log cannot hold. *)
ReadLogHeadPanic ==
  /\ phase = "read"
  /\ logArea[HeaderSlot] \in Data
  /\ halted' = TRUE
  /\ UNCHANGED <<diskVars, cacheVars, logVars, pc, opVars, crashes>>

-----------------------------------------------------------------------------
OpStep(p) ==
  \/ Begin(p)
  \/ BeginWait(p)
  \/ ForceBeginWait(p)
  \/ KillWaiter(p)
  \/ EndOp(p)
  \/ EndOpCommit(p)
  \/ \E b \in Home :
       \/ LockBlock(p, b)
       \/ \E v \in Data : UpdateBlock(p, b, v)
       \/ ReleaseBlock(p, b)
       \/ ReleasePanic(p, b)

CommitStep == WriteLogBody \/ WriteLogHead \/ Install \/ EraseLogHead \/ FinishCommit
BootStep == ReadLogHead \/ ReadLogHeadPanic
CacheStep == \E b \in Home : ReadOnlyRead(b) \/ Evict(b)

Running == ~ halted /\ (CommitStep \/ BootStep \/ CacheStep \/ \E p \in Proc : OpStep(p))

(* A panicked kernel stays where it is.                                    *)
Halted == halted /\ UNCHANGED vars

Next == Running \/ Crash \/ Halted

Spec == Init /\ [][Next]_vars

(* A woken process is scheduled again, commit and recovery run to their    *)
(* end, and a transaction is one system call: it ends.                     *)
LogRuns == ~ halted /\ (CommitStep \/ ReadLogHead)
Retries(p) ==
  /\ ~ halted
  /\ \/ pc[p] = "woken" /\ (Begin(p) \/ BeginWait(p))
     \/ pc[p] = "fwoken" /\ (Begin(p) \/ ForceBeginWait(p))
Ends(p) == ~ halted /\ (EndOp(p) \/ EndOpCommit(p))
Fairness == WF_vars(LogRuns) /\ \A p \in Proc : WF_vars(Retries(p)) /\ SF_vars(Ends(p))

FairSpec == Spec /\ Fairness

-----------------------------------------------------------------------------
(* Properties.                                                             *)

(* Every variable has its type.                                            *)
TypeOK ==
  /\ disk \in [Home -> Data]
  /\ logArea \in [0..MaxLogLen-1 -> Data \cup Headers]
  /\ cache \in [Home -> Data \cup {NoData}]
  /\ dirty \subseteq Home
  /\ header \in Seq(Home)
  /\ phase \in Phase
  /\ idx \in Nat
  /\ outstanding \in Nat
  /\ pc \in [Proc -> PC]
  /\ held \in [Proc -> SUBSET Home]
  /\ wrote \in [Proc -> SUBSET Home]
  /\ halted \in BOOLEAN
  /\ crashes \in 0..MaxCrash

(* begin_op's reservation suffices: a transaction that logs a block for    *)
(* the first time always finds a free header entry, whatever the other     *)
(* transactions admitted beside it have logged.                            *)
ReservationSuffices ==
  \A p \in Proc : \A b \in held[p] \cap dirty :
    b \notin Entries(header) => ~ PushPanics

(* "only commits when there are no FS system calls active": while the      *)
(* header is taken no transaction is open, and outstanding counts exactly  *)
(* the open ones, however begin_op and end_op interleave.                  *)
CommitExcludesOps ==
  /\ outstanding = Cardinality({p \in Proc : Active(p)})
  /\ phase # "open" => \A p \in Proc : ~ Active(p)

(* A dirty buffer is locked or pinned by the header, so that recycling a   *)
(* buffer (Lru::get) never loses an update.                                *)
DirtyIsPinned ==
  \A b \in dirty : Locked(b) \/ b \in Entries(header)

(* The space accounting behind ReservationSuffices: what the header holds  *)
(* plus what the open transactions may still add fits in the log.  A token *)
(* is one block a transaction may still add.                               *)
Tokens ==
  {t \in {p \in Proc : Active(p)} \X (1..MaxOp) :
     t[2] > Cardinality(wrote[t[1]] \cap Entries(header))}
SpaceIsReserved ==
  phase = "open" => Len(header) + Cardinality(Tokens) <= LogSize

(* Only an open transaction holds buffers, each buffer has one holder, and *)
(* a dirty one is in the header or held by the transaction that wrote it.  *)
LockDiscipline ==
  /\ \A p \in Proc : ~ Active(p) => held[p] = {}
  /\ \A p, q \in Proc : p # q => held[p] \cap held[q] = {}
  /\ \A b \in dirty : b \in Entries(header) \/ \E p \in Proc : b \in held[p] \cap wrote[p]

(* What the phases of commit and recovery know of the header.              *)
HeaderPhases ==
  /\ phase \in {"read", "finish"} => header = <<>>
  /\ phase = "read" => dirty = {}
  /\ phase = "body" => idx < Len(header)

(* A transaction keeps to MAX_OP_BLOCKS.                                   *)
OpBound == \A p \in Proc : IsFiniteSet(wrote[p]) /\ Cardinality(wrote[p]) <= MaxOp

(* The inductive invariant of the log: begin_op and end_op keep commits    *)
(* and open transactions apart, and the header with the reservations of    *)
(* all open transactions fits in the log.                                  *)
LogInv ==
  TypeOK /\ CommitExcludesOps /\ LockDiscipline /\ HeaderPhases /\ OpBound /\ SpaceIsReserved

(* A clean cached buffer agrees with the disk: a read served by the cache  *)
(* is the read the disk would have served.                                 *)
CleanMatchesDisk ==
  \A b \in Home : cache[b] # NoData /\ b \notin dirty => cache[b] = disk[b]

(* While a commit installs, the header on disk names every block that is   *)
(* still to be installed.                                                  *)
InstallIsLogged ==
  phase = "install" /\ dirty # {} =>
    /\ logArea[HeaderSlot] \notin Data
    /\ Entries(header) \subseteq Entries(logArea[HeaderSlot].blocks)

(* Write-ahead rule: a home block changes only while the header on disk    *)
(* names it and no transaction is open.                                    *)
WriteAhead ==
  [][\A b \in Home : disk'[b] # disk[b] =>
       /\ logArea[HeaderSlot] \notin Data
       /\ b \in Entries(logArea[HeaderSlot].blocks)
       /\ outstanding = 0]_vars

(* What is durable: the home blocks, and from the commit point to the end  *)
(* of the installation the transaction that is being installed.            *)
Durable == IF phase \in {"install", "finish"} THEN Memory ELSE disk

A == INSTANCE AtomicDisk WITH
       Tx <- Proc, Block <- Home, durable <- Durable, memory <- Memory,
       open <- {p \in Proc : Active(p)}

(* The log implements the atomic disk.                                     *)
ImplementsAtomicDisk == A!Spec

(* A crash outside install_transaction keeps the durable image: before the *)
(* header is written nothing of the transaction is visible, after the last *)
(* installation all of it is.                                              *)
CrashKeepsDurableOutsideInstall ==
  [][crashes' # crashes /\ ~ (phase = "install" /\ header # <<>>)
       => Durable' = Durable]_vars

(* No wakeup is lost: when system calls stop arriving and none keeps its   *)
(* buffers locked, every process asleep in begin_op gets its transaction.  *)
NoNewCalls == \A p \in Proc : pc[p] = "idle" => pc'[p] = "idle"
CallsRelease == \A p \in Proc : []<>(held[p] = {})
Waiting(p) == pc[p] \in {"wait", "woken", "fwait", "fwoken"}
SleepersProceed ==
  <>[][NoNewCalls]_vars /\ CallsRelease =>
    \A p \in Proc : Waiting(p) ~> ~ Waiting(p)


(* What begin_op, TxBlockGuard and commit promise the file system: room    *)
(* for every reserved write, modified buffers that stay in the cache,      *)
(* clean buffers that agree with the disk, and installed blocks that are   *)
(* in the log.                                                             *)
LogSafe == ReservationSuffices /\ DirtyIsPinned /\ InstallIsLogged /\ CleanMatchesDisk
=============================================================================
