-------------------------------- MODULE Pipe --------------------------------
(***************************************************************************)
(* A pipe (file/pipe.rs): the ring of PIPE_SIZE bytes, its readers and     *)
(* writers blocked on two condition variables of one spin lock, the close  *)
(* of its ends when the last file of an end is dropped (file/mod.rs), and  *)
(* kill.  One step per turn of the loops of read and write.                *)
(***************************************************************************)
EXTENDS Integers, Sequences

CONSTANTS Reader, Writer,  \* the processes that have an end open at the start
          Byte,            \* the values of a byte
          PipeSize,        \* PIPE_SIZE
          Lens,            \* bound: the lengths read and write are called with
          MaxStart,        \* bound: no write begins once so many bytes were written
          Killable,        \* bound: the processes kill is called on
          None

Proc == Reader \cup Writer

ASSUME ConstAssumption ==
  /\ Reader # {} /\ Writer # {} /\ Reader \cap Writer = {}
  /\ 0 \in Byte
  /\ PipeSize \in Nat \ {0}
  /\ Lens \subseteq Nat
  /\ MaxStart \in Nat
  /\ Killable \subseteq Proc
  /\ None \notin Proc

VARIABLES
  data,      \* PipeDataLocked.data
  nread, nwrite,
  readOpen, writeOpen,
  lock,      \* the process that holds PipeData.data, or None
  refs,      \* the processes that hold a file of their end
  killed,
  changed,   \* the waiters whose condition was notified since they began to wait
  pc,
  len,       \* length of the user's buffer
  done,      \* bytes copied by the call
  sent,      \* history: the bytes written
  rcvd       \* history: the bytes read

ring == <<data, nread, nwrite, sent, rcvd>>
ends == <<readOpen, writeOpen, refs>>
vars == <<ring, ends, lock, killed, changed, pc, len, done>>

PC == {"idle", "wlock", "write", "wwait", "rlock", "read", "copy", "rwait"}

Init ==
  /\ data = [i \in 0..PipeSize-1 |-> 0]
  /\ nread = 0 /\ nwrite = 0
  /\ readOpen = TRUE /\ writeOpen = TRUE
  /\ lock = None
  /\ refs = Proc
  /\ killed = {}
  /\ changed = {}
  /\ pc = [p \in Proc |-> "idle"]
  /\ len = [p \in Proc |-> 0]
  /\ done = [p \in Proc |-> 0]
  /\ sent = <<>> /\ rcvd = <<>>

Goto(p, l) == pc' = [pc EXCEPT ![p] = l]

(* The processes that CondVar::notify reaches on reader_cond, writer_cond. *)
WaitingReaders == {p \in Proc : pc[p] = "rwait"}
WaitingWriters == {p \in Proc : pc[p] = "wwait"}
NotifyReaders == changed' = changed \cup WaitingReaders
NotifyWriters == changed' = changed \cup WaitingWriters

(* The call returns and drops the guard.                                   *)
Return(p) ==
  /\ lock' = None
  /\ Goto(p, "idle")
  /\ len' = [len EXCEPT ![p] = 0]
  /\ done' = [done EXCEPT ![p] = 0]

(* CondVar::wait: a killed process returns at once with an error.          *)
WaitOn(p, l) ==
  IF p \in killed
  THEN Return(p)
  ELSE lock' = None /\ Goto(p, l) /\ UNCHANGED <<len, done>>

-----------------------------------------------------------------------------
(* write.                                                                  *)

WriteCall(p, n) ==
  /\ p \in (Writer \cap refs) \ killed /\ pc[p] = "idle"
  /\ nwrite < MaxStart
  /\ len' = [len EXCEPT ![p] = n]
  /\ done' = [done EXCEPT ![p] = 0]
  /\ Goto(p, "wlock")
  /\ UNCHANGED <<ring, ends, lock, killed, changed>>

Acquire(p) ==
  /\ pc[p] \in {"wlock", "rlock"}
  /\ lock = None
  /\ lock' = p
  /\ Goto(p, IF pc[p] = "wlock" THEN "write" ELSE "read")
  /\ UNCHANGED <<ring, ends, killed, changed, len, done>>

(* The read end is gone: what was written counts, else BrokenPipe.         *)
WriteBroken(p) ==
  /\ pc[p] = "write" /\ done[p] < len[p]
  /\ ~ readOpen
  /\ IF done[p] > 0 THEN NotifyReaders ELSE UNCHANGED changed
  /\ Return(p)
  /\ UNCHANGED <<ring, ends, killed>>

Full == nwrite = nread + PipeSize

(* The pipe is full: wake the readers and wait.                            *)
WriteFull(p) ==
  /\ pc[p] = "write" /\ done[p] < len[p]
  /\ readOpen /\ Full
  /\ NotifyReaders
  /\ WaitOn(p, "wwait")
  /\ UNCHANGED <<ring, ends, killed>>

WriteByte(p, b) ==
  /\ pc[p] = "write" /\ done[p] < len[p]
  /\ readOpen /\ ~ Full
  /\ data' = [data EXCEPT ![nwrite % PipeSize] = b]
  /\ nwrite' = nwrite + 1
  /\ done' = [done EXCEPT ![p] = @ + 1]
  /\ sent' = Append(sent, b)
  /\ UNCHANGED <<nread, rcvd, ends, lock, killed, changed, pc, len>>

WriteEnd(p) ==
  /\ pc[p] = "write" /\ done[p] = len[p]
  /\ NotifyReaders
  /\ Return(p)
  /\ UNCHANGED <<ring, ends, killed>>

-----------------------------------------------------------------------------
(* read.                                                                   *)

ReadCall(p, n) ==
  /\ p \in (Reader \cap refs) \ killed /\ pc[p] = "idle"
  /\ len' = [len EXCEPT ![p] = n]
  /\ done' = [done EXCEPT ![p] = 0]
  /\ Goto(p, "rlock")
  /\ UNCHANGED <<ring, ends, lock, killed, changed>>

Empty == nread = nwrite

ReadEmpty(p) ==
  /\ pc[p] = "read"
  /\ Empty /\ writeOpen
  /\ WaitOn(p, "rwait")
  /\ UNCHANGED <<ring, ends, killed, changed>>

ReadReady(p) ==
  /\ pc[p] = "read"
  /\ ~ Empty \/ ~ writeOpen
  /\ Goto(p, "copy")
  /\ UNCHANGED <<ring, ends, lock, killed, changed, len, done>>

ReadByte(p) ==
  /\ pc[p] = "copy" /\ done[p] < len[p]
  /\ ~ Empty
  /\ nread' = nread + 1
  /\ done' = [done EXCEPT ![p] = @ + 1]
  /\ rcvd' = Append(rcvd, data[nread % PipeSize])
  /\ UNCHANGED <<data, nwrite, sent, ends, lock, killed, changed, pc, len>>

(* Faulty variant: writers are woken only by a read that filled its buffer.*)
ReadEndShort(p) ==
  /\ pc[p] = "copy" /\ (done[p] = len[p] \/ Empty)
  /\ IF done[p] = len[p] THEN NotifyWriters ELSE UNCHANGED changed
  /\ Return(p)
  /\ UNCHANGED <<ring, ends, killed>>

ReadEnd(p) ==
  /\ pc[p] = "copy" /\ (done[p] = len[p] \/ Empty)
  /\ NotifyWriters
  /\ Return(p)
  /\ UNCHANGED <<ring, ends, killed>>

-----------------------------------------------------------------------------
(* The end of a wait, close, kill.                                         *)

(* Notified: back to the loop with the lock; a kill that comes after the   *)
(* process looked at its killed flag goes unnoticed.                       *)
Woken(p) ==
  /\ pc[p] \in {"wwait", "rwait"} /\ p \in changed
  /\ lock = None
  /\ lock' = p
  /\ changed' = changed \ {p}
  /\ Goto(p, IF pc[p] = "wwait" THEN "write" ELSE "read")
  /\ UNCHANGED <<ring, ends, killed, len, done>>

(* Killed: take the lock, return the error, drop the lock.                 *)
WokenKilled(p) ==
  /\ pc[p] \in {"wwait", "rwait"} /\ p \in killed
  /\ lock = None
  /\ changed' = changed \ {p}
  /\ Return(p)
  /\ UNCHANGED <<ring, ends, killed>>

(* Faulty variant: close tells nobody.                                     *)
CloseQuietly(p) ==
  /\ p \in refs /\ pc[p] = "idle"
  /\ refs' = refs \ {p}
  /\ lock = None
  /\ readOpen' = (readOpen /\ refs' \cap Reader # {})
  /\ writeOpen' = (writeOpen /\ refs' \cap Writer # {})
  /\ UNCHANGED <<ring, lock, killed, changed, pc, len, done>>

(* FileData::drop: the last file of an end closes it; a call in progress   *)
(* holds a file.                                                           *)
Close(p) ==
  /\ p \in refs /\ pc[p] = "idle"
  /\ refs' = refs \ {p}
  /\ lock = None
  /\ readOpen' = (readOpen /\ refs' \cap Reader # {})
  /\ writeOpen' = (writeOpen /\ refs' \cap Writer # {})
  /\ changed' = CASE writeOpen' # writeOpen -> changed \cup WaitingReaders
                  [] readOpen' # readOpen -> changed \cup WaitingWriters
                  [] OTHER -> changed
  /\ UNCHANGED <<ring, lock, killed, pc, len, done>>

Kill(p) ==
  /\ p \in Killable \ killed
  /\ killed' = killed \cup {p}
  /\ UNCHANGED <<ring, ends, lock, changed, pc, len, done>>

-----------------------------------------------------------------------------
CallStep(p) ==
  \/ WriteBroken(p) \/ WriteFull(p) \/ WriteEnd(p) \/ \E b \in Byte : WriteByte(p, b)
  \/ ReadEmpty(p) \/ ReadReady(p) \/ ReadByte(p) \/ ReadEnd(p)

Next ==
  \E p \in Proc :
    \/ \E n \in Lens : WriteCall(p, n) \/ ReadCall(p, n)
    \/ CallStep(p) \/ Acquire(p) \/ Woken(p) \/ WokenKilled(p)
    \/ Close(p) \/ Kill(p)

Spec == Init /\ [][Next]_vars

(* Kernel code runs on, and a CPU spinning for the lock, on entry or after *)
(* a wakeup, gets it in the end.  Nobody is assumed to call read, write or *)
(* close.                                                                  *)
Fairness ==
  \A p \in Proc :
    WF_vars(CallStep(p)) /\ SF_vars(Acquire(p) \/ Woken(p) \/ WokenKilled(p))

FairSpec == Spec /\ Fairness

-----------------------------------------------------------------------------
(* Properties.                                                             *)

(* Every variable has its type.                                            *)
TypeOK ==
  /\ data \in [0..PipeSize-1 -> Byte]
  /\ nread \in Nat /\ nwrite \in Nat
  /\ readOpen \in BOOLEAN /\ writeOpen \in BOOLEAN
  /\ lock \in Proc \cup {None}
  /\ refs \subseteq Proc
  /\ killed \subseteq Proc
  /\ changed \subseteq Proc
  /\ pc \in [Proc -> PC]
  /\ len \in [Proc -> Nat]
  /\ done \in [Proc -> Nat]
  /\ sent \in Seq(Byte) /\ rcvd \in Seq(Byte)

(* What the readers got is what the writers wrote, in order and without    *)
(* loss or repetition, whoever took turns on either side.                  *)
Fifo ==
  /\ Len(rcvd) <= Len(sent)
  /\ \A k \in 1..Len(rcvd) : rcvd[k] = sent[k]

(* The ring holds the unread bytes at their positions modulo PIPE_SIZE.    *)
RingHoldsUnread ==
  /\ Len(sent) = nwrite /\ Len(rcvd) = nread
  /\ nread <= nwrite /\ nwrite <= nread + PipeSize
  /\ \A k \in nread..nwrite-1 : data[k % PipeSize] = sent[k+1]

(* The loops run under the lock.                                           *)
LockDiscipline ==
  /\ \A p \in Proc : pc[p] \in {"write", "read", "copy"} <=> lock = p
  /\ \A p \in Proc : pc[p] \in {"wlock", "write", "wwait"} => p \in Writer
  /\ \A p \in Proc : pc[p] \in {"rlock", "read", "copy", "rwait"} => p \in Reader
  /\ \A p \in Proc : pc[p] # "idle" => p \in refs
  /\ readOpen <=> refs \cap Reader # {}
  /\ writeOpen <=> refs \cap Writer # {}

(* Nobody sleeps through what they wait for: when the lock is free, a      *)
(* waiting reader that was not notified faces an empty open pipe, a        *)
(* waiting writer a full open one; so both are never asleep together.      *)
SleepersHaveReason ==
  /\ \A p \in Proc : pc[p] = "rwait" /\ p \notin changed =>
       (Empty /\ writeOpen) \/ (lock # None /\ pc[lock] = "write" /\ done[lock] > 0)
  /\ \A p \in Proc : pc[p] = "wwait" /\ p \notin changed =>
       (Full /\ readOpen) \/ (lock # None /\ pc[lock] = "copy")

(* The inductive invariant of pipe/mod.rs: what was read is a prefix of    *)
(* what was written (Fifo), the ring holds the unread bytes at their       *)
(* places, the read and write loops run under the lock, and nobody sleeps  *)
(* without a reason.                                                       *)
PipeInv == TypeOK /\ Fifo /\ RingHoldsUnread /\ LockDiscipline /\ SleepersHaveReason

(* The last close of the other end reaches everybody who is blocked.       *)
CloseUnblocks ==
  /\ \A p \in Reader : pc[p] = "rwait" /\ ~ writeOpen ~> pc[p] = "idle"
  /\ \A p \in Writer : pc[p] = "wwait" /\ ~ readOpen ~> pc[p] = "idle"

(* A killed process returns from a blocked read or write.                  *)
KilledCallReturns ==
  \A p \in Killable : p \in killed /\ pc[p] \in {"rwait", "wwait"} ~> pc[p] = "idle"

(* Calls of a pipe return once the other end is closed or their process    *)
(* killed.                                                                 *)
CallsEnd == CloseUnblocks /\ KilledCallReturns
=============================================================================
