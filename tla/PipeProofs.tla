----------------------------- MODULE PipeProofs -----------------------------
(***************************************************************************)
(* The pipe is a FIFO and nobody sleeps through what they wait for, for    *)
(* every PIPE_SIZE and any readers and writers.  Then the file table: its  *)
(* open files keep the ends of the pipes.                                  *)
(***************************************************************************)
EXTENDS Pipe, FileTable, TLAPS

(* Arithmetic of the ring: two positions less than PIPE_SIZE apart have    *)
(* different indexes.                                                      *)
LEMMA DivMod ==
  ASSUME NEW n \in Nat \ {0}, NEW k \in Nat
  PROVE  /\ k % n \in 0..n-1
         /\ k \div n \in Nat
         /\ k = n * (k \div n) + (k % n)
OBVIOUS

LEMMA Multiples ==
  ASSUME NEW n \in Nat \ {0}, NEW a \in Nat, NEW b \in Nat
  PROVE  /\ a < b => n * a + n <= n * b
         /\ b <= a => n * b <= n * a
         /\ n * a \in Nat
OBVIOUS

LEMMA ModDistinct ==
  ASSUME NEW n \in Nat \ {0}, NEW j \in Nat, NEW k \in Nat, j < k, k < j + n
  PROVE  j % n # k % n
<1> SUFFICES ASSUME j % n = k % n PROVE FALSE
  OBVIOUS
<1> DEFINE a == j \div n
           b == k \div n
           r == k % n
<1>1. a \in Nat /\ b \in Nat /\ r \in Nat /\ j = n * a + r /\ k = n * b + r
  <2>1. j = n * (j \div n) + (j % n) /\ j \div n \in Nat
    BY DivMod, Zenon
  <2>2. k = n * (k \div n) + (k % n) /\ k \div n \in Nat
    BY DivMod, Zenon
  <2>3. k % n \in Nat
    BY DivMod
  <2> QED BY <2>1, <2>2, <2>3
<1> HIDE DEF a, b, r
<1>2. n * a \in Nat /\ n * b \in Nat
  BY <1>1, Multiples
<1>3. CASE a < b
  <2>1. n * a + n <= n * b
    BY <1>1, <1>3, Multiples
  <2> QED BY <1>1, <1>2, <2>1
<1>4. CASE b <= a
  <2>1. n * b <= n * a
    BY <1>1, <1>4, Multiples
  <2> QED BY <1>1, <1>2, <2>1
<1> QED BY <1>1, <1>3, <1>4

LEMMA InitInv == Init => PipeInv
<1> SUFFICES ASSUME Init PROVE PipeInv
  OBVIOUS
<1>1. TypeOK
  BY ConstAssumption DEF Init, TypeOK, PC, Proc
<1>2. Fifo /\ RingHoldsUnread
  BY ConstAssumption DEF Init, Fifo, RingHoldsUnread
<1>3. LockDiscipline /\ SleepersHaveReason
  BY ConstAssumption DEF Init, LockDiscipline, SleepersHaveReason, Proc
<1> QED BY <1>1, <1>2, <1>3 DEF PipeInv

-----------------------------------------------------------------------------
LEMMA ReturnType ==
  ASSUME TypeOK, NEW p \in Proc, Return(p)
  PROVE  /\ lock' \in Proc \cup {None} /\ pc' \in [Proc -> PC]
         /\ len' \in [Proc -> Nat] /\ done' \in [Proc -> Nat]
<1>1. lock' \in Proc \cup {None}
  BY DEF Return
<1>2. pc' \in [Proc -> PC]
  BY DEF Return, Goto, TypeOK, PC
<1>3. len' \in [Proc -> Nat]
  BY DEF Return, TypeOK
<1>4. done' \in [Proc -> Nat]
  BY DEF Return, TypeOK
<1> QED BY <1>1, <1>2, <1>3, <1>4

LEMMA WaitOnType ==
  ASSUME TypeOK, NEW p \in Proc, NEW l \in PC, WaitOn(p, l)
  PROVE  /\ lock' \in Proc \cup {None} /\ pc' \in [Proc -> PC]
         /\ len' \in [Proc -> Nat] /\ done' \in [Proc -> Nat]
<1>1. CASE Return(p)
  BY <1>1, ReturnType
<1>2. CASE lock' = None /\ Goto(p, l) /\ UNCHANGED <<len, done>>
  BY <1>2 DEF Goto, TypeOK
<1> QED BY <1>1, <1>2 DEF WaitOn

(* Every step keeps the types.                                             *)
LEMMA TypeStep == TypeOK /\ [Next]_vars => TypeOK'
<1> SUFFICES ASSUME TypeOK, [Next]_vars PROVE TypeOK'
  OBVIOUS
<1> USE ConstAssumption DEF PC, NotifyReaders, NotifyWriters,
        WaitingReaders, WaitingWriters, ring, ends
<1>1. CASE UNCHANGED vars
  BY <1>1 DEF vars, TypeOK
<1>2. ASSUME NEW p \in Proc, NEW n \in Lens, WriteCall(p, n) \/ ReadCall(p, n) PROVE TypeOK'
  <2>1. n \in Nat
    OBVIOUS
  <2>2. pc' \in [Proc -> PC]
    BY <1>2 DEF WriteCall, ReadCall, Goto, TypeOK
  <2>3. len' = [len EXCEPT ![p] = n] /\ done' = [done EXCEPT ![p] = 0]
    BY <1>2 DEF WriteCall, ReadCall
  <2>4. len' \in [Proc -> Nat]
    BY <2>1, <2>3 DEF TypeOK
  <2>5. done' \in [Proc -> Nat]
    BY <2>3 DEF TypeOK
  <2> QED BY <1>2, <2>2, <2>4, <2>5, Zenon DEF WriteCall, ReadCall, TypeOK
<1>3. ASSUME NEW p \in Proc, Acquire(p) \/ Woken(p) \/ Kill(p) PROVE TypeOK'
  BY <1>3, Zenon DEF Acquire, Woken, Kill, Goto, TypeOK
<1>4. ASSUME NEW p \in Proc, WriteBroken(p) \/ WriteEnd(p) \/ ReadEnd(p) \/ WokenKilled(p)
      PROVE TypeOK'
  <2>1. Return(p)
    BY <1>4 DEF WriteBroken, WriteEnd, ReadEnd, WokenKilled
  <2> QED BY <1>4, <2>1, ReturnType, Zenon DEF WriteBroken, WriteEnd, ReadEnd, WokenKilled, TypeOK
<1>5. ASSUME NEW p \in Proc, NEW b \in Byte, WriteByte(p, b) PROVE TypeOK'
  <2>1. nwrite % PipeSize \in 0..PipeSize-1
    BY DivMod DEF TypeOK
  <2>2. Append(sent, b) \in Seq(Byte)
    BY DEF TypeOK
  <2> QED BY <1>5, <2>1, <2>2 DEF WriteByte, TypeOK
<1>6. ASSUME NEW p \in Proc, WriteFull(p) \/ ReadEmpty(p) PROVE TypeOK'
  <2>1. WaitOn(p, "wwait") \/ WaitOn(p, "rwait")
    BY <1>6 DEF WriteFull, ReadEmpty
  <2> QED BY <1>6, <2>1, WaitOnType, Zenon DEF WriteFull, ReadEmpty, TypeOK
<1>7. ASSUME NEW p \in Proc, ReadReady(p) PROVE TypeOK'
  BY <1>7 DEF ReadReady, Goto, TypeOK
<1>8. ASSUME NEW p \in Proc, ReadByte(p) PROVE TypeOK'
  <2>1. nread % PipeSize \in 0..PipeSize-1
    BY DivMod DEF TypeOK
  <2>2. Append(rcvd, data[nread % PipeSize]) \in Seq(Byte)
    BY <2>1 DEF TypeOK
  <2> QED BY <1>8, <2>2 DEF ReadByte, TypeOK
<1>9. ASSUME NEW p \in Proc, Close(p) PROVE TypeOK'
  <2>1. readOpen' \in BOOLEAN /\ writeOpen' \in BOOLEAN
    BY <1>9 DEF Close, TypeOK
  <2>2. changed' \subseteq Proc
    BY <1>9 DEF Close, TypeOK
  <2> QED BY <1>9, <2>1, <2>2, Zenon DEF Close, TypeOK
<1> QED BY <1>1, <1>2, <1>3, <1>4, <1>5, <1>6, <1>7, <1>8, <1>9 DEF Next, CallStep

-----------------------------------------------------------------------------
(* Only the copying steps touch the ring.                                  *)
LEMMA RingStep == PipeInv /\ [Next]_vars => Fifo' /\ RingHoldsUnread'
<1> SUFFICES ASSUME PipeInv, [Next]_vars PROVE Fifo' /\ RingHoldsUnread'
  OBVIOUS
<1>t. TypeOK /\ Fifo /\ RingHoldsUnread /\ PipeSize \in Nat \ {0}
  BY ConstAssumption DEF PipeInv
<1>1. CASE UNCHANGED ring
  BY <1>1, <1>t DEF ring, Fifo, RingHoldsUnread
<1>2. ASSUME NEW p \in Proc, NEW b \in Byte, WriteByte(p, b) PROVE Fifo' /\ RingHoldsUnread'
  <2>1. /\ nwrite < nread + PipeSize /\ nwrite' = nwrite + 1
        /\ sent' = Append(sent, b) /\ UNCHANGED <<nread, rcvd>>
        /\ data' = [data EXCEPT ![nwrite % PipeSize] = b]
    BY <1>2, <1>t DEF WriteByte, Full, TypeOK, RingHoldsUnread
  <2>2. Len(sent') = nwrite' /\ sent'[nwrite + 1] = b /\ \A k \in 1..nwrite : sent'[k] = sent[k]
    BY <2>1, <1>t DEF TypeOK, RingHoldsUnread
  <2>3. Fifo'
    BY <2>1, <2>2, <1>t DEF Fifo, RingHoldsUnread, TypeOK
  <2>4. nwrite % PipeSize \in 0..PipeSize-1
    BY <1>t, DivMod DEF TypeOK
  <2>5. ASSUME NEW k \in nread..nwrite PROVE data'[k % PipeSize] = sent'[k+1]
    <3>1. k \in Nat /\ k < nread + PipeSize
      BY <2>1, <1>t DEF TypeOK
    <3>2. CASE k = nwrite
      BY <3>2, <2>1, <2>2, <2>4, <1>t DEF TypeOK
    <3>3. CASE k < nwrite
      <4>1. k % PipeSize # nwrite % PipeSize
        <5>1. nwrite < k + PipeSize /\ nwrite \in Nat
          BY <2>1, <3>1, <1>t DEF TypeOK
        <5> QED BY <5>1, <3>1, <3>3, <1>t, ModDistinct, Zenon
      <4>2. k % PipeSize \in 0..PipeSize-1
        BY <3>1, <1>t, DivMod
      <4>3. data'[k % PipeSize] = data[k % PipeSize]
        BY <4>1, <4>2, <2>1, <2>4, <1>t DEF TypeOK
      <4>4. data[k % PipeSize] = sent[k+1]
        <5>1. k \in nread..nwrite-1
          BY <3>1, <3>3, <1>t DEF TypeOK
        <5> QED BY <5>1, <1>t DEF RingHoldsUnread
      <4>5. sent'[k+1] = sent[k+1]
        <5>1. k + 1 \in 1..nwrite
          BY <3>1, <3>3, <1>t DEF TypeOK
        <5> QED BY <2>2, <5>1
      <4> QED BY <4>3, <4>4, <4>5
    <3> QED
      <4>1. k \in Nat /\ nwrite \in Nat /\ k <= nwrite
        BY <1>t DEF TypeOK
      <4> QED BY <4>1, <3>2, <3>3
  <2>6. nwrite' - 1 = nwrite /\ nread' = nread
    BY <2>1, <1>t DEF TypeOK
  <2>7. \A k \in nread'..nwrite'-1 : data'[k % PipeSize] = sent'[k+1]
    BY <2>5, <2>6
  <2>8. Len(rcvd') = nread' /\ nread' <= nwrite' /\ nwrite' <= nread' + PipeSize
    BY <2>1, <1>t DEF RingHoldsUnread, TypeOK
  <2> QED BY <2>2, <2>3, <2>7, <2>8 DEF RingHoldsUnread
<1>3. ASSUME NEW p \in Proc, ReadByte(p) PROVE Fifo' /\ RingHoldsUnread'
  <2> DEFINE c == data[nread % PipeSize]
  <2>1. /\ nread < nwrite /\ nread' = nread + 1
        /\ rcvd' = Append(rcvd, c) /\ UNCHANGED <<nwrite, sent, data>>
    BY <1>3, <1>t DEF ReadByte, Empty, TypeOK, RingHoldsUnread
  <2>2. c = sent[nread + 1] /\ nread \in Nat
    BY <2>1, <1>t DEF TypeOK, RingHoldsUnread
  <2> HIDE DEF c
  <2>3. Len(rcvd') = nread' /\ rcvd'[nread + 1] = c /\ \A k \in 1..nread : rcvd'[k] = rcvd[k]
    <3>1. rcvd \in Seq(Byte) /\ Len(rcvd) = nread BY <1>t DEF TypeOK, RingHoldsUnread
    <3> QED BY <2>1, <2>2, <3>1
  <2>4. Fifo'
    BY <2>1, <2>2, <2>3, <1>t DEF Fifo, RingHoldsUnread, TypeOK
  <2>5. \A k \in nread'..nwrite'-1 : data'[k % PipeSize] = sent'[k+1]
    <3>1. \A k \in nread..nwrite-1 : data[k % PipeSize] = sent[k+1]
      BY <1>t DEF RingHoldsUnread
    <3>2. \A k \in nread+1..nwrite-1 : k \in nread..nwrite-1
      BY <1>t DEF TypeOK
    <3> QED BY <2>1, <3>1, <3>2
  <2>6. Len(sent') = nwrite' /\ nread' <= nwrite' /\ nwrite' <= nread' + PipeSize
    BY <2>1, <1>t DEF RingHoldsUnread, TypeOK
  <2> QED BY <2>3, <2>4, <2>5, <2>6 DEF RingHoldsUnread
<1>4. ASSUME NEW p \in Proc,
             \/ \E n \in Lens : WriteCall(p, n) \/ ReadCall(p, n)
             \/ WriteBroken(p) \/ WriteFull(p) \/ WriteEnd(p)
             \/ ReadEmpty(p) \/ ReadReady(p) \/ ReadEnd(p)
             \/ Acquire(p) \/ Woken(p) \/ WokenKilled(p) \/ Close(p) \/ Kill(p)
      PROVE UNCHANGED ring
  BY <1>4 DEF WriteCall, ReadCall, WriteBroken, WriteFull, WriteEnd, ReadEmpty, ReadReady,
     ReadEnd, Acquire, Woken, WokenKilled, Close, Kill
<1> QED BY <1>1, <1>2, <1>3, <1>4 DEF Next, CallStep, vars

-----------------------------------------------------------------------------
(* A process that moves on keeps the discipline when it has the lock where *)
(* a loop runs, gives it up elsewhere, and stays in its role.              *)
LEMMA Moved ==
  ASSUME TypeOK, LockDiscipline, NEW p \in Proc, NEW l \in PC,
         pc' = [pc EXCEPT ![p] = l], UNCHANGED ends,
         lock \in {None, p} \/ (lock' = lock /\ pc[p] \notin {"write", "read", "copy"}),
         l \in {"write", "read", "copy"} => lock' = p,
         l \notin {"write", "read", "copy"} => lock' = IF lock = p THEN None ELSE lock,
         l \in {"wlock", "write", "wwait"} => p \in Writer,
         l \in {"rlock", "read", "copy", "rwait"} => p \in Reader,
         l # "idle" => p \in refs
  PROVE LockDiscipline'
<1>1. pc \in [Proc -> PC] BY DEF TypeOK
<1>2. pc'[p] = l /\ \A q \in Proc \ {p} : pc'[q] = pc[q] BY <1>1
<1>3. None \notin Proc BY ConstAssumption
<1>4. ASSUME NEW q \in Proc PROVE pc'[q] \in {"write", "read", "copy"} <=> lock' = q
  <2>1. CASE q = p BY <1>2, <1>3, <2>1
  <2>2. CASE q # p
    <3>1. pc[q] \in {"write", "read", "copy"} <=> lock = q BY DEF LockDiscipline
    <3>2. lock' = q <=> lock = q BY <1>3, <2>2
    <3> QED BY <1>2, <2>2, <3>1, <3>2
  <2> QED BY <2>1, <2>2
<1> QED BY <1>2, <1>4 DEF LockDiscipline, ends

(* The lock, the roles and the open flags.                                 *)
LEMMA LockStep == PipeInv /\ [Next]_vars => LockDiscipline'
<1> SUFFICES ASSUME PipeInv, [Next]_vars PROVE LockDiscipline'
  OBVIOUS
<1>t. TypeOK /\ LockDiscipline BY DEF PipeInv
<1>l. /\ \A p \in Proc : pc[p] \in {"write", "read", "copy"} <=> lock = p
      /\ \A p \in Proc : pc[p] \in {"wlock", "write", "wwait"} => p \in Writer
      /\ \A p \in Proc : pc[p] \in {"rlock", "read", "copy", "rwait"} => p \in Reader
      /\ \A p \in Proc : pc[p] # "idle" => p \in refs
  BY <1>t DEF LockDiscipline
<1>1. ASSUME UNCHANGED <<ends, lock, pc>> PROVE LockDiscipline'
  BY <1>1, <1>t DEF LockDiscipline, ends
<1>2. ASSUME NEW p \in Proc, NEW n \in Lens, WriteCall(p, n) \/ ReadCall(p, n)
      PROVE LockDiscipline'
  <2>1. /\ pc[p] = "idle" /\ UNCHANGED <<ends, lock>>
        /\ \E l \in {"wlock", "rlock"} :
             /\ pc' = [pc EXCEPT ![p] = l] /\ p \in refs
             /\ l = "wlock" => p \in Writer
             /\ l = "rlock" => p \in Reader
    BY <1>2 DEF WriteCall, ReadCall, Goto
  <2> QED BY <1>t, <1>l, <2>1, Moved, Zenon DEF PC
<1>3. ASSUME NEW p \in Proc, Acquire(p) \/ Woken(p) PROVE LockDiscipline'
  <2>1. /\ pc[p] \in {"wlock", "rlock", "wwait", "rwait"} /\ UNCHANGED ends
        /\ lock = None /\ lock' = p
        /\ pc' = [pc EXCEPT ![p] = IF pc[p] \in {"wlock", "wwait"} THEN "write" ELSE "read"]
    BY <1>3 DEF Acquire, Woken, Goto
  <2> QED BY <1>t, <1>l, <2>1, Moved, Zenon DEF PC
<1>4. ASSUME NEW p \in Proc, WriteBroken(p) \/ WriteEnd(p) \/ ReadEnd(p) \/ WokenKilled(p)
      PROVE LockDiscipline'
  <2>1. /\ pc[p] \in {"write", "copy"} \/ lock = None
        /\ lock' = None /\ pc' = [pc EXCEPT ![p] = "idle"] /\ UNCHANGED ends
    BY <1>4 DEF WriteBroken, WriteEnd, ReadEnd, WokenKilled, Return, Goto
  <2> QED BY <1>t, <1>l, <2>1, Moved, Zenon DEF PC
<1>5. ASSUME NEW p \in Proc, (\E b \in Byte : WriteByte(p, b)) \/ ReadByte(p) \/ Kill(p)
      PROVE LockDiscipline'
  BY <1>1, <1>5 DEF WriteByte, ReadByte, Kill
<1>6. ASSUME NEW p \in Proc, WriteFull(p) \/ ReadEmpty(p) PROVE LockDiscipline'
  <2>1. /\ pc[p] \in {"write", "read"} /\ lock' = None /\ UNCHANGED ends
        /\ \E l \in {"idle", "wwait", "rwait"} :
             /\ pc' = [pc EXCEPT ![p] = l]
             /\ l = "wwait" => pc[p] = "write"
             /\ l = "rwait" => pc[p] = "read"
    BY <1>6 DEF WriteFull, ReadEmpty, WaitOn, Return, Goto
  <2> QED BY <1>t, <1>l, <2>1, Moved, Zenon DEF PC
<1>7. ASSUME NEW p \in Proc, ReadReady(p) PROVE LockDiscipline'
  <2>1. pc[p] = "read" /\ pc' = [pc EXCEPT ![p] = "copy"] /\ UNCHANGED <<ends, lock>>
    BY <1>7 DEF ReadReady, Goto
  <2> QED BY <1>t, <1>l, <2>1, Moved, Zenon DEF PC
<1>8. ASSUME NEW p \in Proc, Close(p) PROVE LockDiscipline'
  <2>1. /\ pc[p] = "idle" /\ refs' = refs \ {p} /\ UNCHANGED <<lock, pc>>
        /\ readOpen' = (readOpen /\ refs' \cap Reader # {})
        /\ writeOpen' = (writeOpen /\ refs' \cap Writer # {})
    BY <1>8 DEF Close
  <2>2. (readOpen <=> refs \cap Reader # {}) /\ (writeOpen <=> refs \cap Writer # {})
    BY <1>t DEF LockDiscipline
  <2>3. readOpen' <=> refs' \cap Reader # {} BY <2>1, <2>2, Zenon
  <2>4. writeOpen' <=> refs' \cap Writer # {} BY <2>1, <2>2, Zenon
  <2> QED BY <1>l, <2>1, <2>3, <2>4 DEF LockDiscipline
<1>9. CASE UNCHANGED vars BY <1>1, <1>9 DEF vars
<1> QED BY <1>2, <1>3, <1>4, <1>5, <1>6, <1>7, <1>8, <1>9 DEF Next, CallStep

(* Who sleeps, sleeps for a reason.                                        *)
LEMMA SleepStep == PipeInv /\ [Next]_vars => SleepersHaveReason'
<1> SUFFICES ASSUME PipeInv, [Next]_vars PROVE SleepersHaveReason'
  OBVIOUS
<1> USE ConstAssumption DEF PipeInv, TypeOK, LockDiscipline, SleepersHaveReason, PC, Goto,
        Return, Empty, Full, ring, ends, NotifyReaders, NotifyWriters, WaitingReaders,
        WaitingWriters
<1>1. CASE UNCHANGED vars
  BY <1>1 DEF vars
<1>2. ASSUME NEW p \in Proc, NEW n \in Lens, WriteCall(p, n) \/ ReadCall(p, n)
      PROVE SleepersHaveReason'
  <2>1. CASE WriteCall(p, n)
    BY <2>1 DEF WriteCall
  <2>2. CASE ReadCall(p, n)
    BY <2>2 DEF ReadCall
  <2> QED BY <1>2, <2>1, <2>2
<1>3. ASSUME NEW p \in Proc, Acquire(p) \/ Woken(p)
      PROVE SleepersHaveReason'
  <2>1. CASE Acquire(p)
    BY <2>1 DEF Acquire
  <2>2. CASE Woken(p)
    BY <2>2 DEF Woken
  <2> QED BY <1>3, <2>1, <2>2
<1>4. ASSUME NEW p \in Proc, WriteBroken(p) \/ WriteEnd(p)
      PROVE SleepersHaveReason'
  <2>1. CASE WriteBroken(p)
    BY <2>1 DEF WriteBroken
  <2>2. CASE WriteEnd(p)
    BY <2>2 DEF WriteEnd
  <2> QED BY <1>4, <2>1, <2>2
<1>5. ASSUME NEW p \in Proc, ReadEnd(p) \/ WokenKilled(p)
      PROVE SleepersHaveReason'
  <2>1. CASE ReadEnd(p)
    BY <2>1 DEF ReadEnd
  <2>2. CASE WokenKilled(p)
    BY <2>2 DEF WokenKilled
  <2> QED BY <1>5, <2>1, <2>2, Zenon
<1>6. ASSUME NEW p \in Proc, NEW b \in Byte, WriteByte(p, b) PROVE SleepersHaveReason'
  BY <1>6 DEF WriteByte
<1>7. ASSUME NEW p \in Proc, ReadByte(p) PROVE SleepersHaveReason'
  BY <1>7 DEF ReadByte
<1>8. ASSUME NEW p \in Proc, WriteFull(p) PROVE SleepersHaveReason'
  BY <1>8 DEF WriteFull, WaitOn
<1>9. ASSUME NEW p \in Proc, ReadEmpty(p) PROVE SleepersHaveReason'
  <2>1. /\ pc[p] = "read" /\ nread = nwrite /\ writeOpen /\ lock' = None
        /\ pc' = [pc EXCEPT ![p] = "idle"] \/ pc' = [pc EXCEPT ![p] = "rwait"]
        /\ UNCHANGED <<nread, nwrite, writeOpen, readOpen, changed>>
    BY <1>9 DEF ReadEmpty, WaitOn
  <2> QED BY <2>1, Zenon
<1>10. ASSUME NEW p \in Proc, ReadReady(p) PROVE SleepersHaveReason'
  BY <1>10 DEF ReadReady
<1>11. ASSUME NEW p \in Proc, Close(p) PROVE SleepersHaveReason'
  BY <1>11, Zenon DEF Close
<1>12. ASSUME NEW p \in Proc, Kill(p) PROVE SleepersHaveReason'
  BY <1>12 DEF Kill
<1> HIDE DEF PipeInv, SleepersHaveReason, Goto, Return
<1> QED BY <1>1, <1>2, <1>3, <1>4, <1>5, <1>6, <1>7, <1>8, <1>9, <1>10, <1>11, <1>12
     DEF Next, CallStep

-----------------------------------------------------------------------------
(* The inductive invariant of the pipe: the ring holds exactly the unread  *)
(* bytes, the loops of read and write run under the lock, and whoever      *)
(* waits has a reason to.                                                  *)
THEOREM PipeInvariant == Spec => []PipeInv
<1>1. PipeInv /\ [Next]_vars => PipeInv'
  BY TypeStep, RingStep, LockStep, SleepStep DEF PipeInv
<1> QED BY InitInv, <1>1, PTL DEF Spec

(* Readers get what writers wrote, in order, for every ring size, number   *)
(* of readers and writers, and lengths of their buffers.                   *)
THEOREM PipeIsFifo == Spec => []Fifo
<1>1. PipeInv => Fifo
  BY DEF PipeInv
<1> QED BY PipeInvariant, <1>1, PTL

-----------------------------------------------------------------------------
(* The rows of descriptors, and one descriptor set.                        *)
Rows == [Procs -> [FDs -> 0..NFile]]

Sets(g, f, p, d, i) == g = [f EXCEPT ![p][d] = i]

(* Writing one descriptor changes that descriptor and no other.            *)
RowIs(g, f, p, d, i) ==
  /\ g \in Rows /\ g[p][d] = i
  /\ \A e \in FDs \ {d} : g[p][e] = f[p][e]
  /\ \A q \in Procs \ {p} : g[q] = f[q]
LEMMA RowSet ==
  ASSUME NEW f \in Rows, NEW p \in Procs, NEW d \in FDs, NEW i \in 0..NFile, NEW g, Sets(g, f, p, d, i)
  PROVE  RowIs(g, f, p, d, i)
<1>1. f[p] \in [FDs -> 0..NFile]
  BY DEF Rows
<1>2. g[p] = [f[p] EXCEPT ![d] = i] /\ \A q \in Procs \ {p} : g[q] = f[q]
  BY DEF Rows, Sets
<1>3. g[p] \in [FDs -> 0..NFile]
  BY <1>1, <1>2
<1>4. g \in Rows
  BY <1>3 DEF Rows, Sets
<1> QED BY <1>1, <1>2, <1>4 DEF RowIs

(* A step of one process that lives keeps what the dead have closed.       *)
LEMMA DeadStays ==
  ASSUME DeadClosed, NEW p \in Procs, at'[p] # "dead",
         \A q \in Procs \ {p} : at'[q] = at[q] /\ pend'[q] = pend[q] /\ fd'[q] = fd[q]
  PROVE  DeadClosed'
<1>1. ASSUME NEW q \in Procs, at'[q] = "dead" PROVE pend'[q] = 0 /\ \A d \in FDs : fd'[q][d] = 0
  <2>1. q \in Procs \ {p}
    BY <1>1, Zenon
  <2>2. at[q] = "dead" /\ pend'[q] = pend[q] /\ fd'[q] = fd[q]
    BY <1>1, <2>1, Zenon
  <2> QED BY <2>2, Zenon DEF DeadClosed
<1> QED BY <1>1, Zenon DEF DeadClosed

(* A step that changes no open file and no reference keeps the accounts.   *)
LEMMA SameFiles ==
  ASSUME FilesAccounted, FileTypeOK', DeadClosed', UNCHANGED <<files, pipes>>,
         \A i \in 1..NFile : Referenced(i, fd', pend') <=> Referenced(i, fd, pend)
  PROVE  FilesAccounted'
<1>1. \A i \in 1..NFile : files'[i] # Unused <=> Referenced(i, fd', pend')
  BY Zenon DEF FilesAccounted
<1> QED BY <1>1, Zenon DEF FilesAccounted

(* A step that changes no reference at all.                                *)
LEMMA NoRefs ==
  ASSUME FilesAccounted, UNCHANGED <<fd, files, pend, pipes>>, NEW p \in Procs,
         NEW s \in {"user", "open", "nested", "exit"},
         at' = at \/ at' = [at EXCEPT ![p] = s], inTx' \in [Procs -> 0..1], calls' \in [Procs -> Nat]
  PROVE  FilesAccounted'
<1>1. FileTypeOK /\ DeadClosed
  BY Zenon DEF FilesAccounted
<1>2. at' \in [Procs -> {"user", "open", "nested", "exit", "dead"}]
  BY <1>1, Zenon DEF FileTypeOK
<1>3. FileTypeOK'
  BY <1>1, <1>2, Zenon DEF FileTypeOK
<1>4. \A q \in Procs : at'[q] = "dead" => at[q] = "dead"
  BY <1>1 DEF FileTypeOK
<1>5. DeadClosed'
  BY <1>1, <1>4, Zenon DEF DeadClosed
<1> QED BY <1>3, <1>5, SameFiles, Zenon

(* A call counts.                                                          *)
LEMMA Counted ==
  ASSUME FileTypeOK, NEW p \in Procs, MakesCall(p)
  PROVE  calls' \in [Procs -> Nat] /\ at[p] = "user" /\ pend[p] = 0
BY DEF FileTypeOK, MakesCall

(* open enters its transaction.                                            *)
LEMMA OpenBeginStep ==
  ASSUME FilesAccounted, NEW p \in Procs, OpenBegin(p)
  PROVE  FilesAccounted'
<1>1. FileTypeOK /\ MakesCall(p) /\ inTx' = [inTx EXCEPT ![p] = 1]
  BY Zenon DEF OpenBegin, FilesAccounted
<1>2. calls' \in [Procs -> Nat] /\ inTx' \in [Procs -> 0..1]
  BY <1>1, Counted DEF FileTypeOK
<1> QED BY <1>2, NoRefs, Zenon DEF OpenBegin

(* open gives up, before or after it has made an open file.                *)
LEMMA OpenFailsStep ==
  ASSUME FilesAccounted, NEW p \in Procs, OpenFails(p) \/ OpenNested(p)
  PROVE  FilesAccounted'
<1>1. FileTypeOK /\ calls' = calls /\ inTx' = [inTx EXCEPT ![p] = 0] /\ at' = [at EXCEPT ![p] = "user"]
  BY Zenon DEF OpenFails, OpenNested, FilesAccounted
<1>2. calls' \in [Procs -> Nat] /\ inTx' \in [Procs -> 0..1]
  BY <1>1 DEF FileTypeOK
<1> QED BY <1>1, <1>2, NoRefs, Zenon DEF OpenFails, OpenNested

(* pipe finds no room.                                                     *)
LEMMA PipeFailsStep ==
  ASSUME FilesAccounted, NEW p \in Procs, PipeFails(p)
  PROVE  FilesAccounted'
<1>1. FileTypeOK /\ MakesCall(p)
  BY Zenon DEF PipeFails, FilesAccounted
<1>2. calls' \in [Procs -> Nat] /\ inTx' \in [Procs -> 0..1]
  BY <1>1, Counted, Zenon DEF PipeFails, FileTypeOK
<1> QED BY <1>2, NoRefs, Zenon DEF PipeFails

(* exit begins: the descriptors are still there.                           *)
LEMMA ExitStep ==
  ASSUME FilesAccounted, NEW p \in Procs, Exit(p)
  PROVE  FilesAccounted'
<1>1. calls' \in [Procs -> Nat] /\ inTx' \in [Procs -> 0..1]
  BY Zenon DEF Exit, FileTypeOK, FilesAccounted
<1> QED BY <1>1, NoRefs, Zenon DEF Exit

(* dup: one more descriptor for a file that has one.                       *)
LEMMA DupStep ==
  ASSUME FilesAccounted, NEW p \in Procs, Dup(p)
  PROVE  FilesAccounted'
<1>1. FileTypeOK /\ DeadClosed /\ MakesCall(p) /\ UNCHANGED <<files, pend, at, inTx, pipes>>
  BY Zenon DEF Dup, FilesAccounted
<1>2. PICK d \in FDs, e \in FreeFds(p) : fd[p][d] # 0 /\ Sets(fd', fd, p, e, fd[p][d])
  BY Zenon DEF Dup, Sets
<1>3. fd \in Rows /\ e \in FDs /\ fd[p][e] = 0 /\ fd[p][d] \in 0..NFile
  BY <1>1 DEF FileTypeOK, Rows, FreeFds
<1>4. /\ fd' \in Rows /\ fd'[p][e] = fd[p][d]
      /\ \A x \in FDs \ {e} : fd'[p][x] = fd[p][x]
      /\ \A q \in Procs \ {p} : fd'[q] = fd[q]
  <2>1. RowIs(fd', fd, p, e, fd[p][d])
    BY <1>2, <1>3, RowSet, Zenon
  <2> QED BY <2>1, Zenon DEF RowIs
<1>5. calls' \in [Procs -> Nat] /\ at[p] = "user"
  BY <1>1, Counted, Zenon
<1>6. FileTypeOK'
  BY <1>1, <1>4, <1>5, Zenon DEF FileTypeOK, Rows
<1>7. DeadClosed'
  <2>1. at'[p] # "dead"
    BY <1>1, <1>5
  <2>2. \A q \in Procs \ {p} : at'[q] = at[q] /\ pend'[q] = pend[q] /\ fd'[q] = fd[q]
    BY <1>1, <1>4, Zenon
  <2> QED BY <1>1, <2>1, <2>2, DeadStays, Zenon
<1>8. ASSUME NEW i \in 1..NFile PROVE Referenced(i, fd', pend') <=> Referenced(i, fd, pend)
  <2>1. i # 0
    OBVIOUS
  <2>2. (\E x \in FDs : fd'[p][x] = i) <=> (\E x \in FDs : fd[p][x] = i)
    BY <1>3, <1>4, <2>1, Zenon
  <2>3. \A q \in Procs : (\E x \in FDs : fd'[q][x] = i) <=> (\E x \in FDs : fd[q][x] = i)
    BY <1>4, <2>2, Zenon
  <2> QED BY <1>1, <2>3, Zenon DEF Referenced
<1> QED BY <1>1, <1>6, <1>7, <1>8, SameFiles, Zenon

(* A descriptor moves to the pending drop of its process.                  *)
LEMMA FilesMoved ==
  ASSUME FilesAccounted, NEW p \in Procs, NEW d \in FDs, fd[p][d] # 0, pend[p] = 0, at[p] # "dead",
         pend' = [pend EXCEPT ![p] = fd[p][d]], Sets(fd', fd, p, d, 0),
         UNCHANGED <<files, at, inTx, pipes>>, calls' \in [Procs -> Nat], NFile \in Nat
  PROVE  FilesAccounted'
<1>1. FileTypeOK /\ DeadClosed
  BY Zenon DEF FilesAccounted
<1>2. fd \in Rows /\ fd[p][d] \in 0..NFile /\ 0 \in 0..NFile
  BY <1>1 DEF FileTypeOK, Rows
<1>3. /\ fd' \in Rows /\ fd'[p][d] = 0
      /\ \A x \in FDs \ {d} : fd'[p][x] = fd[p][x]
      /\ \A q \in Procs \ {p} : fd'[q] = fd[q]
  <2>1. RowIs(fd', fd, p, d, 0)
    BY <1>2, RowSet, Zenon
  <2> QED BY <2>1, Zenon DEF RowIs
<1>4. pend' \in [Procs -> 0..NFile] /\ pend'[p] = fd[p][d] /\ \A q \in Procs \ {p} : pend'[q] = pend[q]
  BY <1>1, <1>2 DEF FileTypeOK
<1>5. FileTypeOK'
  BY <1>1, <1>3, <1>4, Zenon DEF FileTypeOK, Rows
<1>6. DeadClosed'
  BY <1>1, <1>3, <1>4 DEF DeadClosed
<1>7. ASSUME NEW i \in 1..NFile PROVE Referenced(i, fd', pend') <=> Referenced(i, fd, pend)
  <2>1. i # 0
    OBVIOUS
  <2>2. (pend'[p] = i \/ \E x \in FDs : fd'[p][x] = i) <=> (pend[p] = i \/ \E x \in FDs : fd[p][x] = i)
    BY <1>3, <1>4, <2>1
  <2>3. \A q \in Procs : (pend'[q] = i \/ \E x \in FDs : fd'[q][x] = i) <=> (pend[q] = i \/ \E x \in FDs : fd[q][x] = i)
    BY <1>3, <1>4, <2>2, Zenon
  <2> QED BY <2>3, Zenon DEF Referenced
<1> QED BY <1>5, <1>6, <1>7, SameFiles, Zenon

(* close: the descriptor goes, its reference is dropped later.             *)
LEMMA CloseStep ==
  ASSUME NFile \in Nat, FilesAccounted, NEW p \in Procs, CloseFd(p)
  PROVE  FilesAccounted'
<1>1. FileTypeOK /\ MakesCall(p) /\ UNCHANGED <<files, at, inTx, pipes>>
  BY Zenon DEF CloseFd, FilesAccounted
<1>2. calls' \in [Procs -> Nat] /\ at[p] = "user" /\ pend[p] = 0
  BY <1>1, Counted, Zenon
<1>3. at[p] # "dead"
  BY <1>2
<1>4. PICK d \in FDs : fd[p][d] # 0 /\ pend' = [pend EXCEPT ![p] = fd[p][d]] /\ Sets(fd', fd, p, d, 0)
  BY Zenon DEF CloseFd, Sets
<1> QED BY <1>1, <1>2, <1>3, <1>4, FilesMoved, Zenon

(* exit takes the next descriptor, or is done when none is left.           *)
LEMMA ExitFileStep ==
  ASSUME NFile \in Nat, FilesAccounted, NEW p \in Procs, ExitFile(p)
  PROVE  FilesAccounted'
<1>1. FileTypeOK /\ DeadClosed /\ at[p] = "exit" /\ pend[p] = 0 /\ UNCHANGED <<files, inTx, pipes, calls>>
  BY Zenon DEF ExitFile, FilesAccounted
<1>2. CASE FDs \ FreeFds(p) # {}
  <2>1. PICK d \in FDs \ FreeFds(p) : pend' = [pend EXCEPT ![p] = fd[p][d]] /\ Sets(fd', fd, p, d, 0)
    BY <1>2, Zenon DEF ExitFile, Sets
  <2>2. d \in FDs /\ fd[p][d] # 0 /\ at[p] # "dead" /\ calls' \in [Procs -> Nat]
    BY <1>1, <2>1 DEF FreeFds, FileTypeOK
  <2>3. UNCHANGED <<files, at, inTx, pipes>>
    BY <1>1, <1>2, Zenon DEF ExitFile
  <2> QED BY <1>1, <2>1, <2>2, <2>3, FilesMoved, Zenon
<1>3. CASE FDs \ FreeFds(p) = {}
  <2>1. at' = [at EXCEPT ![p] = "dead"] /\ UNCHANGED <<pend, fd>>
    BY <1>3, Zenon DEF ExitFile
  <2>2. \A d \in FDs : fd[p][d] = 0
    BY <1>3, Zenon DEF FreeFds
  <2>3. at' \in [Procs -> {"user", "open", "nested", "exit", "dead"}] /\ \A q \in Procs \ {p} : at'[q] = at[q]
    BY <1>1, <2>1 DEF FileTypeOK
  <2>4. FileTypeOK'
    BY <1>1, <2>1, <2>3, Zenon DEF FileTypeOK
  <2>5. DeadClosed'
    BY <1>1, <2>1, <2>2, <2>3, Zenon DEF DeadClosed
  <2> QED BY <1>1, <2>1, <2>4, <2>5, SameFiles, Zenon
<1> QED BY <1>2, <1>3

(* fork: the child had no descriptors, and has the parent's now.           *)
LEMMA ForkStep ==
  ASSUME FilesAccounted, NEW p \in Procs, ForkFds(p)
  PROVE  FilesAccounted'
<1>1. FileTypeOK /\ DeadClosed /\ MakesCall(p) /\ UNCHANGED <<files, pend, inTx, pipes>>
  BY Zenon DEF ForkFds, FilesAccounted
<1>2. PICK c \in Procs : at[c] = "dead" /\ fd' = [fd EXCEPT ![c] = fd[p]] /\ at' = [at EXCEPT ![c] = "user"]
  BY Zenon DEF ForkFds
<1>3. calls' \in [Procs -> Nat] /\ at[p] = "user" /\ pend[p] = 0
  BY <1>1, Counted, Zenon
<1>4. c # p /\ pend[c] = 0 /\ \A d \in FDs : fd[c][d] = 0
  BY <1>1, <1>2, <1>3 DEF DeadClosed
<1>5. /\ fd' \in Rows /\ fd'[c] = fd[p] /\ \A q \in Procs \ {c} : fd'[q] = fd[q]
      /\ at' \in [Procs -> {"user", "open", "nested", "exit", "dead"}] /\ at'[c] = "user"
      /\ \A q \in Procs \ {c} : at'[q] = at[q]
  BY <1>1, <1>2 DEF FileTypeOK, Rows
<1>6. FileTypeOK'
  BY <1>1, <1>3, <1>5, Zenon DEF FileTypeOK, Rows
<1>7. DeadClosed'
  <2>1. at'[c] # "dead"
    BY <1>5
  <2>2. \A q \in Procs \ {c} : at'[q] = at[q] /\ pend'[q] = pend[q] /\ fd'[q] = fd[q]
    BY <1>1, <1>5, Zenon
  <2> QED BY <1>1, <2>1, <2>2, DeadStays, Zenon
<1>8. ASSUME NEW i \in 1..NFile PROVE Referenced(i, fd', pend') <=> Referenced(i, fd, pend)
  <2>1. i # 0
    OBVIOUS
  <2>2. ASSUME NEW q \in Procs, NEW x \in FDs, fd[q][x] = i PROVE Referenced(i, fd', pend')
    <3>1. q # c
      BY <1>4, <2>1, <2>2
    <3> QED BY <1>5, <2>2, <3>1, Zenon DEF Referenced
  <2>3. ASSUME NEW q \in Procs, NEW x \in FDs, fd'[q][x] = i PROVE Referenced(i, fd, pend)
    <3>1. q = c => fd[p][x] = i
      BY <1>5, <2>3, Zenon
    <3> QED BY <1>5, <2>3, <3>1, Zenon DEF Referenced
  <2> QED BY <1>1, <2>2, <2>3, Zenon DEF Referenced
<1> QED BY <1>1, <1>6, <1>7, <1>8, SameFiles, Zenon

(* open makes an open file that nothing referred to, and a descriptor.     *)
LEMMA OpenBodyStep ==
  ASSUME NFile \in Nat, FilesAccounted, NEW p \in Procs, OpenBody(p)
  PROVE  FilesAccounted'
<1>1. FileTypeOK /\ DeadClosed /\ at[p] = "open" /\ UNCHANGED <<pend, pipes, calls>>
  BY Zenon DEF OpenBody, FilesAccounted
<1>2. CASE FreeFiles = {} \/ FreeFds(p) = {}
  <2>1. at' = [at EXCEPT ![p] = "nested"] /\ UNCHANGED <<fd, files, inTx>>
    BY <1>2, Zenon DEF OpenBody
  <2>2. inTx' \in [Procs -> 0..1] /\ calls' \in [Procs -> Nat]
    BY <1>1, <2>1, Zenon DEF FileTypeOK
  <2> QED BY <1>1, <2>1, <2>2, NoRefs, Zenon
<1>3. CASE ~(FreeFiles = {} \/ FreeFds(p) = {})
  <2>1. PICK i \in FreeFiles, d \in FreeFds(p) : files' = [files EXCEPT ![i] = Inode] /\ Sets(fd', fd, p, d, i)
    BY <1>3, Zenon DEF OpenBody, Sets
  <2>2. inTx' = [inTx EXCEPT ![p] = 0] /\ at' = [at EXCEPT ![p] = "user"]
    BY <1>3, Zenon DEF OpenBody
  <2>3. /\ fd \in Rows /\ d \in FDs /\ fd[p][d] = 0 /\ i \in 1..NFile /\ i \in 0..NFile /\ i # 0 /\ files[i] = Unused
        /\ Inode # Unused
    BY <1>1, <2>1 DEF FileTypeOK, Rows, FreeFds, FreeFiles, Inode, Unused
  <2>4. /\ fd' \in Rows /\ fd'[p][d] = i
        /\ \A x \in FDs \ {d} : fd'[p][x] = fd[p][x]
        /\ \A q \in Procs \ {p} : fd'[q] = fd[q]
    <3>1. RowIs(fd', fd, p, d, i)
      BY <2>1, <2>3, RowSet, Zenon
    <3> QED BY <3>1, Zenon DEF RowIs
  <2>5. /\ files' \in [1..NFile -> {Unused, Inode} \cup [kind : {"read", "write"}, pipe : 1..NPipe]]
        /\ files'[i] = Inode /\ \A j \in (1..NFile) \ {i} : files'[j] = files[j]
    BY <1>1, <2>1, <2>3, Zenon DEF FileTypeOK
  <2>6. /\ inTx' \in [Procs -> 0..1] /\ at' \in [Procs -> {"user", "open", "nested", "exit", "dead"}]
        /\ at'[p] = "user" /\ \A q \in Procs \ {p} : at'[q] = at[q]
    BY <1>1, <2>2 DEF FileTypeOK
  <2>7. FileTypeOK'
    BY <1>1, <2>4, <2>5, <2>6, Zenon DEF FileTypeOK, Rows
  <2>8. DeadClosed'
    <3>1. at'[p] # "dead"
      BY <2>6
    <3>2. \A q \in Procs \ {p} : at'[q] = at[q] /\ pend'[q] = pend[q] /\ fd'[q] = fd[q]
      BY <1>1, <2>4, <2>6, Zenon
    <3> QED BY <1>1, <3>1, <3>2, DeadStays, Zenon
  <2>9. ASSUME NEW j \in 1..NFile PROVE files'[j] # Unused <=> Referenced(j, fd', pend')
    <3>1. files[j] # Unused <=> Referenced(j, fd, pend)
      BY Zenon DEF FilesAccounted
    <3>2. CASE j = i
      BY <2>3, <2>4, <2>5, <3>2, Zenon DEF Referenced
    <3>3. CASE j # i
      <4>1. j # 0
        OBVIOUS
      <4>2. (\E x \in FDs : fd'[p][x] = j) <=> (\E x \in FDs : fd[p][x] = j)
        BY <2>3, <2>4, <3>3, <4>1, Zenon
      <4>3. \A q \in Procs : (\E x \in FDs : fd'[q][x] = j) <=> (\E x \in FDs : fd[q][x] = j)
        BY <2>4, <4>2, Zenon
      <4>4. Referenced(j, fd', pend') <=> Referenced(j, fd, pend)
        BY <1>1, <4>3, Zenon DEF Referenced
      <4> QED BY <2>5, <3>1, <3>3, <4>4, Zenon
    <3> QED BY <3>2, <3>3
  <2>10. ASSUME NEW k \in 1..NPipe, NEW e \in {"read", "write"}
         PROVE  /\ e \in pipes'[k] <=> \E j \in 1..NFile : files'[j] = End(e, k)
                /\ \A j, l \in 1..NFile : files'[j] = End(e, k) /\ files'[l] = End(e, k) => j = l
    <3>1. /\ e \in pipes[k] <=> \E j \in 1..NFile : files[j] = End(e, k)
          /\ \A j, l \in 1..NFile : files[j] = End(e, k) /\ files[l] = End(e, k) => j = l
      BY Zenon DEF FilesAccounted
    <3>2. End(e, k) # Inode /\ End(e, k) # Unused
      BY DEF End, Inode, Unused
    <3>3. \A j \in 1..NFile : files'[j] = End(e, k) <=> files[j] = End(e, k)
      BY <2>3, <2>5, <3>2, Zenon
    <3> QED BY <1>1, <3>1, <3>3, Zenon
  <2> QED BY <2>7, <2>8, <2>9, <2>10, Zenon DEF FilesAccounted
<1> QED BY <1>2, <1>3

(* pipe: two open files for the two ends of a pipe that no file was of.    *)
LEMMA PipeStep ==
  ASSUME NFile \in Nat, FilesAccounted, NEW p \in Procs, Pipe(p)
  PROVE  FilesAccounted'
<1>1. FileTypeOK /\ DeadClosed /\ MakesCall(p) /\ UNCHANGED <<pend, at, inTx>>
  BY Zenon DEF Pipe, FilesAccounted
<1>2. PICK k \in 1..NPipe, r, w \in FreeFiles, a, b \in FreeFds(p) :
        /\ IsLowest(r, FreeFiles) /\ IsLowest(w, FreeFiles \ {r})
        /\ IsLowest(a, FreeFds(p)) /\ IsLowest(b, FreeFds(p) \ {a})
        /\ \A i \in 1..NFile : files[i].pipe # k
        /\ files' = [files EXCEPT ![r] = End("read", k), ![w] = End("write", k)]
        /\ fd' = [fd EXCEPT ![p] = [@ EXCEPT ![a] = r, ![b] = w]]
        /\ pipes' = [pipes EXCEPT ![k] = {"read", "write"}]
  BY ZenonT(40) DEF Pipe
<1>3. calls' \in [Procs -> Nat] /\ at[p] = "user"
  BY <1>1, Counted, Zenon
<1>4. /\ a \in FDs /\ b \in FDs /\ a # b /\ fd[p][a] = 0 /\ fd[p][b] = 0
      /\ r \in 1..NFile /\ w \in 1..NFile /\ r # w /\ files[r] = Unused /\ files[w] = Unused
  BY <1>2, Zenon DEF FreeFds, FreeFiles, IsLowest
<1>5. /\ End("read", k) # Unused /\ End("write", k) # Unused /\ End("read", k) # End("write", k)
      /\ \A e \in {"read", "write"} :
           End(e, k) \in [kind : {"read", "write"}, pipe : 1..NPipe] /\ End(e, k).pipe = k
  BY DEF End, Unused
<1>6. /\ files' \in [1..NFile -> {Unused, Inode} \cup [kind : {"read", "write"}, pipe : 1..NPipe]]
      /\ files'[r] = End("read", k) /\ files'[w] = End("write", k)
      /\ \A j \in (1..NFile) \ {r, w} : files'[j] = files[j]
  <2>1. files' \in [1..NFile -> {Unused, Inode} \cup [kind : {"read", "write"}, pipe : 1..NPipe]]
    BY <1>1, <1>2, <1>4, <1>5, Zenon DEF FileTypeOK
  <2>2. files \in [1..NFile -> {Unused, Inode} \cup [kind : {"read", "write"}, pipe : 1..NPipe]]
    BY <1>1, Zenon DEF FileTypeOK
  <2> QED BY <1>2, <1>4, <2>1, <2>2, Zenon
<1>7. /\ fd' \in Rows /\ fd'[p][a] = r /\ fd'[p][b] = w
      /\ \A x \in FDs \ {a, b} : fd'[p][x] = fd[p][x]
      /\ \A q \in Procs \ {p} : fd'[q] = fd[q]
  <2>1. fd[p] \in [FDs -> 0..NFile] /\ r \in 0..NFile /\ w \in 0..NFile
    BY <1>1, <1>4 DEF FileTypeOK
  <2>2. fd'[p] = [fd[p] EXCEPT ![a] = r, ![b] = w] /\ \A q \in Procs \ {p} : fd'[q] = fd[q]
    BY <1>1, <1>2 DEF FileTypeOK
  <2>3. fd'[p] \in [FDs -> 0..NFile]
    BY <1>4, <2>1, <2>2, Zenon
  <2>4. fd' \in Rows
    BY <1>1, <1>2, <2>2, <2>3, Zenon DEF FileTypeOK, Rows
  <2> QED BY <1>4, <2>1, <2>2, <2>4, Zenon
<1>8. /\ pipes' \in [1..NPipe -> SUBSET {"read", "write"}] /\ pipes'[k] = {"read", "write"}
      /\ \A l \in (1..NPipe) \ {k} : pipes'[l] = pipes[l]
  BY <1>1, <1>2 DEF FileTypeOK
<1>9. FileTypeOK'
  BY <1>1, <1>3, <1>6, <1>7, <1>8, Zenon DEF FileTypeOK, Rows
<1>10. DeadClosed'
  <2>1. at'[p] # "dead"
    BY <1>1, <1>3
  <2>2. \A q \in Procs \ {p} : at'[q] = at[q] /\ pend'[q] = pend[q] /\ fd'[q] = fd[q]
    BY <1>1, <1>7, Zenon
  <2> QED BY <1>1, <2>1, <2>2, DeadStays, Zenon
<1>11. ASSUME NEW j \in 1..NFile PROVE files'[j] # Unused <=> Referenced(j, fd', pend')
  <2>1. files[j] # Unused <=> Referenced(j, fd, pend)
    BY Zenon DEF FilesAccounted
  <2>2. CASE j = r \/ j = w
    BY <1>4, <1>5, <1>6, <1>7, <2>2, Zenon DEF Referenced
  <2>3. CASE j # r /\ j # w
    <3>1. j # 0
      OBVIOUS
    <3>2. (\E x \in FDs : fd'[p][x] = j) <=> (\E x \in FDs : fd[p][x] = j)
      BY <1>4, <1>7, <2>3, <3>1, Zenon
    <3>3. \A q \in Procs : (\E x \in FDs : fd'[q][x] = j) <=> (\E x \in FDs : fd[q][x] = j)
      BY <1>7, <3>2, Zenon
    <3>4. Referenced(j, fd', pend') <=> Referenced(j, fd, pend)
      BY <1>1, <3>3, Zenon DEF Referenced
    <3> QED BY <1>6, <2>1, <2>3, <3>4, Zenon
  <2> QED BY <2>2, <2>3, Zenon
<1>12. ASSUME NEW l \in 1..NPipe, NEW e \in {"read", "write"}
       PROVE  /\ e \in pipes'[l] <=> \E j \in 1..NFile : files'[j] = End(e, l)
              /\ \A i, j \in 1..NFile : files'[i] = End(e, l) /\ files'[j] = End(e, l) => i = j
  <2>1. /\ e \in pipes[l] <=> \E j \in 1..NFile : files[j] = End(e, l)
        /\ \A i, j \in 1..NFile : files[i] = End(e, l) /\ files[j] = End(e, l) => i = j
    BY Zenon DEF FilesAccounted
  <2>2. End(e, l).pipe = l /\ End(e, l) # Unused
    BY DEF End, Unused
  <2>3. CASE l # k
    <3>1. \A j \in 1..NFile : files'[j] = End(e, l) <=> files[j] = End(e, l)
      BY <1>4, <1>5, <1>6, <2>2, <2>3
    <3> QED BY <1>8, <2>1, <2>3, <3>1, Zenon
  <2>4. CASE l = k
    <3>1. \A j \in (1..NFile) \ {r, w} : files'[j] # End(e, l)
      BY <1>2, <1>6, <2>2, <2>4
    <3>2. e = "read" => \A j \in 1..NFile : files'[j] = End(e, l) <=> j = r
      BY <1>5, <1>6, <2>4, <3>1, Zenon
    <3>3. e = "write" => \A j \in 1..NFile : files'[j] = End(e, l) <=> j = w
      BY <1>5, <1>6, <2>4, <3>1, Zenon
    <3>4. e \in pipes'[l] /\ e \in {"read", "write"}
      BY <1>8, <2>4
    <3> QED BY <1>4, <3>2, <3>3, <3>4, Zenon
  <2> QED BY <2>3, <2>4, Zenon
<1> QED BY <1>9, <1>10, <1>11, <1>12, Zenon DEF FilesAccounted

(* A reference is dropped; the last one closes the file, and the end of    *)
(* a pipe that no other file stands for.                                   *)
LEMMA DropFileStep ==
  ASSUME NFile \in Nat, FilesAccounted, NEW p \in Procs, DropFile(p)
  PROVE  FilesAccounted'
<1> DEFINE i == pend[p]
<1>1. FileTypeOK /\ DeadClosed /\ i # 0 /\ UNCHANGED <<fd, at, inTx, calls>> /\ pend' = [pend EXCEPT ![p] = 0]
  BY Zenon DEF DropFile, FilesAccounted
<1>2. /\ i \in 1..NFile
      /\ pend' \in [Procs -> 0..NFile] /\ pend'[p] = 0 /\ \A q \in Procs \ {p} : pend'[q] = pend[q]
  BY <1>1 DEF FileTypeOK
<1>3. DeadClosed'
  BY <1>1, <1>2 DEF DeadClosed
<1>4. ASSUME NEW j \in 1..NFile, j # i PROVE Referenced(j, fd', pend') <=> Referenced(j, fd, pend)
  <2>1. j # 0
    OBVIOUS
  <2>2. \A q \in Procs : pend'[q] = j <=> pend[q] = j
    BY <1>2, <1>4, <2>1, Zenon
  <2> QED BY <1>1, <2>2, Zenon DEF Referenced
<1>5. Referenced(i, fd, pend)
  BY <1>1, Zenon DEF Referenced
<1>6. files[i] # Unused /\ files[i] \in {Inode} \cup [kind : {"read", "write"}, pipe : 1..NPipe]
  BY <1>1, <1>2, <1>5 DEF FilesAccounted, FileTypeOK
<1>7. CASE Referenced(i, fd', pend')
  <2>1. UNCHANGED <<files, pipes>>
    BY <1>1, <1>7, Zenon DEF DropFile
  <2>2. FileTypeOK'
    BY <1>1, <1>2, <2>1, Zenon DEF FileTypeOK
  <2>3. \A j \in 1..NFile : Referenced(j, fd', pend') <=> Referenced(j, fd, pend)
    BY <1>4, <1>5, <1>7, Zenon
  <2> QED BY <1>3, <2>1, <2>2, <2>3, SameFiles, Zenon
<1>8. CASE ~Referenced(i, fd', pend')
  <2>1. /\ files' = [files EXCEPT ![i] = Unused]
        /\ pipes' = IF files[i].pipe # 0 THEN [pipes EXCEPT ![files[i].pipe] = @ \ {files[i].kind}] ELSE pipes
    BY <1>1, <1>8, Zenon DEF DropFile, ClosedEnd
  <2>2. /\ files' \in [1..NFile -> {Unused, Inode} \cup [kind : {"read", "write"}, pipe : 1..NPipe]]
        /\ files'[i] = Unused /\ \A j \in (1..NFile) \ {i} : files'[j] = files[j]
    BY <1>1, <1>2, <2>1 DEF FileTypeOK
  <2>3. pipes' \in [1..NPipe -> SUBSET {"read", "write"}]
    <3>1. CASE files[i].pipe = 0
      BY <1>1, <2>1, <3>1 DEF FileTypeOK
    <3>2. CASE files[i].pipe # 0
      BY <1>1, <1>6, <2>1, <3>2 DEF FileTypeOK, Inode
    <3> QED BY <3>1, <3>2
  <2>4. FileTypeOK'
    BY <1>1, <1>2, <2>2, <2>3, Zenon DEF FileTypeOK
  <2>5. ASSUME NEW j \in 1..NFile PROVE files'[j] # Unused <=> Referenced(j, fd', pend')
    <3>1. files[j] # Unused <=> Referenced(j, fd, pend)
      BY Zenon DEF FilesAccounted
    <3> QED BY <1>4, <1>8, <2>2, <3>1, Zenon
  <2>6. ASSUME NEW k \in 1..NPipe, NEW e \in {"read", "write"}
        PROVE  /\ e \in pipes'[k] <=> \E j \in 1..NFile : files'[j] = End(e, k)
               /\ \A j, l \in 1..NFile : files'[j] = End(e, k) /\ files'[l] = End(e, k) => j = l
    <3>1. /\ e \in pipes[k] <=> \E j \in 1..NFile : files[j] = End(e, k)
          /\ \A j, l \in 1..NFile : files[j] = End(e, k) /\ files[l] = End(e, k) => j = l
      BY Zenon DEF FilesAccounted
    <3>2. End(e, k) # Unused /\ End(e, k) # Inode /\ End(e, k).pipe = k /\ End(e, k).kind = e /\ k # 0
      BY DEF End, Unused, Inode
    <3>3. \A j \in 1..NFile : files'[j] = End(e, k) <=> files[j] = End(e, k) /\ j # i
      BY <1>2, <2>2, <3>2, Zenon
    <3>4. CASE files[i] = End(e, k)
      <4>1. pipes' = [pipes EXCEPT ![k] = @ \ {e}]
        BY <2>1, <3>2, <3>4, Zenon
      <4>2. e \notin pipes'[k]
        BY <1>1, <4>1 DEF FileTypeOK
      <4> QED BY <1>2, <3>1, <3>3, <3>4, <4>2, Zenon
    <3>5. CASE files[i] # End(e, k)
      <4>1. e \in pipes'[k] <=> e \in pipes[k]
        <5>1. CASE files[i] = Inode
          BY <2>1, <5>1 DEF Inode
        <5>2. CASE files[i] \in [kind : {"read", "write"}, pipe : 1..NPipe]
          <6>1. files[i] = End(files[i].kind, files[i].pipe) /\ files[i].pipe \in 1..NPipe
            BY <5>2, Zenon DEF End
          <6>2. files[i].pipe = k => files[i].kind # e
            BY <3>5, <6>1, Zenon
          <6>3. pipes' = [pipes EXCEPT ![files[i].pipe] = @ \ {files[i].kind}]
            BY <2>1, <6>1
          <6> QED BY <1>1, <6>1, <6>2, <6>3, Zenon DEF FileTypeOK
        <5> QED BY <1>6, <5>1, <5>2
      <4> QED BY <1>2, <3>1, <3>3, <3>5, <4>1, Zenon
    <3> QED BY <3>4, <3>5, Zenon
  <2> QED BY <1>3, <2>4, <2>5, <2>6, Zenon DEF FilesAccounted
<1> QED BY <1>7, <1>8, Zenon

(* Nothing is open when init starts.                                       *)
LEMMA FilesInit ==
  ASSUME NFile \in Nat, FileInit PROVE FilesAccounted
<1>1. /\ fd = [p \in Procs |-> [d \in FDs |-> 0]] /\ files = [i \in 1..NFile |-> Unused]
      /\ pend = [p \in Procs |-> 0] /\ pipes = [k \in 1..NPipe |-> {}]
      /\ calls = [p \in Procs |-> 0] /\ inTx = [p \in Procs |-> 0]
      /\ at = [p \in Procs |-> IF p = First THEN "user" ELSE "dead"]
  BY Zenon DEF FileInit
<1>2. FileTypeOK
  <2>1. 0 \in 0..NFile /\ 0 \in Nat /\ 0 \in {0, 1}
    OBVIOUS
  <2>2. /\ fd \in [Procs -> [FDs -> 0..NFile]] /\ pend \in [Procs -> 0..NFile]
        /\ calls \in [Procs -> Nat]
    BY <1>1, <2>1, Zenon
  <2>3. pipes \in [1..NPipe -> SUBSET {"read", "write"}]
    BY <1>1
  <2>4. files \in [1..NFile -> {Unused, Inode} \cup [kind : {"read", "write"}, pipe : 1..NPipe]]
    BY <1>1, Zenon
  <2> QED BY <1>1, <2>1, <2>2, <2>3, <2>4 DEF FileTypeOK
<1>3. DeadClosed
  BY <1>1, Zenon DEF DeadClosed
<1>4. ASSUME NEW i \in 1..NFile PROVE files[i] # Unused <=> Referenced(i, fd, pend)
  <2>1. i # 0
    OBVIOUS
  <2> QED BY <1>1, <2>1, Zenon DEF Referenced
<1>5. ASSUME NEW k \in 1..NPipe, NEW e \in {"read", "write"}
      PROVE  /\ e \in pipes[k] <=> \E i \in 1..NFile : files[i] = End(e, k)
             /\ \A i, j \in 1..NFile : files[i] = End(e, k) /\ files[j] = End(e, k) => i = j
  <2>1. End(e, k) # Unused
    BY DEF End, Unused
  <2> QED BY <1>1, <2>1, Zenon
<1> QED BY <1>2, <1>3, <1>4, <1>5, Zenon DEF FilesAccounted

(* An open file is in the table exactly as long as a descriptor or a       *)
(* close refers to it, an end of a pipe is open exactly while one open     *)
(* file stands for it, and an exited process keeps nothing, for any        *)
(* number of processes, files, descriptors and pipes.                      *)
THEOREM FilesInvariant ==
  ASSUME NFile \in Nat PROVE FileSpec => []FilesAccounted
<1>1. FileInit => FilesAccounted
  BY FilesInit, Zenon
<1>2. FilesAccounted /\ [FileNext]_fileVars => FilesAccounted'
  <2>1. SUFFICES ASSUME FilesAccounted, [FileNext]_fileVars PROVE FilesAccounted'
    OBVIOUS
  <2>2. CASE UNCHANGED fileVars
    <3>1. UNCHANGED <<fd, files, pend, at, inTx, pipes, calls>> /\ FileTypeOK /\ DeadClosed
      BY <2>1, <2>2, Zenon DEF fileVars, FilesAccounted
    <3>2. FileTypeOK' /\ DeadClosed'
      BY <3>1, Zenon DEF FileTypeOK, DeadClosed
    <3>3. \A j \in 1..NFile : Referenced(j, fd', pend') <=> Referenced(j, fd, pend)
      BY <3>1, Zenon
    <3> QED BY <2>1, <3>1, <3>2, <3>3, SameFiles, Zenon
  <2>3. CASE FileNext
    <3>1. PICK p \in Procs : \/ Proceed(p) \/ OpenBegin(p) \/ Dup(p) \/ Pipe(p) \/ PipeFails(p)
                            \/ CloseFd(p) \/ ForkFds(p) \/ Exit(p)
      BY <2>3, Zenon DEF FileNext
    <3>2. CASE OpenFails(p) \/ OpenNested(p)
      BY <2>1, <3>2, OpenFailsStep, Zenon
    <3>3. CASE OpenBody(p)
      BY <2>1, <3>3, OpenBodyStep, Zenon
    <3>4. CASE DropFile(p)
      BY <2>1, <3>4, DropFileStep, Zenon
    <3>5. CASE ExitFile(p)
      BY <2>1, <3>5, ExitFileStep, Zenon
    <3>6. CASE OpenBegin(p)
      BY <2>1, <3>6, OpenBeginStep, Zenon
    <3>7. CASE Dup(p)
      BY <2>1, <3>7, DupStep, Zenon
    <3>8. CASE Pipe(p)
      BY <2>1, <3>8, PipeStep, Zenon
    <3>9. CASE PipeFails(p)
      BY <2>1, <3>9, PipeFailsStep, Zenon
    <3>10. CASE CloseFd(p)
      BY <2>1, <3>10, CloseStep, Zenon
    <3>11. CASE ForkFds(p)
      BY <2>1, <3>11, ForkStep, Zenon
    <3>12. CASE Exit(p)
      BY <2>1, <3>12, ExitStep, Zenon
    <3> QED BY <3>1, <3>2, <3>3, <3>4, <3>5, <3>6, <3>7, <3>8, <3>9, <3>10, <3>11, <3>12, Zenon
         DEF Proceed
  <2> QED BY <2>1, <2>2, <2>3
<1> QED BY <1>1, <1>2, PTL DEF FileSpec
=============================================================================
