-------------------------- MODULE ProcTableProofs --------------------------
(***************************************************************************)
(* The process table keeps its invariant, for any number of slots and      *)
(* pids: every step of the scheduler, fork, exit, wait and kill.  Then the *)
(* page allocator, which gives processes their memory.                     *)
(***************************************************************************)
EXTENDS ProcTable, PageAlloc, TLAPS

Step(s) == SchedStep(s) \/ ForkStep(s) \/ ExitStep(s) \/ WaitStep(s) \/ UserStep(s) \/ Wakeup(s)

(* The table when init is about to run for the first time.                 *)
LEMMA InitInv == Init => ProcInv
<1> SUFFICES ASSUME Init PROVE ProcInv
  BY Zenon
<1> USE ConstAssumption DEF Init
<1>1. TypeOK
  <2>1. halted \in BOOLEAN
    BY Zenon
  <2>2. pid \in [Slot -> 0..MaxPid] /\ nextPid \in 2..MaxPid+1
    OBVIOUS
  <2> QED BY <2>1, <2>2 DEF TypeOK, State, PC
<1>2. ParentIsAlive /\ StackIsGuarded /\ NoMissedExit /\ ForkretFindsPrivate
  BY Zenon DEF ParentIsAlive, StackIsGuarded, NoMissedExit, ForkretFindsPrivate, Alive
<1>3. ThreadMatchesState /\ ForkOwnsChild /\ PidsAreFresh /\ InitStays
  BY DEF ThreadMatchesState, Parked, ForkOwnsChild, Forking, PidsAreFresh, InitStays, Alive
<1>4. ExitIsAnnounced /\ WaiterIsCurrent
  BY Zenon DEF ExitIsAnnounced, WaiterIsCurrent
<1> QED BY <1>1, <1>2, <1>3, <1>4, Zenon DEF ProcInv

(* The types, the pids of used slots and the holder of WAIT_LOCK.          *)
LEMMA TypeOKStep ==
  ASSUME ProcInv, NEW s \in Slot, Step(s) PROVE TypeOK'
<1> USE ConstAssumption DEF ProcInv, TypeOK, State, PC, ForkOwnsChild, Forking, PidsAreFresh,
        Runs, Goto, shared, own
<1>1. CASE Dispatch(s) \/ Switch(s)
  BY <1>1 DEF Dispatch, Switch
<1>2. CASE Resume(s)
  <2>1. Resumed(s) \in {"wait", "wait_sleep", "user"}
    BY Zenon DEF Resumed
  <2>2. halted' \in BOOLEAN
    BY <1>2, Zenon DEF Resume
  <2>3. pc' \in [Slot -> PC]
    BY <1>2, <2>1, Zenon DEF Resume
  <2>4. waitLock' # None => pc'[waitLock'] \in {"exit_zombie", "wait_sleep"}
    BY <1>2, <2>1 DEF Resume, ThreadMatchesState, Parked, ForkretFindsPrivate
  <2> QED BY <1>2, <2>2, <2>3, <2>4 DEF Resume
<1>3. CASE ForkCopy(s) \/ ForkUndo(s) \/ ForkSetParent(s)
  BY <1>3 DEF ForkCopy, ForkUndo, ForkSetParent
<1>4. CASE ForkCopyFails(s)
  BY <1>4 DEF ForkCopyFails, Free
<1>5. CASE ForkRun(s)
  BY <1>5 DEF ForkRun, ThreadMatchesState
<1>6. CASE ExitStep(s)
  BY <1>6 DEF ExitStep, ExitNotify, ExitZombie, Notify
<1>7. CASE WaitStep(s)
  BY <1>7 DEF WaitStep, Scans, WaitReap, WaitNoTarget, WaitNotYet, WaitSleep, Free
<1>8. ASSUME NEW n \in Slot, Allocate(s, n) PROVE TypeOK'
  <2>1. halted' \in BOOLEAN
    BY <1>8, Zenon DEF Allocate
  <2>2. pid' \in [Slot -> 0..MaxPid] /\ nextPid' \in 2..MaxPid+1
    BY <1>8 DEF Allocate
  <2> QED BY <1>8, <2>1, <2>2 DEF Allocate, Syscall
<1>9. CASE ExitBegin(s)
  <2>1. halted' \in BOOLEAN
    BY <1>9, Zenon DEF ExitBegin
  <2> QED BY <1>9, <2>1, ZenonT(40) DEF ExitBegin
<1>10. CASE AllocateFails(s) \/ Sleep(s) \/ Yield(s)
  BY <1>10 DEF AllocateFails, Sleep, Yield, Syscall
<1>11. ASSUME NEW n \in Slot, Kill(s, n) PROVE TypeOK'
  BY <1>11 DEF Kill, Syscall
<1>12. ASSUME NEW t \in WaitFor, WaitBegin(s, t) PROVE TypeOK'
  BY <1>12, Zenon DEF WaitBegin, Syscall
<1>13. CASE Wakeup(s)
  BY <1>13, Zenon DEF Wakeup
<1> QED BY <1>1, <1>2, <1>3, <1>4, <1>5, <1>6, <1>7, <1>8, <1>9, <1>10, <1>11, <1>12, <1>13, Zenon
        DEF Step, SchedStep, ForkStep, UserStep

(* exit leaves no child behind, and init is there to take them.            *)
LEMMA ParentIsAliveStep ==
  ASSUME ProcInv, NEW s \in Slot, Step(s) PROVE ParentIsAlive'
<1> USE ConstAssumption DEF ProcInv, TypeOK, State, Parked, Forking, Alive, Children, Targets,
        Runs, Goto, shared, own, ParentIsAlive, ForkOwnsChild, InitStays, ExitIsAnnounced
<1>1. CASE SchedStep(s)
  BY <1>1 DEF SchedStep, Dispatch, Switch, Resume, Resumed
<1>2. CASE ForkStep(s)
  BY <1>2 DEF ForkStep, ForkCopy, ForkCopyFails, ForkUndo, ForkSetParent, ForkRun, Free
<1>3. CASE ExitStep(s)
  BY <1>3 DEF ExitStep, ExitNotify, ExitZombie, Notify
<1>4. CASE WaitStep(s)
  BY <1>4 DEF WaitStep, Scans, WaitReap, WaitNoTarget, WaitNotYet, WaitSleep, Free
<1>5. CASE UserStep(s)
  <2>1. CASE \E n \in Slot : Allocate(s, n) \/ Kill(s, n)
    BY <2>1 DEF Allocate, Kill, Syscall
  <2>2. CASE AllocateFails(s) \/ ExitBegin(s) \/ Sleep(s) \/ Yield(s)
    BY <2>2 DEF AllocateFails, ExitBegin, Sleep, Yield, Syscall
  <2>3. CASE \E t \in WaitFor : WaitBegin(s, t)
    BY <2>3 DEF WaitBegin, Syscall
  <2> QED BY <1>5, <2>1, <2>2, <2>3, Zenon DEF UserStep
<1>6. CASE Wakeup(s)
  BY <1>6 DEF Wakeup
<1> QED BY <1>1, <1>2, <1>3, <1>4, <1>5, <1>6, Zenon DEF Step

(* sched keeps the lock until the CPU has left the stack.                  *)
LEMMA StackIsGuardedStep ==
  ASSUME ProcInv, NEW s \in Slot, Step(s) PROVE StackIsGuarded'
<1> USE ConstAssumption DEF ProcInv, TypeOK, State, Parked, Forking, Alive, Children, Targets,
        Runs, Goto, shared, own, StackIsGuarded, ThreadMatchesState, ForkOwnsChild
<1>1. CASE SchedStep(s)
  BY <1>1 DEF SchedStep, Dispatch, Switch, Resume, Resumed
<1>2. CASE ForkStep(s)
  BY <1>2 DEF ForkStep, ForkCopy, ForkCopyFails, ForkUndo, ForkSetParent, ForkRun, Free
<1>3. CASE ExitStep(s)
  BY <1>3 DEF ExitStep, ExitNotify, ExitZombie, Notify
<1>4. CASE WaitStep(s)
  BY <1>4 DEF WaitStep, Scans, WaitReap, WaitNoTarget, WaitNotYet, WaitSleep, Free
<1>5. CASE UserStep(s)
  <2>1. CASE \E n \in Slot : Allocate(s, n) \/ Kill(s, n)
    BY <2>1 DEF Allocate, Kill, Syscall
  <2>2. CASE AllocateFails(s) \/ ExitBegin(s) \/ Sleep(s) \/ Yield(s)
    BY <2>2 DEF AllocateFails, ExitBegin, Sleep, Yield, Syscall
  <2>3. CASE \E t \in WaitFor : WaitBegin(s, t)
    BY <2>3 DEF WaitBegin, Syscall
  <2> QED BY <1>5, <2>1, <2>2, <2>3, Zenon DEF UserStep
<1>6. CASE Wakeup(s)
  BY <1>6, ZenonT(40) DEF Wakeup
<1> QED BY <1>1, <1>2, <1>3, <1>4, <1>5, <1>6, Zenon DEF Step

(* fork gives the private data back before the child can run.              *)
LEMMA ForkretFindsPrivateStep ==
  ASSUME ProcInv, NEW s \in Slot, Step(s) PROVE ForkretFindsPrivate'
<1> USE ConstAssumption DEF ProcInv, TypeOK, State, Parked, Forking, Alive, Children, Targets,
        Runs, Goto, shared, own, ForkretFindsPrivate, ForkOwnsChild, ThreadMatchesState
<1>1. CASE SchedStep(s)
  BY <1>1 DEF SchedStep, Dispatch, Switch, Resume, Resumed
<1>2. CASE ForkStep(s)
  BY <1>2 DEF ForkStep, ForkCopy, ForkCopyFails, ForkUndo, ForkSetParent, ForkRun, Free
<1>3. CASE ExitStep(s)
  BY <1>3 DEF ExitStep, ExitNotify, ExitZombie, Notify
<1>4. CASE WaitStep(s)
  BY <1>4 DEF WaitStep, Scans, WaitReap, WaitNoTarget, WaitNotYet, WaitSleep, Free
<1>5. CASE UserStep(s)
  <2>1. CASE \E n \in Slot : Allocate(s, n) \/ Kill(s, n)
    BY <2>1 DEF Allocate, Kill, Syscall
  <2>2. CASE AllocateFails(s) \/ ExitBegin(s) \/ Sleep(s) \/ Yield(s)
    BY <2>2 DEF AllocateFails, ExitBegin, Sleep, Yield, Syscall
  <2>3. CASE \E t \in WaitFor : WaitBegin(s, t)
    BY <2>3 DEF WaitBegin, Syscall
  <2> QED BY <1>5, <2>1, <2>2, <2>3, Zenon DEF UserStep
<1>6. CASE Wakeup(s)
  BY <1>6, Zenon DEF Wakeup
<1> QED BY <1>1, <1>2, <1>3, <1>4, <1>5, <1>6, Zenon DEF Step

(* A thread that is not executing is where it gave up the CPU.             *)
LEMMA ThreadMatchesStateStep ==
  ASSUME ProcInv, NEW s \in Slot, Step(s) PROVE ThreadMatchesState'
<1> USE ConstAssumption DEF ProcInv, TypeOK, State, Parked, Forking, Alive, Children, Targets,
        Runs, Goto, shared, own, ThreadMatchesState, ForkOwnsChild, StackIsGuarded
<1>1. CASE SchedStep(s)
  BY <1>1 DEF SchedStep, Dispatch, Switch, Resume, Resumed
<1>2. CASE ForkStep(s)
  BY <1>2 DEF ForkStep, ForkCopy, ForkCopyFails, ForkUndo, ForkSetParent, ForkRun, Free
<1>3. CASE ExitStep(s)
  BY <1>3 DEF ExitStep, ExitNotify, ExitZombie, Notify
<1>4. CASE WaitStep(s)
  BY <1>4 DEF WaitStep, Scans, WaitReap, WaitNoTarget, WaitNotYet, WaitSleep, Free
<1>5. CASE UserStep(s)
  <2>1. CASE \E n \in Slot : Allocate(s, n) \/ Kill(s, n)
    BY <2>1 DEF Allocate, Kill, Syscall
  <2>2. CASE AllocateFails(s) \/ ExitBegin(s) \/ Sleep(s) \/ Yield(s)
    BY <2>2 DEF AllocateFails, ExitBegin, Sleep, Yield, Syscall
  <2>3. CASE \E t \in WaitFor : WaitBegin(s, t)
    BY <2>3 DEF WaitBegin, Syscall
  <2> QED BY <1>5, <2>1, <2>2, <2>3, Zenon DEF UserStep
<1>6. CASE Wakeup(s)
  BY <1>6, ZenonT(40) DEF Wakeup
<1> QED BY <1>1, <1>2, <1>3, <1>4, <1>5, <1>6, Zenon DEF Step

(* allocate picks a slot no other fork is filling.                         *)
LEMMA ForkOwnsChildStep ==
  ASSUME ProcInv, NEW s \in Slot, Step(s) PROVE ForkOwnsChild'
<1> USE ConstAssumption DEF ProcInv, TypeOK, State, Parked, Forking, Alive, Children, Targets,
        Runs, Goto, shared, own, ForkOwnsChild, ThreadMatchesState
<1>1. CASE SchedStep(s)
  BY <1>1 DEF SchedStep, Dispatch, Switch, Resume, Resumed
<1>2. CASE ForkStep(s)
  BY <1>2 DEF ForkStep, ForkCopy, ForkCopyFails, ForkUndo, ForkSetParent, ForkRun, Free
<1>3. CASE ExitStep(s)
  BY <1>3 DEF ExitStep, ExitNotify, ExitZombie, Notify
<1>4. CASE WaitStep(s)
  BY <1>4 DEF WaitStep, Scans, WaitReap, WaitNoTarget, WaitNotYet, WaitSleep, Free
<1>5. CASE UserStep(s)
  <2>1. CASE \E n \in Slot : Allocate(s, n) \/ Kill(s, n)
    BY <2>1 DEF Allocate, Kill, Syscall
  <2>2. CASE AllocateFails(s) \/ ExitBegin(s) \/ Sleep(s) \/ Yield(s)
    BY <2>2 DEF AllocateFails, ExitBegin, Sleep, Yield, Syscall
  <2>3. CASE \E t \in WaitFor : WaitBegin(s, t)
    BY <2>3 DEF WaitBegin, Syscall
  <2> QED BY <1>5, <2>1, <2>2, <2>3, Zenon DEF UserStep
<1>6. CASE Wakeup(s)
  BY <1>6, ZenonT(40) DEF Wakeup
<1> QED BY <1>1, <1>2, <1>3, <1>4, <1>5, <1>6, Zenon DEF Step

(* Only a zombie is freed, and init does not become one.                   *)
LEMMA InitStaysStep ==
  ASSUME ProcInv, NEW s \in Slot, Step(s) PROVE InitStays'
<1> USE ConstAssumption DEF ProcInv, TypeOK, State, Parked, Forking, Alive, Children, Targets,
        Runs, Goto, shared, own, InitStays, ThreadMatchesState, ForkOwnsChild
<1>1. CASE SchedStep(s)
  BY <1>1 DEF SchedStep, Dispatch, Switch, Resume, Resumed
<1>2. CASE ForkStep(s)
  BY <1>2 DEF ForkStep, ForkCopy, ForkCopyFails, ForkUndo, ForkSetParent, ForkRun, Free
<1>3. CASE ExitStep(s)
  BY <1>3 DEF ExitStep, ExitNotify, ExitZombie, Notify
<1>4. CASE WaitStep(s)
  BY <1>4 DEF WaitStep, Scans, WaitReap, WaitNoTarget, WaitNotYet, WaitSleep, Free
<1>5. CASE UserStep(s)
  <2>1. CASE \E n \in Slot : Allocate(s, n) \/ Kill(s, n)
    BY <2>1 DEF Allocate, Kill, Syscall
  <2>2. CASE AllocateFails(s) \/ ExitBegin(s) \/ Sleep(s) \/ Yield(s)
    BY <2>2 DEF AllocateFails, ExitBegin, Sleep, Yield, Syscall
  <2>3. CASE \E t \in WaitFor : WaitBegin(s, t)
    BY <2>3 DEF WaitBegin, Syscall
  <2> QED BY <1>5, <2>1, <2>2, <2>3, Zenon DEF UserStep
<1>6. CASE Wakeup(s)
  BY <1>6, Zenon DEF Wakeup
<1> QED BY <1>1, <1>2, <1>3, <1>4, <1>5, <1>6, Zenon DEF Step

(* WAIT_LOCK keeps parents and notifications as they are.                  *)
LEMMA ExitIsAnnouncedStep ==
  ASSUME ProcInv, NEW s \in Slot, Step(s) PROVE ExitIsAnnounced'
<1> USE ConstAssumption DEF ProcInv, TypeOK, State, Parked, Forking, Alive, Children, Targets,
        Runs, Goto, shared, own, ExitIsAnnounced, ThreadMatchesState, InitStays, ForkOwnsChild, ParentIsAlive
<1>1. CASE SchedStep(s)
  BY <1>1 DEF SchedStep, Dispatch, Switch, Resume, Resumed
<1>2. CASE ForkStep(s)
  BY <1>2 DEF ForkStep, ForkCopy, ForkCopyFails, ForkUndo, ForkSetParent, ForkRun, Free
<1>3. CASE ExitStep(s)
  BY <1>3 DEF ExitStep, ExitNotify, ExitZombie, Notify
<1>4. CASE WaitStep(s)
  BY <1>4 DEF WaitStep, Scans, WaitReap, WaitNoTarget, WaitNotYet, WaitSleep, Free
<1>5. CASE UserStep(s)
  <2>1. CASE \E n \in Slot : Allocate(s, n) \/ Kill(s, n)
    BY <2>1 DEF Allocate, Kill, Syscall
  <2>2. CASE AllocateFails(s) \/ ExitBegin(s) \/ Sleep(s) \/ Yield(s)
    BY <2>2 DEF AllocateFails, ExitBegin, Sleep, Yield, Syscall
  <2>3. CASE \E t \in WaitFor : WaitBegin(s, t)
    BY <2>3 DEF WaitBegin, Syscall
  <2> QED BY <1>5, <2>1, <2>2, <2>3, Zenon DEF UserStep
<1>6. CASE Wakeup(s)
  BY <1>6 DEF Wakeup
<1> QED BY <1>1, <1>2, <1>3, <1>4, <1>5, <1>6, Zenon DEF Step

(* exit notifies, under WAIT_LOCK, before there is a zombie.               *)
LEMMA WaiterIsCurrentStep ==
  ASSUME ProcInv, NEW s \in Slot, Step(s) PROVE WaiterIsCurrent'
<1> USE ConstAssumption DEF ProcInv, TypeOK, State, Parked, Forking, Alive, Children, Targets,
        Runs, Goto, shared, own, WaiterIsCurrent, ExitIsAnnounced, ForkOwnsChild, ThreadMatchesState
<1>1. CASE SchedStep(s)
  BY <1>1 DEF SchedStep, Dispatch, Switch, Resume, Resumed
<1>2. CASE ForkStep(s)
  BY <1>2 DEF ForkStep, ForkCopy, ForkCopyFails, ForkUndo, ForkSetParent, ForkRun, Free
<1>3. CASE ExitStep(s)
  BY <1>3 DEF ExitStep, ExitNotify, ExitZombie, Notify
<1>4. CASE WaitStep(s)
  BY <1>4 DEF WaitStep, Scans, WaitReap, WaitNoTarget, WaitNotYet, WaitSleep, Free
<1>5. CASE UserStep(s)
  <2>1. CASE \E n \in Slot : Allocate(s, n) \/ Kill(s, n)
    BY <2>1 DEF Allocate, Kill, Syscall
  <2>2. CASE AllocateFails(s) \/ ExitBegin(s) \/ Sleep(s) \/ Yield(s)
    BY <2>2 DEF AllocateFails, ExitBegin, Sleep, Yield, Syscall
  <2>3. CASE \E t \in WaitFor : WaitBegin(s, t)
    BY <2>3 DEF WaitBegin, Syscall
  <2> QED BY <1>5, <2>1, <2>2, <2>3, Zenon DEF UserStep
<1>6. CASE Wakeup(s)
  BY <1>6 DEF Wakeup
<1> QED BY <1>1, <1>2, <1>3, <1>4, <1>5, <1>6, Zenon DEF Step

(* The pid of a new process is above all others.                           *)
LEMMA PidsAreFreshStep ==
  ASSUME ProcInv, NEW s \in Slot, Step(s) PROVE PidsAreFresh'
<1> USE ConstAssumption DEF ProcInv, TypeOK, State, Parked, Forking, Alive, Children, Targets,
        Runs, Goto, shared, own, PidsAreFresh, ForkOwnsChild
<1>1. CASE SchedStep(s)
  BY <1>1 DEF SchedStep, Dispatch, Switch, Resume, Resumed
<1>2. CASE ForkStep(s)
  BY <1>2 DEF ForkStep, ForkCopy, ForkCopyFails, ForkUndo, ForkSetParent, ForkRun, Free
<1>3. CASE ExitStep(s)
  BY <1>3 DEF ExitStep, ExitNotify, ExitZombie, Notify
<1>4. CASE WaitStep(s)
  BY <1>4 DEF WaitStep, Scans, WaitReap, WaitNoTarget, WaitNotYet, WaitSleep, Free
<1>5. CASE UserStep(s)
  <2>1. CASE \E n \in Slot : Allocate(s, n) \/ Kill(s, n)
    BY <2>1 DEF Allocate, Kill, Syscall
  <2>2. CASE AllocateFails(s) \/ ExitBegin(s) \/ Sleep(s) \/ Yield(s)
    BY <2>2 DEF AllocateFails, ExitBegin, Sleep, Yield, Syscall
  <2>3. CASE \E t \in WaitFor : WaitBegin(s, t)
    BY <2>3 DEF WaitBegin, Syscall
  <2> QED BY <1>5, <2>1, <2>2, <2>3, Zenon DEF UserStep
<1>6. CASE Wakeup(s)
  BY <1>6, Zenon DEF Wakeup
<1> QED BY <1>1, <1>2, <1>3, <1>4, <1>5, <1>6, Zenon DEF Step

(* Every step keeps the process table's invariant.                         *)
LEMMA ProcInvStep == ProcInv /\ [Next]_vars => ProcInv'
<1> SUFFICES ASSUME ProcInv, [Next]_vars PROVE ProcInv'
  BY Zenon
<1>1. CASE UNCHANGED vars
  BY <1>1 DEF vars, shared, own, ProcInv, TypeOK, ParentIsAlive, StackIsGuarded, NoMissedExit,
     ForkretFindsPrivate, ThreadMatchesState, ForkOwnsChild, Forking, PidsAreFresh, InitStays, Alive,
     ExitIsAnnounced, WaiterIsCurrent, Children, Targets
<1>2. ASSUME NEW s \in Slot, Step(s) PROVE ProcInv'
  <2>1. WaiterIsCurrent'
    BY <1>2, WaiterIsCurrentStep, Zenon
  <2>2. NoMissedExit'
    BY <2>1, Zenon DEF WaiterIsCurrent, NoMissedExit
  <2> QED BY <1>2, <2>1, <2>2, TypeOKStep, ParentIsAliveStep, StackIsGuardedStep,
             ForkretFindsPrivateStep, ThreadMatchesStateStep, ForkOwnsChildStep, InitStaysStep,
             ExitIsAnnouncedStep, PidsAreFreshStep, Zenon DEF ProcInv
<1> QED BY <1>1, <1>2, Zenon DEF Next, Running, Halted, Step

(* fork, exit, wait, kill and the scheduler keep every process's parent    *)
(* alive, every kernel stack guarded and every exit seen, with any number  *)
(* of processes on any number of CPUs.                                     *)
THEOREM ProcInvariant == Spec => []ProcInv
BY InitInv, ProcInvStep, PTL DEF Spec

-----------------------------------------------------------------------------
(* A run is read back as it was written.                                   *)
LEMMA RunNext == \A p : Run(p).next = p
BY Zenon DEF Run

(* A list does not depend on the pages that are not in it.                 *)
LEMMA ListKept ==
  ASSUME NEW h, NEW c, NEW d, NEW n \in Nat, NEW f \in [1..n -> Pages], NEW S, Lists(h, c, n, f, S),
         \A p \in Pages : p \in S => d[p] = c[p]
  PROVE  Lists(h, d, n, f, S)
<1>1. \A i \in 1..n : f[i] \in Pages /\ f[i] \in S
  BY Zenon DEF Lists
<1>2. \A i \in 1..n : d[f[i]] = c[f[i]]
  BY <1>1, Zenon
<1> QED BY <1>2, Zenon DEF Lists

(* Nor on how its set of pages is written.                                 *)
LEMMA ListOf ==
  ASSUME NEW h, NEW c, NEW n, NEW f, NEW S, NEW T, Lists(h, c, n, f, S),
         \A p \in Pages : p \in S <=> p \in T
  PROVE  Lists(h, c, n, f, T)
BY Zenon DEF Lists

(* Taking the first page.                                                  *)
LEMMA ListPopped ==
  ASSUME NEW h, NEW c, NEW n \in Nat, NEW f \in [1..n -> Pages], NEW S, Lists(h, c, n, f, S), h # 0
  PROVE  /\ n - 1 \in Nat
         /\ h \in Pages /\ h \in S
         /\ \E g \in [1..n-1 -> Pages] : Lists(c[h].next, c, n - 1, g, S \ {h})
<1>1. n \in Nat \ {0} /\ h = f[1] /\ h \in Pages /\ h \in S
  BY DEF Lists
<1> DEFINE g == [i \in 1..n-1 |-> f[i + 1]]
<1>2. \A i \in 1..n-1 : i + 1 \in 1..n /\ g[i] = f[i + 1]
  BY <1>1
<1>3. g \in [1..n-1 -> Pages]
  BY <1>1
<1> HIDE DEF g
<1>4. c[h] = Run(IF 1 = n THEN 0 ELSE f[2])
  BY <1>1 DEF Lists
<1>5. c[h].next = IF n - 1 = 0 THEN 0 ELSE g[1]
  BY <1>1, <1>2, <1>4, RunNext
<1>6. \A i \in 1..n-1 : c[g[i]] = Run(IF i = n - 1 THEN 0 ELSE g[i + 1])
  <2> TAKE i \in 1..n-1
  <2>1. i + 1 \in 1..n /\ g[i] = f[i + 1] /\ (i # n - 1 => g[i + 1] = f[i + 1 + 1]) /\ (i = n - 1 <=> i + 1 = n)
    BY <1>1, <1>2
  <2>2. c[f[i + 1]] = Run(IF i + 1 = n THEN 0 ELSE f[i + 1 + 1])
    BY <2>1, Zenon DEF Lists
  <2> QED BY <2>1, <2>2, Zenon
<1>7. \A i, j \in 1..n-1 : g[i] = g[j] => i = j
  BY <1>1, <1>2 DEF Lists
<1>8. \A p \in Pages : p \in S \ {h} <=> \E i \in 1..n-1 : g[i] = p
  <2> TAKE p \in Pages
  <2>1. ASSUME p \in S, p # h PROVE \E i \in 1..n-1 : g[i] = p
    <3>1. PICK i \in 1..n : f[i] = p
      BY <2>1, Zenon DEF Lists
    <3>2. i # 1 /\ i - 1 \in 1..n-1
      BY <1>1, <2>1, <3>1
    <3>3. g[i - 1] = f[i - 1 + 1] /\ i - 1 + 1 = i
      BY <1>2, <3>2
    <3> QED BY <3>1, <3>2, <3>3, Zenon
  <2>2. ASSUME NEW i \in 1..n-1, g[i] = p PROVE p \in S /\ p # h
    <3>1. f[i + 1] = p /\ i + 1 \in 1..n /\ 1 \in 1..n /\ i + 1 # 1
      BY <1>1, <1>2, <2>2
    <3> QED BY <1>1, <3>1, Zenon DEF Lists
  <2> QED BY <2>1, <2>2, Zenon
<1>9. Lists(c[h].next, c, n - 1, g, S \ {h})
  BY <1>5, <1>6, <1>7, <1>8, Zenon DEF Lists
<1> QED BY <1>1, <1>3, <1>9

(* Putting a page in front.                                                *)
LEMMA ListPushed ==
  ASSUME NEW h, NEW c, NEW d, NEW n \in Nat, NEW f \in [1..n -> Pages], NEW S, Lists(h, c, n, f, S),
         NEW p \in Pages, p \notin S, d[p] = Run(h), \A q \in Pages \ {p} : d[q] = c[q]
  PROVE  \E g \in [1..n+1 -> Pages] : Lists(p, d, n + 1, g, S \cup {p})
<1> DEFINE g == [i \in 1..n+1 |-> IF i = 1 THEN p ELSE f[i - 1]]
<1>1. g[1] = p /\ \A i \in 1..n : i + 1 \in 1..n+1 /\ i + 1 # 1 /\ g[i + 1] = f[i]
  OBVIOUS
<1>2. g \in [1..n+1 -> Pages]
  OBVIOUS
<1> HIDE DEF g
<1>3. \A i \in 1..n : f[i] \in S /\ f[i] \in Pages \ {p} /\ d[f[i]] = c[f[i]]
  BY Zenon DEF Lists
<1>4. \A i \in 1..n+1 : i # 1 => i - 1 \in 1..n /\ g[i] = f[i - 1] /\ (i # n + 1 => g[i + 1] = f[i - 1 + 1])
  <2> TAKE i \in 1..n+1
  <2> HAVE i # 1
  <2>1. i - 1 \in 1..n /\ i - 1 + 1 = i
    OBVIOUS
  <2>2. g[i] = f[i - 1]
    BY <1>1, <2>1, Zenon
  <2>3. i # n + 1 => i \in 1..n
    OBVIOUS
  <2> QED BY <1>1, <2>1, <2>2, <2>3, Zenon
<1>5. d[g[1]] = Run(IF 1 = n + 1 THEN 0 ELSE g[1 + 1])
  BY <1>1 DEF Lists
<1>6. \A i \in 1..n+1 : d[g[i]] = Run(IF i = n + 1 THEN 0 ELSE g[i + 1])
  <2> TAKE i \in 1..n+1
  <2>1. CASE i = 1
    BY <1>5, <2>1, Zenon
  <2>2. CASE i # 1
    <3>1. i - 1 \in 1..n /\ g[i] = f[i - 1] /\ (i # n + 1 => g[i + 1] = f[i - 1 + 1])
      BY <1>4, <2>2, Zenon
    <3>2. d[g[i]] = c[f[i - 1]]
      BY <1>3, <3>1, Zenon
    <3>3. c[f[i - 1]] = Run(IF i - 1 = n THEN 0 ELSE f[i - 1 + 1])
      BY <3>1, Zenon DEF Lists
    <3>4. i - 1 = n <=> i = n + 1
      OBVIOUS
    <3> QED BY <3>1, <3>2, <3>3, <3>4, Zenon
  <2> QED BY <2>1, <2>2, Zenon
<1>7. \A i, j \in 1..n+1 : g[i] = g[j] => i = j
  <2> TAKE i, j \in 1..n+1
  <2>1. CASE i # 1 /\ j # 1
    <3>1. g[i] = f[i - 1] /\ g[j] = f[j - 1] /\ i - 1 \in 1..n /\ j - 1 \in 1..n
      BY <1>4, <2>1, Zenon
    <3>2. f[i - 1] = f[j - 1] => i - 1 = j - 1
      BY <3>1, Zenon DEF Lists
    <3> QED BY <3>1, <3>2
  <2>2. ASSUME NEW k \in 1..n+1, k # 1 PROVE g[k] # g[1]
    <3>1. g[k] = f[k - 1] /\ k - 1 \in 1..n
      BY <1>4, <2>2, Zenon
    <3> QED BY <1>1, <1>3, <3>1, Zenon
  <2> QED BY <2>1, <2>2, Zenon
<1>8. \A q \in Pages : q \in S \cup {p} <=> \E i \in 1..n+1 : g[i] = q
  <2> TAKE q \in Pages
  <2>1. q \in S <=> \E k \in 1..n : f[k] = q
    BY Zenon DEF Lists
  <2>2. 1 \in 1..n+1
    OBVIOUS
  <2>3. ASSUME NEW k \in 1..n, f[k] = q PROVE \E i \in 1..n+1 : g[i] = q
    BY <1>1, <2>3, Zenon
  <2>4. ASSUME NEW i \in 1..n+1, g[i] = q PROVE q = p \/ \E k \in 1..n : f[k] = q
    <3>1. i # 1 => i - 1 \in 1..n /\ g[i] = f[i - 1]
      BY <1>4, Zenon
    <3> QED BY <1>1, <2>4, <3>1, Zenon
  <2> QED BY <1>1, <2>1, <2>2, <2>3, <2>4, Zenon
<1>9. Lists(p, d, n + 1, g, S \cup {p})
  BY <1>1, <1>6, <1>7, <1>8 DEF Lists
<1> QED BY <1>2, <1>9, Zenon

-----------------------------------------------------------------------------
(* The steps.                                                              *)

(* The constructors link every page.                                       *)
LEMMA PagesInit == NPage \in Nat /\ PageInit => FreeListIntact
<1> SUFFICES ASSUME NPage \in Nat, PageInit PROVE FreeListIntact
  BY Zenon
<1>1. PageTypeOK
  BY DEF PageInit, PageTypeOK, Pages, Run, Zero, Idle
<1>2. OneOwner /\ \A u \in Users : \A p \in held[u] : cell[p] = kept[p]
  BY DEF PageInit, OneOwner, Has, Idle, Pages
<1>3. \A p \in Pages : p \in Unused
  BY DEF PageInit, Unused, Has, Idle, Pages
<1> DEFINE f == [i \in 1..NPage |-> i]
<1>4. f \in [1..freePages -> Pages]
  BY Zenon DEF PageInit, Pages
<1>5. Lists(head, cell, freePages, f, Unused)
  BY <1>3 DEF PageInit, Lists, Pages, Run
<1> QED BY <1>1, <1>2, <1>4, <1>5, Zenon DEF FreeListIntact

(* What every step keeps of the pages that somebody has.                   *)
Rest ==
  /\ PageTypeOK
  /\ \A u \in Users : filling[u].page \notin held[u]
  /\ \A u \in Users : \A p \in held[u] : cell[p] = kept[p]

(* The list after an allocation, when nothing changes but that u has what  *)
(* was the first page.                                                     *)
LEMMA AllocKeeps ==
  ASSUME FreeListIntact, NEW u \in Users, Alloc, Rest',
         \A v \in Users : \A q \in Pages : Has(v, q)' <=> Has(v, q) \/ (v = u /\ q = head),
         \A q \in Pages \ {head} : cell'[q] = cell[q]
  PROVE  FreeListIntact'
<1>1. PICK f \in [1..freePages -> Pages] : Lists(head, cell, freePages, f, Unused)
  BY Zenon DEF FreeListIntact
<1>2. freePages \in Nat /\ head # 0 /\ head' = cell[head].next /\ freePages' = freePages - 1
  BY Zenon DEF FreeListIntact, PageTypeOK, Alloc, NextHead
<1>3. /\ head \in Pages /\ head \in Unused
      /\ \E g \in [1..freePages-1 -> Pages] : Lists(cell[head].next, cell, freePages - 1, g, Unused \ {head})
  BY <1>1, <1>2, ListPopped, Zenon
<1>4. PICK g \in [1..freePages-1 -> Pages] : Lists(cell[head].next, cell, freePages - 1, g, Unused \ {head})
  BY <1>3, Zenon
<1>5. \A q \in Pages : q \in Unused' <=> q \in Unused \ {head}
  BY Zenon DEF Unused
<1>6. freePages - 1 \in Nat
  BY <1>1, <1>2, ListPopped, Zenon
<1>7. \A q \in Pages : q \in Unused \ {head} => cell'[q] = cell[q]
  BY Zenon
<1>8. Lists(cell[head].next, cell', freePages - 1, g, Unused \ {head})
  BY <1>4, <1>6, <1>7, ListKept, Zenon
<1>9. Lists(cell[head].next, cell', freePages - 1, g, Unused')
  BY <1>5, <1>8, ListOf, Zenon
<1>10. \E e \in [1..freePages' -> Pages] : Lists(head', cell', freePages', e, Unused')
  BY <1>2, <1>9, Zenon
<1>11. OneOwner'
  <2>1. \A v \in Users : ~Has(v, head)
    BY <1>3, Zenon DEF Unused
  <2>2. \A v, w \in Users : \A q \in Pages : Has(v, q)' /\ Has(w, q)' => v = w
    <3> TAKE v, w \in Users
    <3> TAKE q \in Pages
    <3>1. Has(v, q) /\ Has(w, q) => v = w
      BY Zenon DEF FreeListIntact, OneOwner
    <3>2. (Has(v, q)' <=> Has(v, q) \/ (v = u /\ q = head)) /\ (Has(w, q)' <=> Has(w, q) \/ (w = u /\ q = head))
      BY Zenon
    <3> QED BY <2>1, <3>1, <3>2, Zenon
  <2> QED BY <2>2, Zenon DEF OneOwner, Rest
<1> QED BY <1>10, <1>11, Zenon DEF FreeListIntact, Rest

(* The list after a page was freed that u had.                             *)
LEMMA FreeKeeps ==
  ASSUME FreeListIntact, NEW u \in Users, NEW p \in Pages, Has(u, p), FreeFrame(p), Rest',
         \A v \in Users : \A q \in Pages : Has(v, q)' <=> Has(v, q) /\ q # p
  PROVE  FreeListIntact'
<1>1. PICK f \in [1..freePages -> Pages] : Lists(head, cell, freePages, f, Unused)
  BY Zenon DEF FreeListIntact
<1>2. freePages \in Nat /\ head' = p /\ freePages' = freePages + 1
  BY Zenon DEF FreeListIntact, PageTypeOK, FreeFrame
<1>3. cell'[p] = Run(head) /\ \A q \in Pages \ {p} : cell'[q] = cell[q]
  BY Zenon DEF FreeListIntact, PageTypeOK, FreeFrame, RunOf
<1>4. p \notin Unused
  BY Zenon DEF Unused
<1>5. PICK g \in [1..freePages+1 -> Pages] : Lists(p, cell', freePages + 1, g, Unused \cup {p})
  BY <1>1, <1>2, <1>3, <1>4, ListPushed, Zenon
<1>6. \A q \in Pages : q \in Unused \cup {p} <=> q \in Unused'
  <2>1. ASSUME NEW v \in Users, v # u PROVE ~Has(v, p)
    BY <2>1, Zenon DEF FreeListIntact, OneOwner
  <2> QED BY <2>1, Zenon DEF Unused
<1>7. Lists(p, cell', freePages + 1, g, Unused')
  BY <1>5, <1>6, ListOf, Zenon
<1>8. \E e \in [1..freePages' -> Pages] : Lists(head', cell', freePages', e, Unused')
  BY <1>2, <1>7, Zenon
<1>9. OneOwner'
  <2>1. \A v, w \in Users : \A q \in Pages : Has(v, q)' /\ Has(w, q)' => v = w
    BY Zenon DEF FreeListIntact, OneOwner
  <2> QED BY <2>1, Zenon DEF OneOwner, Rest
<1> QED BY <1>8, <1>9, Zenon DEF FreeListIntact, Rest

(* The list when nobody takes or frees a page.                             *)
LEMMA HoldKeeps ==
  ASSUME FreeListIntact, Rest', UNCHANGED <<head, freePages>>,
         \A v \in Users : \A q \in Pages : Has(v, q)' <=> Has(v, q),
         \A q \in Pages : cell'[q] = cell[q] \/ \E v \in Users : Has(v, q)
  PROVE  FreeListIntact'
<1>1. PICK f \in [1..freePages -> Pages] : Lists(head, cell, freePages, f, Unused)
  BY Zenon DEF FreeListIntact
<1>2. freePages \in Nat
  BY Zenon DEF FreeListIntact, PageTypeOK
<1>3. \A q \in Pages : q \in Unused => cell'[q] = cell[q]
  BY Zenon DEF Unused
<1>4. Lists(head, cell', freePages, f, Unused)
  BY <1>1, <1>2, <1>3, ListKept, Zenon
<1>5. \A q \in Pages : q \in Unused <=> q \in Unused'
  BY Zenon DEF Unused
<1>6. Lists(head, cell', freePages, f, Unused')
  BY <1>4, <1>5, ListOf, Zenon
<1>7. \E e \in [1..freePages' -> Pages] : Lists(head', cell', freePages', e, Unused')
  BY <1>6, Zenon
<1>8. OneOwner'
  <2>1. \A v, w \in Users : \A q \in Pages : Has(v, q)' /\ Has(w, q)' => v = w
    BY Zenon DEF FreeListIntact, OneOwner
  <2> QED BY <2>1, Zenon DEF OneOwner, Rest
<1> QED BY <1>7, <1>8, Zenon DEF FreeListIntact, Rest

(* What alloc takes is a page that nobody has.                             *)
LEMMA FirstFree ==
  ASSUME NPage \in Nat, FreeListIntact, head # 0
  PROVE  /\ PageTypeOK /\ head \in Pages /\ freePages - 1 \in Nat /\ cell[head].next \in 0..NPage
         /\ \A u \in Users : ~Has(u, head)
<1>1. PICK f \in [1..freePages -> Pages] : Lists(head, cell, freePages, f, Unused)
  BY Zenon DEF FreeListIntact
<1>2. freePages \in Nat /\ PageTypeOK
  BY Zenon DEF FreeListIntact, PageTypeOK
<1>3. freePages - 1 \in Nat /\ head \in Pages /\ head \in Unused
  BY <1>1, <1>2, ListPopped, Zenon
<1>4. cell[head].next \in 0..NPage
  <2>1. PICK g \in [1..freePages-1 -> Pages] :
               Lists(cell[head].next, cell, freePages - 1, g, Unused \ {head})
    BY <1>1, <1>2, ListPopped, Zenon
  <2>2. cell[head].next = IF freePages - 1 = 0 THEN 0 ELSE g[1]
    BY <2>1, Zenon DEF Lists
  <2>3. freePages - 1 # 0 => g[1] \in 1..NPage
    BY <1>2, <1>3, <2>1 DEF Pages
  <2> QED BY <2>2, <2>3
<1> QED BY <1>2, <1>3, <1>4, Zenon DEF Unused

(* alloc_page.                                                             *)
LEMMA AllocPageStep ==
  ASSUME NPage \in Nat, FreeListIntact, NEW u \in Users, AllocPage(u)
  PROVE  FreeListIntact'
<1>1. Alloc /\ head # 0 /\ filling[u] = Idle /\ head' = cell[head].next /\ freePages' = freePages - 1
  BY Zenon DEF AllocPage, Alloc, Room, NextHead
<1>2. /\ PageTypeOK /\ head \in Pages /\ freePages - 1 \in Nat /\ cell[head].next \in 0..NPage
      /\ \A v \in Users : ~Has(v, head)
  BY <1>1, FirstFree, Zenon
<1>3. /\ filling'[u] = [page |-> head, why |-> "alloc"] /\ filling'[u].page = head
      /\ \A v \in Users \ {u} : filling'[v] = filling[v]
      /\ UNCHANGED <<kind, cell, held, kept>>
  BY <1>2, Zenon DEF AllocPage, PageTypeOK
<1>4. PageTypeOK'
  <2>1. filling' \in [Users -> [page : Pages, why : {"alloc", "free"}] \cup {Idle}]
    BY <1>2, Zenon DEF AllocPage, PageTypeOK
  <2> QED BY <1>1, <1>2, <1>3, <2>1, Zenon DEF PageTypeOK
<1>5. \A v \in Users : \A q \in Pages : Has(v, q)' <=> Has(v, q) \/ (v = u /\ q = head)
  <2>1. 0 \notin Pages /\ Idle.page = 0
    BY DEF Pages, Idle
  <2> QED BY <1>1, <1>2, <1>3, <2>1, Zenon DEF Has
<1>6. Rest'
  <2>1. \A v \in Users : filling'[v].page \notin held'[v]
    BY <1>2, <1>3, Zenon DEF FreeListIntact, OneOwner, Has
  <2>2. \A v \in Users : \A q \in held'[v] : cell'[q] = kept'[q]
    BY <1>3, Zenon DEF FreeListIntact
  <2> QED BY <1>4, <2>1, <2>2, Zenon DEF Rest
<1>7. \A q \in Pages \ {head} : cell'[q] = cell[q]
  BY <1>3, Zenon
<1> QED BY <1>1, <1>5, <1>6, <1>7, AllocKeeps, Zenon

(* The end of alloc_page.                                                  *)
LEMMA FillFreshStep ==
  ASSUME FreeListIntact, NEW u \in Users, FillFresh(u)
  PROVE  FreeListIntact'
<1> DEFINE p == filling[u].page
<1>1. PageTypeOK /\ filling[u].why = "alloc" /\ p \in Pages /\ Has(u, p)
  BY DEF FreeListIntact, PageTypeOK, FillFresh, Idle, Has
<1>2. /\ filling'[u] = Idle /\ held'[u] = held[u] \cup {p}
      /\ \A v \in Users \ {u} : filling'[v] = filling[v] /\ held'[v] = held[v]
      /\ \A q \in Pages \ {p} : cell'[q] = cell[q] /\ kept'[q] = kept[q]
      /\ cell'[p] = kept'[p]
      /\ UNCHANGED <<kind, head, freePages>>
  BY <1>1, Zenon DEF FillFresh, PageTypeOK
<1>3. PageTypeOK'
  <2>1. Fresh \in [byte : {0, 1, 5}]
    BY Zenon DEF Fresh
  <2>2. /\ cell' \in [Pages -> [next : 0..NPage] \cup [byte : {0, 1, 5}] \cup [by : Users]]
        /\ kept' \in [Pages -> [next : 0..NPage] \cup [byte : {0, 1, 5}] \cup [by : Users]]
    BY <1>1, <2>1, Zenon DEF FillFresh, PageTypeOK
  <2>3. /\ held' \in [Users -> SUBSET Pages]
        /\ filling' \in [Users -> [page : Pages, why : {"alloc", "free"}] \cup {Idle}]
    BY <1>1, Zenon DEF FillFresh, PageTypeOK
  <2> QED BY <1>1, <1>2, <2>2, <2>3, Zenon DEF PageTypeOK
<1> HIDE DEF p
<1>4. \A v \in Users : \A q \in Pages : Has(v, q)' <=> Has(v, q)
  <2>1. 0 \notin Pages /\ Idle.page = 0 /\ p = filling[u].page
    BY DEF Pages, Idle, p
  <2> QED BY <1>1, <1>2, <2>1 DEF Has
<1>5. Rest'
  <2>1. \A v \in Users : filling'[v].page \notin held'[v]
    <3>1. Idle.page = 0 /\ 0 \notin Pages /\ held' \in [Users -> SUBSET Pages]
      BY <1>3 DEF Idle, Pages, PageTypeOK
    <3> QED BY <1>2, <3>1, Zenon DEF FreeListIntact, OneOwner
  <2>2. \A v \in Users : \A q \in held'[v] : cell'[q] = kept'[q]
    <3> TAKE v \in Users
    <3> TAKE q \in held'[v]
    <3>1. q \in Pages
      BY <1>3, Zenon DEF PageTypeOK
    <3>2. q # p => q \in held[v]
      BY <1>2, Zenon
    <3> QED BY <1>2, <3>1, <3>2, Zenon DEF FreeListIntact
  <2> QED BY <1>3, <2>1, <2>2, Zenon DEF Rest
<1>6. \A q \in Pages : cell'[q] = cell[q] \/ \E v \in Users : Has(v, q)
  BY <1>1, <1>2, Zenon
<1> QED BY <1>2, <1>4, <1>5, <1>6, HoldKeeps, Zenon

(* alloc_zeroed_page.                                                      *)
LEMMA AllocZeroedPageStep ==
  ASSUME NPage \in Nat, FreeListIntact, NEW u \in Users, AllocZeroedPage(u)
  PROVE  FreeListIntact'
<1>1. /\ Alloc /\ head # 0 /\ filling[u] = Idle /\ head' = cell[head].next /\ freePages' = freePages - 1
  BY Zenon DEF AllocZeroedPage, Alloc, Room, NextHead
<1>2. /\ PageTypeOK /\ head \in Pages /\ freePages - 1 \in Nat /\ cell[head].next \in 0..NPage
      /\ \A v \in Users : ~Has(v, head)
  BY <1>1, FirstFree, Zenon
<1>3. /\ held'[u] = held[u] \cup {head}
      /\ \A v \in Users \ {u} : held'[v] = held[v]
      /\ \A q \in Pages \ {head} : cell'[q] = cell[q] /\ kept'[q] = kept[q]
      /\ cell'[head] = kept'[head]
      /\ UNCHANGED <<kind, filling>>
  BY <1>2, Zenon DEF AllocZeroedPage, PageTypeOK
<1>4. PageTypeOK'
  <2>1. Zero \in [byte : {0, 1, 5}]
    BY Zenon DEF Zero
  <2>2. /\ cell' \in [Pages -> [next : 0..NPage] \cup [byte : {0, 1, 5}] \cup [by : Users]]
        /\ kept' \in [Pages -> [next : 0..NPage] \cup [byte : {0, 1, 5}] \cup [by : Users]]
        /\ held' \in [Users -> SUBSET Pages]
    BY <1>2, <2>1, Zenon DEF AllocZeroedPage, PageTypeOK
  <2> QED BY <1>1, <1>2, <1>3, <2>2, Zenon DEF PageTypeOK
<1>5. \A v \in Users : \A q \in Pages : Has(v, q)' <=> Has(v, q) \/ (v = u /\ q = head)
  BY <1>3, Zenon DEF Has
<1>6. Rest'
  <2>1. \A v \in Users : filling'[v].page \notin held'[v]
    BY <1>2, <1>3 DEF FreeListIntact, OneOwner, Has
  <2>2. \A v \in Users : \A q \in held'[v] : cell'[q] = kept'[q]
    <3> TAKE v \in Users
    <3> TAKE q \in held'[v]
    <3>1. q \in Pages
      BY <1>4, Zenon DEF PageTypeOK
    <3>2. q # head => q \in held[v]
      BY <1>3, Zenon
    <3> QED BY <1>3, <3>1, <3>2, Zenon DEF FreeListIntact
  <2> QED BY <1>4, <2>1, <2>2, Zenon DEF Rest
<1>7. \A q \in Pages \ {head} : cell'[q] = cell[q]
  BY <1>3, Zenon
<1> QED BY <1>1, <1>5, <1>6, <1>7, AllocKeeps, Zenon

(* SlabAllocator::allocate.                                                *)
LEMMA SlabAllocateStep ==
  ASSUME NPage \in Nat, FreeListIntact, NEW u \in Users, SlabAllocate(u)
  PROVE  FreeListIntact'
<1>1. /\ Alloc /\ head # 0 /\ filling[u] = Idle /\ head' = cell[head].next /\ freePages' = freePages - 1
  BY Zenon DEF SlabAllocate, Alloc, Room, NextHead
<1>2. /\ PageTypeOK /\ head \in Pages /\ freePages - 1 \in Nat /\ cell[head].next \in 0..NPage
      /\ \A v \in Users : ~Has(v, head)
  BY <1>1, FirstFree, Zenon
<1>3. /\ held'[u] = held[u] \cup {head}
      /\ \A v \in Users \ {u} : held'[v] = held[v]
      /\ \A q \in Pages \ {head} : kept'[q] = kept[q]
      /\ cell'[head] = kept'[head]
      /\ UNCHANGED <<kind, cell, filling>>
  BY <1>2, Zenon DEF SlabAllocate, PageTypeOK
<1>4. PageTypeOK'
  <2>1. /\ kept' \in [Pages -> [next : 0..NPage] \cup [byte : {0, 1, 5}] \cup [by : Users]]
        /\ held' \in [Users -> SUBSET Pages]
    BY <1>2, Zenon DEF SlabAllocate, PageTypeOK
  <2> QED BY <1>1, <1>2, <1>3, <2>1, Zenon DEF PageTypeOK
<1>5. \A v \in Users : \A q \in Pages : Has(v, q)' <=> Has(v, q) \/ (v = u /\ q = head)
  BY <1>3, Zenon DEF Has
<1>6. Rest'
  <2>1. \A v \in Users : filling'[v].page \notin held'[v]
    BY <1>2, <1>3 DEF FreeListIntact, OneOwner, Has
  <2>2. \A v \in Users : \A q \in held'[v] : cell'[q] = kept'[q]
    <3> TAKE v \in Users
    <3> TAKE q \in held'[v]
    <3>1. q \in Pages
      BY <1>4, Zenon DEF PageTypeOK
    <3>2. q # head => q \in held[v]
      BY <1>3, Zenon
    <3> QED BY <1>3, <3>1, <3>2, Zenon DEF FreeListIntact
  <2> QED BY <1>4, <2>1, <2>2, Zenon DEF Rest
<1>7. \A q \in Pages \ {head} : cell'[q] = cell[q]
  BY <1>3, Zenon
<1> QED BY <1>1, <1>5, <1>6, <1>7, AllocKeeps, Zenon

(* The owner of a page writes to it.                                       *)
LEMMA StoreStep ==
  ASSUME FreeListIntact, NEW u \in Users, NEW p \in held[u], Store(u, p)
  PROVE  FreeListIntact'
<1>1. PageTypeOK /\ p \in Pages /\ Has(u, p)
  BY Zenon DEF FreeListIntact, PageTypeOK, Has
<1>2. /\ \A q \in Pages \ {p} : cell'[q] = cell[q] /\ kept'[q] = kept[q]
      /\ cell'[p] = kept'[p]
      /\ UNCHANGED <<kind, head, freePages, held, filling>>
  BY <1>1, Zenon DEF Store, PageTypeOK
<1>3. PageTypeOK'
  <2>1. Data(u) \in [by : Users]
    BY Zenon DEF Data
  <2>2. /\ cell' \in [Pages -> [next : 0..NPage] \cup [byte : {0, 1, 5}] \cup [by : Users]]
        /\ kept' \in [Pages -> [next : 0..NPage] \cup [byte : {0, 1, 5}] \cup [by : Users]]
    BY <1>1, <2>1, Zenon DEF Store, PageTypeOK
  <2> QED BY <1>1, <1>2, <2>2, Zenon DEF PageTypeOK
<1>4. \A v \in Users : \A q \in Pages : Has(v, q)' <=> Has(v, q)
  BY <1>2, Zenon DEF Has
<1>5. Rest'
  <2>1. \A v \in Users : \A q \in held'[v] : q \in Pages /\ cell'[q] = kept'[q]
    BY <1>1, <1>2, Zenon DEF FreeListIntact, PageTypeOK
  <2> QED BY <1>2, <1>3, <2>1, Zenon DEF Rest, FreeListIntact, OneOwner
<1>6. \A q \in Pages : cell'[q] = cell[q] \/ \E v \in Users : Has(v, q)
  BY <1>1, <1>2, Zenon
<1> QED BY <1>2, <1>4, <1>5, <1>6, HoldKeeps, Zenon

(* free_page fills the page before it takes the lock.                      *)
LEMMA FreePageStep ==
  ASSUME FreeListIntact, NEW u \in Users, NEW p \in held[u], FreePage(u, p)
  PROVE  FreeListIntact'
<1>1. PageTypeOK /\ p \in Pages /\ Has(u, p) /\ filling[u] = Idle
  BY Zenon DEF FreeListIntact, PageTypeOK, Has, FreePage
<1>2. /\ filling'[u].page = p /\ held'[u] = held[u] \ {p}
      /\ \A v \in Users \ {u} : filling'[v] = filling[v] /\ held'[v] = held[v]
      /\ \A q \in Pages \ {p} : cell'[q] = cell[q]
      /\ UNCHANGED <<kind, head, freePages, kept>>
  BY <1>1, Zenon DEF FreePage, PageTypeOK
<1>3. PageTypeOK'
  <2>1. Freed \in [byte : {0, 1, 5}]
    BY Zenon DEF Freed
  <2>2. /\ cell' \in [Pages -> [next : 0..NPage] \cup [byte : {0, 1, 5}] \cup [by : Users]]
        /\ held' \in [Users -> SUBSET Pages]
    BY <1>1, <2>1, Zenon DEF FreePage, PageTypeOK
  <2>3. filling' \in [Users -> [page : Pages, why : {"alloc", "free"}] \cup {Idle}]
    BY <1>1, Zenon DEF FreePage, PageTypeOK
  <2> QED BY <1>1, <1>2, <2>2, <2>3, Zenon DEF PageTypeOK
<1>4. \A v \in Users : \A q \in Pages : Has(v, q)' <=> Has(v, q)
  <2>1. 0 \notin Pages /\ Idle.page = 0
    BY DEF Pages, Idle
  <2> QED BY <1>1, <1>2, <2>1, Zenon DEF Has
<1>5. Rest'
  <2>1. \A v \in Users \ {u} : p \notin held[v]
    BY <1>1, Zenon DEF FreeListIntact, OneOwner, Has
  <2>2. \A v \in Users : \A q \in held'[v] : q \in Pages /\ q # p /\ q \in held[v]
    BY <1>1, <1>2, <2>1 DEF PageTypeOK
  <2>3. \A v \in Users : \A q \in held'[v] : cell'[q] = kept'[q]
    BY <1>2, <2>2, Zenon DEF FreeListIntact
  <2>4. \A v \in Users : filling'[v].page \notin held'[v]
    BY <1>2, Zenon DEF FreeListIntact, OneOwner
  <2> QED BY <1>3, <2>3, <2>4, Zenon DEF Rest
<1>6. \A q \in Pages : cell'[q] = cell[q] \/ \E v \in Users : Has(v, q)
  BY <1>1, <1>2, Zenon
<1> QED BY <1>2, <1>4, <1>5, <1>6, HoldKeeps, Zenon

(* The end of free_page: the page joins the list.                          *)
LEMMA FreeFilledStep ==
  ASSUME NPage \in Nat, FreeListIntact, NEW u \in Users, FreeFilled(u)
  PROVE  FreeListIntact'
<1> DEFINE p == filling[u].page
<1>1. PageTypeOK /\ p \in Pages /\ Has(u, p) /\ FreeFrame(p) /\ p \notin held[u] /\ p # 0
  BY DEF FreeListIntact, PageTypeOK, FreeFilled, Idle, Has, OneOwner, Pages
<1>2. /\ filling'[u] = Idle /\ (\A v \in Users \ {u} : filling'[v] = filling[v])
      /\ (\A q \in Pages \ {p} : cell'[q] = cell[q])
      /\ head' = p /\ freePages' = freePages + 1
      /\ UNCHANGED <<kind, held, kept>>
  BY <1>1, Zenon DEF FreeFilled, FreeFrame, PageTypeOK
<1>3. \A v \in Users \ {u} : ~Has(v, p)
  BY <1>1, Zenon DEF FreeListIntact, OneOwner
<1>4. PageTypeOK'
  <2>1. Run(head) \in [next : 0..NPage]
    BY <1>1, Zenon DEF Run, PageTypeOK
  <2>2. cell' \in [Pages -> [next : 0..NPage] \cup [byte : {0, 1, 5}] \cup [by : Users]]
    BY <1>1, <2>1, Zenon DEF FreeFrame, RunOf, PageTypeOK
  <2>3. filling' \in [Users -> [page : Pages, why : {"alloc", "free"}] \cup {Idle}]
    BY <1>1, Zenon DEF FreeFilled, PageTypeOK
  <2>4. head' \in 0..NPage /\ freePages' \in Nat
    BY <1>1, <1>2 DEF PageTypeOK, Pages
  <2> QED BY <1>1, <1>2, <2>2, <2>3, <2>4, Zenon DEF PageTypeOK
<1> HIDE DEF p
<1>5. \A v \in Users : \A q \in Pages : Has(v, q)' <=> Has(v, q) /\ q # p
  <2>1. 0 \notin Pages /\ Idle.page = 0 /\ p = filling[u].page
    BY DEF Pages, Idle, p
  <2> QED BY <1>1, <1>2, <1>3, <2>1, Zenon DEF Has
<1>6. Rest'
  <2>1. \A v \in Users : p \notin held[v]
    BY <1>1, <1>3, Zenon DEF Has
  <2>2. \A v \in Users : \A q \in held'[v] : q \in Pages /\ q # p
    BY <1>1, <1>2, <2>1, Zenon DEF PageTypeOK
  <2>3. \A v \in Users : \A q \in held'[v] : cell'[q] = kept'[q]
    BY <1>2, <2>2, Zenon DEF FreeListIntact
  <2>4. \A v \in Users : filling'[v].page \notin held'[v]
    <3>1. Idle.page = 0 /\ 0 \notin Pages
      BY DEF Idle, Pages
    <3> QED BY <1>1, <1>2, <3>1, Zenon DEF FreeListIntact, OneOwner, PageTypeOK
  <2> QED BY <1>4, <2>3, <2>4, Zenon DEF Rest
<1> QED BY <1>1, <1>5, <1>6, FreeKeeps, Zenon

(* SlabAllocator::deallocate.                                              *)
LEMMA SlabDeallocateStep ==
  ASSUME NPage \in Nat, FreeListIntact, NEW u \in Users, NEW p \in held[u], SlabDeallocate(u, p)
  PROVE  FreeListIntact'
<1>1. PageTypeOK /\ p \in Pages /\ Has(u, p) /\ FreeFrame(p) /\ filling[u].page # p
  BY ZenonT(40) DEF FreeListIntact, PageTypeOK, SlabDeallocate, Has, OneOwner
<1>2. /\ held'[u] = held[u] \ {p} /\ (\A v \in Users \ {u} : held'[v] = held[v])
      /\ (\A q \in Pages \ {p} : cell'[q] = cell[q])
      /\ head' = p /\ freePages' = freePages + 1
      /\ UNCHANGED <<kind, kept, filling>>
  BY <1>1, Zenon DEF SlabDeallocate, FreeFrame, PageTypeOK
<1>3. \A v \in Users \ {u} : ~Has(v, p)
  BY <1>1, Zenon DEF FreeListIntact, OneOwner
<1>4. PageTypeOK'
  <2>1. Run(head) \in [next : 0..NPage]
    BY <1>1, Zenon DEF Run, PageTypeOK
  <2>2. cell' \in [Pages -> [next : 0..NPage] \cup [byte : {0, 1, 5}] \cup [by : Users]]
    BY <1>1, <2>1, Zenon DEF FreeFrame, RunOf, PageTypeOK
  <2>3. held' \in [Users -> SUBSET Pages]
    BY <1>1, Zenon DEF SlabDeallocate, PageTypeOK
  <2>4. head' \in 0..NPage /\ freePages' \in Nat
    BY <1>1, <1>2 DEF PageTypeOK, Pages
  <2> QED BY <1>1, <1>2, <2>2, <2>3, <2>4, Zenon DEF PageTypeOK
<1>5. \A v \in Users : \A q \in Pages : Has(v, q)' <=> Has(v, q) /\ q # p
  BY <1>1, <1>2, <1>3, Zenon DEF Has
<1>6. Rest'
  <2>1. \A v \in Users : \A q \in held'[v] : q \in Pages /\ q # p /\ q \in held[v]
    BY <1>1, <1>2, <1>3, ZenonT(40) DEF PageTypeOK, Has
  <2>2. \A v \in Users : \A q \in held'[v] : cell'[q] = kept'[q]
    BY <1>2, <2>1, Zenon DEF FreeListIntact
  <2>3. \A v \in Users : filling'[v].page \notin held'[v]
    BY <1>2, Zenon DEF FreeListIntact, OneOwner
  <2> QED BY <1>4, <2>2, <2>3, Zenon DEF Rest
<1> QED BY <1>1, <1>5, <1>6, FreeKeeps, Zenon

(* The allocators of pages and slabs keep their free list, for any number  *)
(* of threads and pages: alloc and free (page_frame_allocator.rs,          *)
(* slab_allocator) touch it under their lock, and the junk that alloc_page *)
(* and free_page write without it reaches neither the list nor a page that *)
(* another thread has.                                                     *)
THEOREM FreeListInvariant == ASSUME NPage \in Nat PROVE PageSpec => []FreeListIntact
<1>1. PageInit => FreeListIntact
  BY PagesInit, Zenon
<1>2. FreeListIntact /\ [PageNext]_pageVars => FreeListIntact'
  <2> SUFFICES ASSUME FreeListIntact, [PageNext]_pageVars PROVE FreeListIntact'
    BY Zenon
  <2>1. CASE UNCHANGED pageVars
    <3>1. Rest'
      BY <2>1, Zenon DEF pageVars, FreeListIntact, PageTypeOK, OneOwner, Rest
    <3>2. \A v \in Users : \A q \in Pages : Has(v, q)' <=> Has(v, q)
      BY <2>1, Zenon DEF pageVars, Has
    <3>3. UNCHANGED <<head, cell, freePages>>
      BY <2>1, Zenon DEF pageVars
    <3> QED BY <3>1, <3>2, <3>3, HoldKeeps, Zenon
  <2>2. ASSUME NEW u \in Users,
               \/ AllocPage(u) \/ FillFresh(u) \/ AllocZeroedPage(u) \/ SlabAllocate(u) \/ FreeFilled(u)
        PROVE  FreeListIntact'
    BY <2>2, AllocPageStep, FillFreshStep, AllocZeroedPageStep, SlabAllocateStep, FreeFilledStep, Zenon
  <2>3. ASSUME NEW u \in Users, NEW p \in held[u],
               Store(u, p) \/ FreePage(u, p) \/ SlabDeallocate(u, p)
        PROVE  FreeListIntact'
    BY <2>3, StoreStep, FreePageStep, SlabDeallocateStep, Zenon
  <2> QED BY <2>1, <2>2, <2>3, Zenon DEF PageNext
<1> QED BY <1>1, <1>2, PTL DEF PageSpec
=============================================================================
