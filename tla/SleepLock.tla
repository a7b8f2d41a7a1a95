----------------------------- MODULE SleepLock -----------------------------
(***************************************************************************)
(* One sleep lock (sync/sleep_lock.rs) over the condition variable of its  *)
(* spin lock (sync/spin_lock.rs), down to the steps of sleep_common and    *)
(* wakeup (proc/ops.rs) on each process's own lock, with kill beside them. *)
(***************************************************************************)
EXTENDS FiniteSets

CONSTANTS Proc, None,
          Killable   \* bound: the processes kill is called on

ASSUME ConstAssumption == None \notin Proc /\ Killable \subseteq Proc

VARIABLES
  spin,      \* the process that holds SleepLock::locked, or None
  owner,     \* SleepLock::locked's value: who holds the sleep lock, or None
  locked,    \* the processes whose Proc::shared is held by their own thread
  state,     \* ProcState
  killed,    \* the killed processes
  changed,   \* the processes for which unlocked.counter has moved since they read it
  mode,      \* "wait" in wait_lock, "force" in force_wait_lock
  sawKilled, \* the local `killed` of sleep_common
  scan,      \* the processes the running wakeup has still to look at
  pc

vars == <<spin, owner, locked, state, killed, changed, mode, sawKilled, scan, pc>>

PC == {"out", "lock", "test", "sleep", "fail", "letgo", "doze", "asleep",
       "relock", "recheck", "in", "unlock", "release", "notify"}

Init ==
  /\ spin = None
  /\ owner = None
  /\ locked = {}
  /\ state = [p \in Proc |-> "Running"]
  /\ killed = {}
  /\ changed = {}
  /\ mode = [p \in Proc |-> "force"]
  /\ sawKilled = {}
  /\ scan = {}
  /\ pc = [p \in Proc |-> "out"]

Goto(p, l) == pc' = [pc EXCEPT ![p] = l]

-----------------------------------------------------------------------------
(* Taking the lock.                                                        *)

Call(p, m) ==
  /\ pc[p] = "out"
  /\ mode' = [mode EXCEPT ![p] = m]
  /\ Goto(p, "lock")
  /\ UNCHANGED <<spin, owner, locked, state, killed, changed, sawKilled, scan>>

(* try_lock, when neither the spin lock nor the sleep lock is held;        *)
(* otherwise it fails and changes nothing.                                 *)
TryLock(p) ==
  /\ pc[p] = "out"
  /\ spin = None /\ owner = None
  /\ owner' = p
  /\ Goto(p, "in")
  /\ UNCHANGED <<spin, locked, state, killed, changed, mode, sawKilled, scan>>

(* SpinLock::lock, at the start, after a sleep, and to unlock.             *)
Acquire(p) ==
  /\ pc[p] \in {"lock", "relock", "unlock"}
  /\ spin = None
  /\ spin' = p
  /\ Goto(p, CASE pc[p] = "lock" -> "test"
               [] pc[p] = "relock" -> "recheck"
               [] pc[p] = "unlock" -> "release")
  /\ UNCHANGED <<owner, locked, state, killed, changed, mode, sawKilled, scan>>

Take(p) ==
  /\ pc[p] = "test" /\ owner = None
  /\ owner' = p
  /\ spin' = None
  /\ Goto(p, "in")
  /\ UNCHANGED <<locked, state, killed, changed, mode, sawKilled, scan>>

(* The lock is held: wait and force_wait remember the counter.             *)
Wait(p) ==
  /\ pc[p] = "test" /\ owner # None
  /\ changed' = changed \ {p}
  /\ Goto(p, "sleep")
  /\ UNCHANGED <<spin, owner, locked, state, killed, mode, sawKilled, scan>>

-----------------------------------------------------------------------------
(* sleep_common.                                                           *)

(* Faulty variant: the spin lock is released before Proc::shared is taken. *)
LockSharedLate(p) ==
  /\ pc[p] = "sleep"
  /\ spin' = None
  /\ Goto(p, "doze")
  /\ UNCHANGED <<owner, locked, state, killed, changed, mode, sawKilled, scan>>

LockShared(p) ==
  /\ pc[p] = "sleep"
  /\ locked' = locked \cup {p}
  /\ Goto(p, IF mode[p] = "wait" /\ p \in killed THEN "fail" ELSE "letgo")
  /\ UNCHANGED <<spin, owner, state, killed, changed, mode, sawKilled, scan>>

(* The error return drops both guards.                                     *)
Fail(p) ==
  /\ pc[p] = "fail"
  /\ locked' = locked \ {p}
  /\ spin' = None
  /\ Goto(p, "out")
  /\ UNCHANGED <<owner, state, killed, changed, mode, sawKilled, scan>>

LetGo(p) ==
  /\ pc[p] = "letgo"
  /\ spin' = None
  /\ Goto(p, "doze")
  /\ UNCHANGED <<owner, locked, state, killed, changed, mode, sawKilled, scan>>

Doze(p) ==
  /\ pc[p] = "doze"
  /\ state' = [state EXCEPT ![p] = "Sleeping"]
  /\ Goto(p, "asleep")
  /\ UNCHANGED <<spin, owner, locked, killed, changed, mode, sawKilled, scan>>

(* sched: the scheduler unlocks the sleeper.                               *)
Switch(p) ==
  /\ pc[p] = "asleep" /\ p \in locked
  /\ locked' = locked \ {p}
  /\ UNCHANGED <<spin, owner, state, killed, changed, mode, sawKilled, scan, pc>>

(* The woken sleeper runs again and reads `killed` before it unlocks.      *)
Dispatch(p) ==
  /\ pc[p] = "asleep" /\ state[p] = "Runnable"
  /\ state' = [state EXCEPT ![p] = "Running"]
  /\ sawKilled' = IF p \in killed THEN sawKilled \cup {p} ELSE sawKilled \ {p}
  /\ Goto(p, "relock")
  /\ UNCHANGED <<spin, owner, locked, killed, changed, mode, scan>>

(* Back in wait / force_wait with the spin lock: an error, the next test   *)
(* of the lock, or, if the counter has not moved, another sleep.           *)
RecheckKilled(p) ==
  /\ pc[p] = "recheck" /\ mode[p] = "wait" /\ p \in sawKilled
  /\ spin' = None
  /\ Goto(p, "out")
  /\ UNCHANGED <<owner, locked, state, killed, changed, mode, sawKilled, scan>>

(* Faulty variant: any wakeup, kill included, hands over the lock.         *)
RecheckTakes(p) ==
  /\ pc[p] = "recheck"
  /\ owner' = p
  /\ spin' = None
  /\ Goto(p, "in")
  /\ UNCHANGED <<locked, state, killed, changed, mode, sawKilled, scan>>

Recheck(p) ==
  /\ pc[p] = "recheck" /\ ~ (mode[p] = "wait" /\ p \in sawKilled)
  /\ Goto(p, IF p \in changed THEN "test" ELSE "sleep")
  /\ UNCHANGED <<spin, owner, locked, state, killed, changed, mode, sawKilled, scan>>

-----------------------------------------------------------------------------
(* Releasing the lock: SleepLockGuard::drop.                               *)

Unlock(p) ==
  /\ pc[p] = "in"
  /\ Goto(p, "unlock")
  /\ UNCHANGED <<spin, owner, locked, state, killed, changed, mode, sawKilled, scan>>

(* The flag is cleared and notify moves the counter.                       *)
Release(p) ==
  /\ pc[p] = "release"
  /\ owner' = None
  /\ changed' = Proc
  /\ scan' = Proc
  /\ Goto(p, "notify")
  /\ UNCHANGED <<spin, locked, state, killed, mode, sawKilled>>

(* Faulty variant: a process whose lock is busy is passed over.            *)
WakeIdle(p, q) ==
  /\ pc[p] = "notify" /\ q \in scan
  /\ scan' = scan \ {q}
  /\ state' = [state EXCEPT ![q] = IF @ = "Sleeping" /\ q \notin locked THEN "Runnable" ELSE @]
  /\ UNCHANGED <<spin, owner, locked, killed, changed, mode, sawKilled, pc>>

(* wakeup locks one process after the other.                               *)
Wake(p, q) ==
  /\ pc[p] = "notify" /\ q \in scan
  /\ q \notin locked
  /\ scan' = scan \ {q}
  /\ state' = [state EXCEPT ![q] = IF @ = "Sleeping" THEN "Runnable" ELSE @]
  /\ UNCHANGED <<spin, owner, locked, killed, changed, mode, sawKilled, pc>>

Notified(p) ==
  /\ pc[p] = "notify" /\ scan = {}
  /\ spin' = None
  /\ Goto(p, "out")
  /\ UNCHANGED <<owner, locked, state, killed, changed, mode, sawKilled, scan>>

(* kill, by any other process.                                             *)
Kill(q) ==
  /\ q \in Killable \ killed /\ q \notin locked
  /\ killed' = killed \cup {q}
  /\ state' = [state EXCEPT ![q] = IF @ = "Sleeping" THEN "Runnable" ELSE @]
  /\ UNCHANGED <<spin, owner, locked, changed, mode, sawKilled, scan, pc>>

-----------------------------------------------------------------------------
KernelStep(p) ==
  \/ Take(p) \/ Wait(p) \/ LockShared(p) \/ Fail(p) \/ LetGo(p) \/ Doze(p)
  \/ Switch(p) \/ Dispatch(p) \/ RecheckKilled(p) \/ Recheck(p)
  \/ Release(p) \/ Notified(p)
  \/ \E q \in Proc : Wake(p, q)

Next ==
  \E p \in Proc :
    \/ \E m \in {"wait", "force"} : Call(p, m)
    \/ TryLock(p) \/ Acquire(p) \/ KernelStep(p) \/ Unlock(p) \/ Kill(p)

Spec == Init /\ [][Next]_vars

(* Kernel code runs on, and a CPU that spins for a spin lock gets it in    *)
(* the end.  Nobody is assumed to release the sleep lock.                  *)
Fairness == \A p \in Proc : WF_vars(KernelStep(p)) /\ SF_vars(Acquire(p))

FairSpec == Spec /\ Fairness

-----------------------------------------------------------------------------
(* Properties.                                                             *)

(* Every variable has its type.                                            *)
TypeOK ==
  /\ spin \in Proc \cup {None}
  /\ owner \in Proc \cup {None}
  /\ locked \subseteq Proc
  /\ state \in [Proc -> {"Running", "Sleeping", "Runnable"}]
  /\ killed \subseteq Proc
  /\ changed \subseteq Proc
  /\ mode \in [Proc -> {"wait", "force"}]
  /\ sawKilled \subseteq Proc
  /\ scan \subseteq Proc
  /\ pc \in [Proc -> PC]

(* Only the process recorded in the lock is between lock and unlock: a     *)
(* wakeup, by notify or by kill, never lets two processes in.              *)
Inside == {"in", "unlock", "release"}
MutualExclusion == \A p \in Proc : pc[p] \in Inside <=> owner = p

(* No wakeup is lost: a process asleep on the lock waits for a holder, or  *)
(* the wakeup of the release in progress has still to reach it.            *)
NoLostWakeup ==
  \A p \in Proc : state[p] = "Sleeping" => owner # None \/ p \in scan

(* What makes the two inductive: who holds the spin lock, who may be       *)
(* asleep, and that a process on its way to sleep that has missed the      *)
(* counter's move is still ahead of the scan, which cannot pass its lock.  *)
SpinPC == {"test", "sleep", "fail", "letgo", "recheck", "release", "notify"}
WaitPC == {"sleep", "letgo", "doze", "asleep", "relock", "recheck"}
SpinDiscipline == \A p \in Proc : pc[p] \in SpinPC <=> spin = p
SharedDiscipline ==
  \A p \in Proc :
    /\ pc[p] \in {"fail", "letgo", "doze"} => p \in locked
    /\ p \in locked => pc[p] \in {"fail", "letgo", "doze", "asleep"}
    /\ p \in locked /\ pc[p] = "asleep" => state[p] = "Sleeping"
    /\ state[p] # "Running" <=> pc[p] = "asleep"
ScanDiscipline ==
  /\ scan # {} => \E p \in Proc : pc[p] = "notify"
  /\ \A p \in Proc : pc[p] \in {"sleep", "letgo"} => p \notin changed
CounterDiscipline ==
  \A p \in Proc :
    /\ pc[p] \in WaitPC /\ p \notin changed => owner # None
    /\ (pc[p] = "doze" \/ state[p] = "Sleeping") /\ p \in changed => p \in scan

(* The inductive invariant of SleepLock and the condition variable under   *)
(* it: one holder, and what the spin lock, the locks of processes, the     *)
(* counter and the scan of notify keep for that.                           *)
SleepLockInv ==
  /\ TypeOK
  /\ MutualExclusion
  /\ SpinDiscipline
  /\ SharedDiscipline
  /\ ScanDiscipline
  /\ CounterDiscipline

Waiting(p) == pc[p] \in {"lock", "test", "relock", "recheck"} \cup WaitPC

(* A released lock with waiters is taken again, or the waiters leave.      *)
ReleasedIsTaken ==
  owner = None /\ (\E p \in Proc : Waiting(p)) ~> owner # None \/ \A p \in Proc : ~ Waiting(p)

(* wait_lock returns once the process is killed, whoever holds the lock.   *)
KilledWaiterReturns ==
  \A p \in Killable : p \in killed /\ Waiting(p) /\ mode[p] = "wait" ~> ~ Waiting(p)

(* The wait for a lock ends: a released lock is taken, and a killed waiter *)
(* returns.                                                                *)
WaitsEnd == ReleasedIsTaken /\ KilledWaiterReturns
=============================================================================
