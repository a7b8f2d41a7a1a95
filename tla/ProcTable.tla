----------------------------- MODULE ProcTable -----------------------------
(***************************************************************************)
(* The process table (proc/mod.rs, proc/ops.rs, proc/scheduler.rs): fork,  *)
(* exit, wait, kill, sleep, yield and the per-CPU scheduler.               *)
(*                                                                         *)
(* One thread per slot.  A critical section that never gives up its lock   *)
(* is one step; a lock that is still held when another process may run     *)
(* (WAIT_LOCK, and Proc::shared of a process being created, put to sleep,  *)
(* dispatched or buried) is a variable.                                    *)
(***************************************************************************)
EXTENDS Integers, FiniteSets

CONSTANTS Slot,      \* entries of PROC
          InitSlot,  \* the slot spawn_init allocated, INIT_PROC
          None,      \* no slot
          MaxPid,    \* bound on the process IDs allocate_pid hands out
          WaitFor    \* bound: the pids wait is called with, 0 for any process

ASSUME ConstAssumption ==
  /\ IsFiniteSet(Slot)
  /\ InitSlot \in Slot
  /\ None \notin Slot
  /\ MaxPid \in Nat \ {0}
  /\ 0 \in WaitFor /\ WaitFor \subseteq 0..MaxPid

VARIABLES
  state,     \* ProcSharedData.state
  pid,       \* ProcSharedData.pid, 0 for None
  killed,    \* ProcSharedData.killed
  locked,    \* the slots whose Proc::shared lock is held between steps
  parent,    \* Proc::parent
  private,   \* the slots whose Proc::private is Some
  borrowed,  \* the slots whose private data the forking parent has borrowed
  waitLock,  \* holder of WAIT_LOCK, or None
  notified,  \* child_ended was notified since the slot's wait began
  onStack,   \* the slots whose kernel stack a CPU is using
  pc,        \* where the slot's thread is
  child,     \* the slot a thread in fork is filling
  target,    \* the pid a thread in wait waits for, 0 for any process
  nextPid,   \* NEXT_PID
  halted     \* the kernel panicked

shared == <<state, pid, killed, locked>>
own == <<parent, private, borrowed>>
vars == <<shared, own, waitLock, notified, onStack, pc, child, target, nextPid, halted>>

State == {"Unused", "Used", "Sleeping", "Runnable", "Running", "Zombie"}
PC == {"none", "forkret", "user", "fork_copy", "fork_parent", "fork_run", "fork_undo",
       "exit", "exit_zombie", "wait", "wait_sleep", "wait_woken", "sleep_woken", "yielded"}

Children(s) == {c \in Slot : parent[c] = s}

(* The thread of s executes kernel or user code.                           *)
Runs(s) == state[s] = "Running" /\ s \notin locked

(* A freshly booted kernel: only init exists.                              *)
Init ==
  /\ state = [s \in Slot |-> IF s = InitSlot THEN "Runnable" ELSE "Unused"]
  /\ pid = [s \in Slot |-> IF s = InitSlot THEN 1 ELSE 0]
  /\ killed = {}
  /\ locked = {}
  /\ parent = [s \in Slot |-> None]
  /\ private = {InitSlot}
  /\ borrowed = {}
  /\ waitLock = None
  /\ notified = {}
  /\ onStack = {}
  /\ pc = [s \in Slot |-> IF s = InitSlot THEN "forkret" ELSE "none"]
  /\ child = [s \in Slot |-> None]
  /\ target = [s \in Slot |-> 0]
  /\ nextPid = 2
  /\ halted = FALSE

Goto(s, l) == pc' = [pc EXCEPT ![s] = l]

-----------------------------------------------------------------------------
(* Scheduler.                                                              *)

(* schedule: a CPU locks a runnable process and switches to it.            *)
Dispatch(s) ==
  /\ state[s] = "Runnable"
  /\ s \notin locked
  /\ state' = [state EXCEPT ![s] = "Running"]
  /\ locked' = locked \cup {s}
  /\ onStack' = onStack \cup {s}
  /\ UNCHANGED <<pid, killed, own, waitLock, notified, pc, child, target, nextPid, halted>>

(* sched, then the rest of schedule's iteration: the CPU leaves the stack  *)
(* of a process that is no longer running and unlocks it.                  *)
Switch(s) ==
  /\ s \in locked \cap onStack
  /\ state[s] \in {"Sleeping", "Runnable", "Zombie"}
  /\ onStack' = onStack \ {s}
  /\ locked' = locked \ {s}
  /\ UNCHANGED <<state, pid, killed, own, waitLock, notified, pc, child, target, nextPid, halted>>

(* The dispatched thread unlocks itself and goes on: in forkret, after     *)
(* yield_, or in sleep_common, where a killed sleeper gets an error.       *)
Resumed(s) ==
  CASE pc[s] = "wait_woken" /\ s \notin killed ->
         IF s \in notified THEN "wait" ELSE "wait_sleep"
    [] OTHER -> "user"

Resume(s) ==
  /\ state[s] = "Running"
  /\ s \in locked
  /\ Resumed(s) = "wait_sleep" => waitLock = None
  /\ waitLock' = IF Resumed(s) = "wait_sleep" THEN s ELSE waitLock
  /\ IF pc[s] = "forkret" /\ s \in borrowed
     THEN halted' = TRUE /\ UNCHANGED pc
     ELSE Goto(s, Resumed(s)) /\ UNCHANGED halted
  /\ locked' = locked \ {s}
  /\ UNCHANGED <<state, pid, killed, own, notified, onStack, child, target, nextPid>>

(* trap_user on a timer interrupt: a killed process exits instead.         *)
Yield(s) ==
  /\ Runs(s) /\ pc[s] = "user" /\ s \notin killed
  /\ state' = [state EXCEPT ![s] = "Runnable"]
  /\ locked' = locked \cup {s}
  /\ Goto(s, "yielded")
  /\ UNCHANGED <<pid, killed, own, waitLock, notified, onStack, child, target, nextPid, halted>>

-----------------------------------------------------------------------------
(* fork.                                                                   *)

Syscall(s) == Runs(s) /\ pc[s] = "user" /\ s \notin killed

(* Proc::free.                                                             *)
Free(c) ==
  /\ parent' = [parent EXCEPT ![c] = None]
  /\ pid' = [pid EXCEPT ![c] = 0]
  /\ killed' = killed \ {c}
  /\ state' = [state EXCEPT ![c] = "Unused"]

(* Proc::allocate: an unused slot gets a pid and private data and is       *)
(* returned locked; init_private panics on leftovers.                      *)
Allocate(s, n) ==
  /\ Syscall(s)
  /\ nextPid <= MaxPid
  /\ state[n] = "Unused" /\ n \notin locked
  /\ nextPid' = nextPid + 1
  /\ pid' = [pid EXCEPT ![n] = nextPid]
  /\ state' = [state EXCEPT ![n] = "Used"]
  /\ locked' = locked \cup {n}
  /\ IF n \in private \cup borrowed
     THEN halted' = TRUE /\ UNCHANGED <<private, borrowed, pc, child>>
     ELSE /\ private' = private \cup {n}
          /\ borrowed' = borrowed \cup {n}
          /\ child' = [child EXCEPT ![s] = n]
          /\ Goto(s, "fork_copy")
          /\ UNCHANGED halted
  /\ UNCHANGED <<killed, parent, waitLock, notified, onStack, target>>

(* allocate fails: UserPageTable::new has no memory, and the slot is freed *)
(* again; only the pid is gone.                                            *)
AllocateFails(s) ==
  /\ Syscall(s)
  /\ nextPid <= MaxPid
  /\ \E n \in Slot \ locked : state[n] = "Unused"
  /\ nextPid' = nextPid + 1
  /\ UNCHANGED <<shared, own, waitLock, notified, onStack, pc, child, halted, target>>

(* The memory, registers, files and directory of the parent are copied.    *)
ForkCopy(s) ==
  /\ Runs(s) /\ pc[s] = "fork_copy"
  /\ locked' = locked \ {child[s]}
  /\ Goto(s, "fork_parent")
  /\ UNCHANGED <<state, pid, killed, own, waitLock, notified, onStack, child, target, nextPid, halted>>

(* The memory cannot be copied: free and unlock the slot ...               *)
ForkCopyFails(s) ==
  /\ Runs(s) /\ pc[s] = "fork_copy"
  /\ Free(child[s])
  /\ locked' = locked \ {child[s]}
  /\ Goto(s, "fork_undo")
  /\ UNCHANGED <<private, borrowed, waitLock, notified, onStack, child, target, nextPid, halted>>

(* ... and, on return, give back the borrowed private data.                *)
ForkUndo(s) ==
  /\ Runs(s) /\ pc[s] = "fork_undo"
  /\ borrowed' = borrowed \ {child[s]}
  /\ child' = [child EXCEPT ![s] = None]
  /\ Goto(s, "user")
  /\ UNCHANGED <<shared, parent, private, waitLock, notified, onStack, target, nextPid, halted>>

ForkSetParent(s) ==
  /\ Runs(s) /\ pc[s] = "fork_parent"
  /\ waitLock = None
  /\ parent' = [parent EXCEPT ![child[s]] = s]
  /\ Goto(s, "fork_run")
  /\ UNCHANGED <<shared, private, borrowed, waitLock, notified, onStack, child, target, nextPid, halted>>

(* The private data is given back before the child becomes runnable.       *)
ForkRun(s) ==
  /\ Runs(s) /\ pc[s] = "fork_run"
  /\ child[s] \notin locked
  /\ borrowed' = borrowed \ {child[s]}
  /\ state' = [state EXCEPT ![child[s]] = "Runnable"]
  /\ pc' = [pc EXCEPT ![s] = "user", ![child[s]] = "forkret"]
  /\ child' = [child EXCEPT ![s] = None]
  /\ UNCHANGED <<pid, killed, locked, parent, private, waitLock, notified, onStack, target, nextPid, halted>>

-----------------------------------------------------------------------------
(* exit.                                                                   *)

(* A trap of a killed process, or the system call.                         *)
ExitBegin(s) ==
  /\ Runs(s) /\ pc[s] = "user"
  /\ IF s = InitSlot
     THEN s \in killed /\ halted' = TRUE /\ UNCHANGED pc  \* "init exiting"
     ELSE Goto(s, "exit") /\ UNCHANGED halted
  /\ UNCHANGED <<shared, own, waitLock, notified, onStack, child, target, nextPid>>

(* SpinLockCondVar::notify on child_ended of the slots in S.  wakeup locks *)
(* each process, so it waits for the one that is just falling asleep.      *)
Notify(S) ==
  /\ S \cap locked = {}
  /\ notified' = notified \cup S
  /\ state' = [s \in Slot |->
       IF s \in S /\ state[s] = "Sleeping" /\ pc[s] = "wait_woken" THEN "Runnable" ELSE state[s]]

(* Faulty variant: WAIT_LOCK is released before the process is a zombie.   *)
ExitUnlocked(s) ==
  /\ Runs(s) /\ pc[s] = "exit"
  /\ waitLock = None
  /\ parent' = [c \in Slot |-> IF parent[c] = s THEN InitSlot ELSE parent[c]]
  /\ Notify({p \in Slot : p = parent[s] \/ (p = InitSlot /\ Children(s) # {})})
  /\ Goto(s, "exit_zombie")
  /\ UNCHANGED <<pid, killed, locked, private, borrowed, waitLock, onStack, child, target, nextPid, halted>>

(* reparent, then the wakeup of the parent, under WAIT_LOCK.               *)
ExitNotify(s) ==
  /\ Runs(s) /\ pc[s] = "exit"
  /\ waitLock = None
  /\ waitLock' = s
  /\ parent' = [c \in Slot |-> IF parent[c] = s THEN InitSlot ELSE parent[c]]
  /\ Notify({p \in Slot : p = parent[s] \/ (p = InitSlot /\ Children(s) # {})})
  /\ Goto(s, "exit_zombie")
  /\ UNCHANGED <<pid, killed, locked, private, borrowed, onStack, child, target, nextPid, halted>>

(* Lock the process, bury it, release WAIT_LOCK and call sched.            *)
ExitZombie(s) ==
  /\ Runs(s) /\ pc[s] = "exit_zombie"
  /\ state' = [state EXCEPT ![s] = "Zombie"]
  /\ locked' = locked \cup {s}
  /\ private' = private \ {s}
  /\ waitLock' = None
  /\ Goto(s, "none")
  /\ UNCHANGED <<pid, killed, parent, borrowed, notified, onStack, child, target, nextPid, halted>>

-----------------------------------------------------------------------------
(* wait.                                                                   *)

(* init only ever waits for any process (ov6_services init).               *)
WaitBegin(s, t) ==
  /\ Syscall(s)
  /\ s = InitSlot => t = 0
  /\ target' = [target EXCEPT ![s] = t]
  /\ Goto(s, "wait")
  /\ UNCHANGED <<shared, own, waitLock, notified, onStack, child, nextPid, halted>>

(* Faulty variant: any process is taken for a pid.                         *)
TargetsByPid(s) == {c \in Children(s) : target[s] = pid[c]}

(* The children a scan looks at.                                           *)
Targets(s) == {c \in Children(s) : target[s] \in {0, pid[c]}}

(* A scan under WAIT_LOCK.                                                 *)
Scans(s) ==
  /\ Runs(s) /\ pc[s] = "wait"
  /\ waitLock = None

(* Locking the zombie waits until it has left its stack.                   *)
WaitReap(s, c) ==
  /\ Scans(s)
  /\ c \in Targets(s)
  /\ c \notin locked
  /\ state[c] = "Zombie"
  /\ Free(c)
  /\ Goto(s, "user")
  /\ UNCHANGED <<locked, private, borrowed, waitLock, notified, onStack, child, target, nextPid, halted>>

WaitNoTarget(s) ==
  /\ Scans(s)
  /\ Targets(s) = {}
  /\ Goto(s, "user")
  /\ UNCHANGED <<shared, own, waitLock, notified, onStack, child, target, nextPid, halted>>

(* No zombie yet: CondVar::wait reads its counter, WAIT_LOCK still held.   *)
WaitNotYet(s) ==
  /\ Scans(s)
  /\ Targets(s) # {}
  /\ \A c \in Targets(s) : state[c] # "Zombie"
  /\ waitLock' = s
  /\ notified' = notified \ {s}
  /\ Goto(s, "wait_sleep")
  /\ UNCHANGED <<shared, own, onStack, child, target, nextPid, halted>>

(* sleep_common: lock the process, release WAIT_LOCK, sleep.               *)
WaitSleep(s) ==
  /\ Runs(s) /\ pc[s] = "wait_sleep"
  /\ waitLock = s
  /\ waitLock' = None
  /\ IF s \in killed
     THEN Goto(s, "user") /\ UNCHANGED <<state, locked>>
     ELSE /\ state' = [state EXCEPT ![s] = "Sleeping"]
          /\ locked' = locked \cup {s}
          /\ Goto(s, "wait_woken")
  /\ UNCHANGED <<pid, killed, own, notified, onStack, child, target, nextPid, halted>>

-----------------------------------------------------------------------------
(* sleep on any other condition, kills.                             *)

Sleep(s) ==
  /\ Syscall(s)
  /\ state' = [state EXCEPT ![s] = "Sleeping"]
  /\ locked' = locked \cup {s}
  /\ Goto(s, "sleep_woken")
  /\ UNCHANGED <<pid, killed, own, waitLock, notified, onStack, child, target, nextPid, halted>>


(* wakeup by whoever makes the other condition true.                       *)
Wakeup(s) ==
  /\ state[s] = "Sleeping" /\ pc[s] = "sleep_woken"
  /\ s \notin locked
  /\ state' = [state EXCEPT ![s] = "Runnable"]
  /\ UNCHANGED <<pid, killed, locked, own, waitLock, notified, onStack, pc, child, target, nextPid, halted>>

Kill(s, v) ==
  /\ Syscall(s)
  /\ pid[v] # 0
  /\ v \notin locked
  /\ killed' = killed \cup {v}
  /\ state' = [state EXCEPT ![v] = IF @ = "Sleeping" THEN "Runnable" ELSE @]
  /\ UNCHANGED <<pid, locked, own, waitLock, notified, onStack, pc, child, target, nextPid, halted>>

-----------------------------------------------------------------------------
ForkStep(s) ==
  \/ ForkCopy(s) \/ ForkCopyFails(s) \/ ForkUndo(s) \/ ForkSetParent(s) \/ ForkRun(s)

ExitStep(s) == ExitNotify(s) \/ ExitZombie(s)

WaitStep(s) ==
  \/ \E c \in Slot : WaitReap(s, c)
  \/ WaitNoTarget(s) \/ WaitNotYet(s) \/ WaitSleep(s)

UserStep(s) ==
  \/ \E n \in Slot : Allocate(s, n) \/ Kill(s, n)
  \/ AllocateFails(s) \/ ExitBegin(s) \/ Sleep(s) \/ Yield(s)
  \/ \E t \in WaitFor : WaitBegin(s, t)

SchedStep(s) == Dispatch(s) \/ Switch(s) \/ Resume(s)

Running ==
  ~ halted /\ \E s \in Slot : SchedStep(s) \/ ForkStep(s) \/ ExitStep(s) \/ WaitStep(s)
                                \/ UserStep(s) \/ Wakeup(s)

(* A panicked kernel stays where it is.                                    *)
Halted == halted /\ UNCHANGED vars

Next == Running \/ Halted

Spec == Init /\ [][Next]_vars

(* CPUs keep scheduling, kernel code runs on, a killed process traps into  *)
(* the kernel, and init, whose other sleeps are for the disk, returns to   *)
(* its wait_any loop.  Strong fairness where a spin lock that others take  *)
(* again and again must be taken: a spinning CPU gets it in the end.       *)
Fairness ==
  /\ \A s \in Slot :
       /\ WF_vars(~ halted /\ SchedStep(s))
       /\ SF_vars(~ halted /\ (ForkStep(s) \/ ExitStep(s) \/ WaitStep(s)))
       /\ WF_vars(~ halted /\ s \in killed /\ ExitBegin(s))
  /\ WF_vars(~ halted /\ Wakeup(InitSlot))
  /\ SF_vars(~ halted /\ WaitBegin(InitSlot, 0))

FairSpec == Spec /\ Fairness

-----------------------------------------------------------------------------
(* Properties.                                                             *)

(* Every variable has its type; a slot has a pid exactly while it is used, *)
(* no two processes share one, and WAIT_LOCK is held only on the way out   *)
(* of exit or into sleep.                                                  *)
TypeOK ==
  /\ state \in [Slot -> State]
  /\ pid \in [Slot -> 0..MaxPid]
  /\ {killed, locked, private, borrowed, notified, onStack} \subseteq SUBSET Slot
  /\ parent \in [Slot -> Slot \cup {None}]
  /\ waitLock \in Slot \cup {None}
  /\ pc \in [Slot -> PC]
  /\ child \in [Slot -> Slot \cup {None}]
  /\ target \in [Slot -> WaitFor]
  /\ nextPid \in 2..MaxPid+1
  /\ halted \in BOOLEAN
  /\ \A s \in Slot : pid[s] = 0 <=> state[s] = "Unused"
  /\ \A s, t \in Slot : pid[s] = pid[t] /\ pid[s] # 0 => s = t
  /\ waitLock # None => pc[waitLock] \in {"exit_zombie", "wait_sleep"}

Alive(s) == state[s] \in {"Runnable", "Running", "Sleeping"}

(* A process that exists has a parent that has not exited: exit hands its  *)
(* children to init before it becomes a zombie, and no fork can add one    *)
(* behind its back.                                                        *)
ParentIsAlive ==
  \A s \in Slot \ {InitSlot} : Alive(s) \/ state[s] = "Zombie" =>
    parent[s] # None /\ Alive(parent[s])

(* A kernel stack in use belongs to a running process or to a locked one,  *)
(* so that no CPU can dispatch it and no parent can free it ("Make sure    *)
(* the child isn't still in exit() or switch()").                          *)
StackIsGuarded ==
  \A s \in onStack : s \notin locked => state[s] = "Running"

(* No exit is missed: a parent asleep in wait has no zombie among the      *)
(* children it waits for, although exit notifies before it sets Zombie.    *)
NoMissedExit ==
  \A s \in Slot : state[s] = "Sleeping" /\ pc[s] = "wait_woken" =>
    \A c \in Targets(s) : state[c] # "Zombie"

(* A child's first run finds its private data and can borrow it.           *)
ForkretFindsPrivate ==
  \A s \in Slot : pc[s] = "forkret" => s \in private \ borrowed

(* Init reaps every zombie that was handed to it.                          *)
OrphansAreReaped ==
  \A c \in Slot : state[c] = "Zombie" /\ parent[c] = InitSlot
                     ~> state[c] # "Zombie" \/ halted


(* "Frees a proc structure and the data hangind from it, including user    *)
(* pages" (Proc::free): an unused slot keeps no private data.              *)
FreeReleasesPrivate ==
  \A s \in Slot : state[s] = "Unused" => s \notin private

(* Where a thread is, given the state of its slot: a slot without a thread *)
(* has none, and one that is not executing is parked where it gave up the  *)
(* CPU.                                                                    *)
Parked == {"forkret", "yielded", "wait_woken", "sleep_woken"}
ThreadMatchesState ==
  \A s \in Slot :
    /\ state[s] \in {"Unused", "Used", "Zombie"} => pc[s] = "none"
    /\ state[s] = "Sleeping" => pc[s] \in {"wait_woken", "sleep_woken"}
    /\ state[s] = "Runnable" \/ (state[s] = "Running" /\ s \in locked) => pc[s] \in Parked
    /\ state[s] \in {"Unused", "Used"} => s \notin onStack

(* A slot that fork fills is the forking thread's alone until it runs.     *)
Forking == {s \in Slot : pc[s] \in {"fork_copy", "fork_parent", "fork_run"}}
ForkOwnsChild ==
  /\ \A s \in Forking :
       /\ child[s] \in private /\ state[child[s]] = "Used"
       /\ pc[s] = "fork_run" => parent[child[s]] = s
  /\ \A s, t \in Forking : child[s] = child[t] => s = t

(* allocate_pid never hands out a pid again.                                *)
PidsAreFresh == \A s \in Slot : pid[s] < nextPid

(* Init never leaves, so that it can be handed children.                   *)
InitStays == Alive(InitSlot) /\ pc[InitSlot] \notin {"exit", "exit_zombie"}

(* Between reparent and Zombie a process holds WAIT_LOCK, has no children  *)
(* left and has notified its parent.                                       *)
ExitIsAnnounced ==
  \A s \in Slot : pc[s] = "exit_zombie" =>
    waitLock = s /\ Children(s) = {} /\ parent[s] \in notified

(* A waiter that was not notified since it last looked has nothing to      *)
(* reap, and it is asleep only while it was not.                           *)
WaiterIsCurrent ==
  \A s \in Slot :
    /\ pc[s] = "wait_sleep" => waitLock = s /\ s \notin notified
    /\ pc[s] = "wait_woken" /\ state[s] = "Sleeping" => s \notin notified
    /\ pc[s] \in {"wait_sleep", "wait_woken"} /\ s \notin notified =>
         \A c \in Targets(s) : state[c] # "Zombie"

(* What fork, exit, wait, kill and the scheduler keep of the process       *)
(* table: living parents, kernel stacks of one user, zombies nobody        *)
(* misses, and private data where forkret looks for it; with what these    *)
(* rest on, so that every step keeps the whole.                            *)
ProcInv ==
  /\ TypeOK
  /\ ParentIsAlive
  /\ StackIsGuarded
  /\ NoMissedExit
  /\ ForkretFindsPrivate
  /\ ThreadMatchesState
  /\ ForkOwnsChild
  /\ InitStays
  /\ ExitIsAnnounced
  /\ WaiterIsCurrent
  /\ PidsAreFresh
=============================================================================
