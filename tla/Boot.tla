------------------------------- MODULE Boot -------------------------------
(* Bringing the machine up: main.rs on every hart, the OnceInit cells that     *)
(* hold the kernel's global objects (once_init/src/lib.rs), the first process  *)
(* (proc/ops.rs, forkret_init) that finishes the initialization of the file    *)
(* system asleep and awake, and the interrupts that come meanwhile: a hart     *)
(* serves them from its first pass of schedule(), and stops in wfi when it     *)
(* finds nothing to run (proc/scheduler.rs).                                   *)
(* The devices and what their registers do are external.                       *)
EXTENDS Integers, Sequences

CONSTANTS Harts       \* 0 is the one that boots

VARIABLES cell,       \* OnceInit cells: "empty", "writing", "ready"
          at,         \* the next step of each hart's main() and of init
          writing,    \* who is between the two stores of a cell's init
          started,    \* STARTED
          ready,      \* per hart: what was set up for it
          sched,      \* per hart: "boot", "scan", "none" found, "idle", "wfi"
          initp,      \* the first process: "none", "runnable", "running", "asleep"
          raised,     \* interrupts that wait at the PLIC
          kicked,     \* harts whose software interrupt is pending
          halted      \* a panic

vars == <<cell, at, writing, started, ready, sched, initp, raised, kicked, halted>>

Cells == {"Test", "Pages", "KernelPt", "Inodes", "LruMap", "LruValue", "Cache", "Disk",
          "Files", "InitProc", "Driver", "Ports", "SuperBlock", "Log"}

Sets(c, uses) == [act |-> "init", cell |-> c, uses |-> uses]
Does(act, uses) == [act |-> act, cell |-> "none", uses |-> uses]

HartSteps == << Does("paging", {"KernelPt"}), Does("vector", {}), Does("plic", {}) >>

(* fs::init, file::init, spawn_init, pci::init and net::init, one cell each. *)
FsSteps == << Sets("Inodes", {}), Sets("LruMap", {}), Sets("LruValue", {}),
              Sets("Cache", {"LruMap"}), Sets("Disk", {"Pages"}) >>
SpawnSteps == << Sets("InitProc", {"Pages"}), Does("spawn", {"Inodes"}) >>
NicSteps == << Sets("Driver", {"Pages"}), Does("nic", {"Driver"}) >>
DeviceSteps == NicSteps \o << Sets("Ports", {}) >>

MainSteps ==
  << Does("console", {}), Sets("Test", {}), Sets("Pages", {}), Sets("KernelPt", {"Pages"}) >>
  \o HartSteps \o FsSteps \o << Sets("Files", {}) >> \o SpawnSteps \o DeviceSteps
  \o << Does("start", {}) >>

OtherSteps == << Does("wait", {}) >> \o HartSteps

(* forkret_init: each block it reads puts it to sleep.  exec needs them all. *)
InitSteps ==
  << Does("sleep", {"Cache", "Disk", "LruMap", "LruValue"}), Sets("SuperBlock", {"Cache"}),
     Does("sleep", {"SuperBlock", "Cache", "Disk"}), Sets("Log", {"SuperBlock", "Cache"}),
     Does("exec", {"Log", "SuperBlock", "Inodes", "Cache", "Disk", "Pages"}) >>

Threads == Harts \cup {-1}
First == -1
Steps(t) == IF t = First THEN InitSteps ELSE IF t = 0 THEN MainSteps ELSE OtherSteps
Done(t) == at[t] > Len(Steps(t))

Init ==
  /\ cell = [c \in Cells |-> "empty"]
  /\ at = [t \in Threads |-> 1]
  /\ writing = [t \in Threads |-> FALSE]
  /\ started = FALSE
  /\ ready = [h \in Harts |-> {}]
  /\ sched = [h \in Harts |-> "boot"]
  /\ initp = "none"
  /\ raised = {} /\ kicked = {}
  /\ halted = FALSE

-----------------------------------------------------------------------------
(* try_get and get: None, and a panic, until the value is complete. *)
Gets(uses) == \A c \in uses : cell[c] = "ready"

(* init: the first to exchange `initializing` writes; a second one panics. *)
BeginInit(t, c) ==
  /\ halted' = (cell[c] # "empty")
  /\ cell' = [cell EXCEPT ![c] = IF @ = "empty" THEN "writing" ELSE @]
  /\ writing' = [writing EXCEPT ![t] = (cell[c] = "empty")]
  /\ UNCHANGED <<at, started, ready, initp>>

EndInit(t, c) ==
  /\ cell' = [cell EXCEPT ![c] = "ready"]
  /\ writing' = [writing EXCEPT ![t] = FALSE]
  /\ at' = [at EXCEPT ![t] = @ + 1]
  /\ UNCHANGED <<started, ready, initp, halted>>

(* A hart other than 0 spins on STARTED. *)
MayPass == started

(* The steps that set up no cell. *)
Perform(t, act) ==
  /\ act = "wait" => MayPass
  /\ started' = (started \/ act = "start")
  /\ ready' = IF act \in {"paging", "vector", "plic", "console", "nic"}
                THEN [ready EXCEPT ![t] = @ \cup {act}] ELSE ready
  /\ initp' = CASE act = "spawn" -> "runnable" [] act = "sleep" -> "asleep" [] OTHER -> initp
  /\ at' = [at EXCEPT ![t] = @ + 1]
  /\ UNCHANGED <<cell, writing, halted>>

Panic == halted' = TRUE /\ UNCHANGED <<cell, at, writing, started, ready, initp>>

Step(t) ==
  LET s == Steps(t)[at[t]]
  IN /\ ~halted /\ ~Done(t)
     /\ \/ writing[t] /\ EndInit(t, s.cell)
        \/ ~writing[t] /\ Gets(s.uses) /\ s.act = "init" /\ BeginInit(t, s.cell)
        \/ ~writing[t] /\ Gets(s.uses) /\ s.act # "init" /\ Perform(t, s.act)
        \/ ~writing[t] /\ ~Gets(s.uses) /\ (s.act = "wait" => MayPass) /\ Panic

Main(h) == sched[h] = "boot" /\ Step(h) /\ UNCHANGED <<sched, raised, kicked>>

(* forkret_init on hart h; asleep, its hart goes on with its scan. *)
InitRuns(h) ==
  /\ sched[h] = "init" /\ initp = "running"
  /\ Step(First)
  /\ sched' = [sched EXCEPT ![h] = IF initp' = "asleep" THEN "scan" ELSE @]
  /\ UNCHANGED <<raised, kicked>>

-----------------------------------------------------------------------------
(* schedule(): interrupts are enabled from its first line. *)
EnterScheduler(h) ==
  /\ ~halted /\ sched[h] = "boot" /\ Done(h)
  /\ sched' = [sched EXCEPT ![h] = "scan"]
  /\ UNCHANGED <<cell, at, writing, started, ready, initp, raised, kicked, halted>>

(* The scan of the process table, then the idle flag, then wfi. *)
Scan(h) ==
  /\ ~halted
  /\ \/ /\ sched[h] = "scan" /\ initp = "runnable"
        /\ initp' = "running" /\ sched' = [sched EXCEPT ![h] = "init"]
     \/ /\ sched[h] = "scan" /\ initp # "runnable"
        /\ sched' = [sched EXCEPT ![h] = "none"] /\ UNCHANGED initp
     \/ /\ sched[h] = "none"
        /\ sched' = [sched EXCEPT ![h] = "idle"] /\ UNCHANGED initp
     \/ /\ sched[h] = "idle"
        /\ sched' = [sched EXCEPT ![h] = "wfi"] /\ UNCHANGED initp
  /\ UNCHANGED <<cell, at, writing, started, ready, raised, kicked, halted>>

Enabled(h) == sched[h] # "boot"
Woken(h) == [sched EXCEPT ![h] = IF @ = "wfi" THEN "scan" ELSE @]

(* Faulty variant: the timer does not end wfi.                                 *)
NoTick(h) == FALSE

(* The timer of every hart; wfi returns after any interrupt. *)
Ticks(h) == Enabled(h)
Timer(h) ==
  /\ ~halted /\ Ticks(h) /\ sched[h] = "wfi"
  /\ sched' = Woken(h)
  /\ UNCHANGED <<cell, at, writing, started, ready, initp, raised, kicked, halted>>

(* The software interrupt of wakeup. *)
Kick(h) ==
  /\ ~halted /\ h \in kicked /\ Enabled(h)
  /\ kicked' = kicked \ {h}
  /\ sched' = Woken(h)
  /\ UNCHANGED <<cell, at, writing, started, ready, initp, raised, halted>>

(* trap_kernel, handle_dev_interrupt and the device's handler.  The disk's     *)
(* wakes the process, and the wakeup kicks one idle hart other than its own.   *)
IdleBut(h) == {g \in Harts \ {h} : sched[g] \in {"idle", "wfi"}}
FirstOf(S) == {g \in S : \A k \in S : g <= k}
Interrupt(h, d) ==
  /\ ~halted /\ d \in raised /\ Enabled(h) /\ "plic" \in ready[h]
  /\ raised' = raised \ {d}
  /\ sched' = Woken(h)
  /\ halted' = ~( /\ {"vector", "paging"} \subseteq ready[h]
                  /\ d = "disk" => Gets({"Disk"})
                  /\ d = "nic" => Gets({"Driver"}))
  /\ initp' = IF d = "disk" /\ initp = "asleep" THEN "runnable" ELSE initp
  /\ kicked' = IF initp' # initp THEN kicked \cup FirstOf(IdleBut(h)) ELSE kicked
  /\ UNCHANGED <<cell, at, writing, started, ready>>

(* The devices: the disk ends the request, a frame or a key arrives. *)
Raise(d) ==
  /\ ~halted /\ d \notin raised
  /\ CASE d = "disk" -> initp = "asleep"
       [] d = "nic" -> "nic" \in ready[0]
       [] d = "uart" -> "console" \in ready[0]
  /\ raised' = raised \cup {d}
  /\ UNCHANGED <<cell, at, writing, started, ready, sched, initp, kicked, halted>>

Next ==
  \/ \E h \in Harts :
       \/ Main(h) \/ EnterScheduler(h) \/ InitRuns(h) \/ Scan(h) \/ Timer(h) \/ Kick(h)
       \/ \E d \in raised : Interrupt(h, d)
  \/ \E d \in {"disk", "nic", "uart"} : Raise(d)

(* Every hart runs, its timer goes off, the disk answers and the PLIC gives    *)
(* an interrupt to some hart that takes it.                                    *)
HartRuns(h) == Main(h) \/ EnterScheduler(h) \/ InitRuns(h) \/ Scan(h)
DiskServed == Raise("disk") \/ \E h \in Harts : Interrupt(h, "disk")
Fairness ==
  /\ \A h \in Harts : WF_vars(HartRuns(h)) /\ WF_vars(Timer(h))
  /\ WF_vars(DiskServed)

Spec == Init /\ [][Next]_vars
LiveSpec == Spec /\ Fairness

-----------------------------------------------------------------------------
(* No hart, interrupt handler or process uses a global object before its init  *)
(* is over, no cell is initialized twice, and no interrupt is taken by a hart  *)
(* without trap vector and page table: the order of main(), the spin on        *)
(* STARTED and the disabled interrupts are enough.                             *)
NothingUsedEarly == ~halted

(* The first process gets to user code: although its hart goes to sleep while  *)
(* it waits for the disk, and a wakeup that comes between a hart's scan and    *)
(* its idle flag kicks nobody, the next timer interrupt makes up for it.       *)
InitReachesUser == <>Done(First)

(* What the start of the machine comes to: nothing is used before main() and   *)
(* kmain set it up, and the first process runs user code.                      *)
BootsUp == []NothingUsedEarly /\ InitReachesUser
=============================================================================
