------------------------------- MODULE Traps -------------------------------
(* Traps into the kernel and back: the trampoline, trap_user, trap_user_ret,   *)
(* kernel_vec and trap_kernel (ov6_kernel/src/interrupt/), the interrupt flag  *)
(* and the depth of push_disabled (interrupt/mod.rs), the switches between a   *)
(* process and a hart's scheduler (proc/scheduler.rs) and the alarm's signal   *)
(* handler (proc/mod.rs).                                                      *)
(*                                                                             *)
(* A hart runs user code, the kernel thread of a process or its scheduler.     *)
(* Code that runs with interrupts off takes one step on its hart.  A program   *)
(* counter is a small number, Sig in the handler; registers are represented    *)
(* by one, x, in user code and by t0 and t1 in the kernel.                     *)
EXTENDS Integers, Sequences

CONSTANTS Harts, Procs,
          Sched       \* the scheduler thread of a hart

VARIABLES thread,     \* what each hart runs: a process or Sched
          mode,       \* "user" or "kernel"
          sie,        \* interrupts enabled in the kernel
          stvec,      \* where traps of the hart go: "uservec" or "kernelvec"
          sepc, spp,  \* of the latest trap of the hart
          tp,         \* the hart's idea of its number
          depth,      \* push_depth of the hart
          intena,     \* int_enabled of the hart
          ctx,        \* registers of each running thread, by hart
          tf,         \* trapframe of each process: [epc, x, hartid]
          frames,     \* what kernel_vec and trap_kernel saved on the stack of a process
          status,     \* ProcState
          point,      \* where the kernel thread of a process is
          saved,      \* int_enabled as sched saved it
          sig,        \* signal_handler_state: <<>> or <<[epc, x]>>
          alarm,      \* an alarm is set
          doomed,
          want        \* what user code should go on with: a stack of contexts

trapVars == <<thread, mode, sie, stvec, sepc, spp, tp, depth, intena, ctx, tf, frames,
              status, point, saved, sig, alarm, doomed, want>>

procvars == <<tf, frames, status, point, saved, sig, alarm, doomed, want>>

Sig == 2                                 \* the signal handler
UserPc == {0, 1, Sig}
Body == 3                                \* kernel code of a process
Loop == 4                                \* schedule
Live == -1                               \* what the code left in a register
KernelCtx(pc) == [pc |-> pc, t0 |-> Live, t1 |-> Live]

TrapInit ==
  /\ thread = [h \in Harts |-> Sched]
  /\ mode = [h \in Harts |-> "kernel"]
  /\ sie = [h \in Harts |-> TRUE]
  /\ stvec = [h \in Harts |-> "kernelvec"]
  /\ sepc = [h \in Harts |-> 0]
  /\ spp = [h \in Harts |-> "kernel"]
  /\ tp = [h \in Harts |-> h]
  /\ depth = [h \in Harts |-> 0]
  /\ intena = [h \in Harts |-> FALSE]
  /\ ctx = [h \in Harts |-> KernelCtx(Loop)]
  /\ tf = [p \in Procs |-> [epc |-> 0, x |-> 0, hartid |-> 0]]
  /\ frames = [p \in Procs |-> <<>>]
  /\ status = [p \in Procs |-> "Runnable"]
  /\ point = [p \in Procs |-> "forkret"]
  /\ saved = [p \in Procs |-> FALSE]
  /\ sig = [p \in Procs |-> <<>>]
  /\ alarm = [p \in Procs |-> FALSE]
  /\ doomed = [p \in Procs |-> FALSE]
  /\ want = [p \in Procs |-> <<[pc |-> 0, x |-> 0]>>]

-----------------------------------------------------------------------------
(* Switches between a process and the scheduler.                               *)

(* sched: int_enabled is the thread's, so it is kept across the switch.  The   *)
(* scheduler then releases the process and goes round its loop.                *)
ToScheduler(h, p, st, at, ena) ==
  /\ status' = [status EXCEPT ![p] = st]
  /\ point' = [point EXCEPT ![p] = at]
  /\ saved' = [saved EXCEPT ![p] = ena]
  /\ thread' = [thread EXCEPT ![h] = Sched]
  /\ ctx' = [ctx EXCEPT ![h] = KernelCtx(Loop)]
  /\ depth' = [depth EXCEPT ![h] = 0]
  /\ intena' = [intena EXCEPT ![h] = ena]
  /\ sie' = [sie EXCEPT ![h] = TRUE]

(* schedule: take a runnable process; interrupts go off with its lock.         *)
Schedule(h, p) ==
  /\ thread[h] = Sched /\ mode[h] = "kernel" /\ sie[h]
  /\ status[p] = "Runnable"
  /\ status' = [status EXCEPT ![p] = "Running"]
  /\ thread' = [thread EXCEPT ![h] = p]
  /\ depth' = [depth EXCEPT ![h] = 1]
  /\ intena' = [intena EXCEPT ![h] = TRUE]
  /\ sie' = [sie EXCEPT ![h] = FALSE]
  /\ ctx' = [ctx EXCEPT ![h] = KernelCtx(Body)]
  /\ UNCHANGED <<mode, stvec, sepc, spp, tp, tf, frames, point, saved, sig, alarm, doomed, want>>

(* Faulty variant: the hart keeps the interrupt flag of its last thread.       *)
KeepInt(p, ena) == ena

(* The process goes on where it called sched, or in forkret, and releases its  *)
(* lock: interrupts are on again if they were when it took it.                 *)
RestoreInt(p, ena) == IF point[p] = "forkret" THEN ena ELSE saved[p]

ResumeThread(h) ==
  LET p == thread[h]
      ena == RestoreInt(p, intena[h])
  IN /\ p \in Procs /\ mode[h] = "kernel" /\ depth[h] = 1
     /\ point[p] \in {"forkret", "yielded", "slept", "preempted"}
     /\ intena' = [intena EXCEPT ![h] = ena]
     /\ depth' = [depth EXCEPT ![h] = 0]
     /\ sie' = [sie EXCEPT ![h] = ena]
     /\ point' = [point EXCEPT ![p] = CASE @ = "slept" -> "syscall"
                                        [] @ = "preempted" -> "trapkernel"
                                        [] OTHER -> "return"]
     /\ UNCHANGED <<thread, mode, stvec, sepc, spp, tp, ctx, tf, frames, status, saved, sig, alarm, doomed, want>>

-----------------------------------------------------------------------------
(* User code.                                                                  *)

(* User code goes from what was restored to any other point and register       *)
(* before the next trap; it leaves its signal handler by a call only.          *)
UserRuns(h, pc, x) == mode[h] = "user" /\ (ctx[h].pc = Sig <=> pc = Sig) /\ x \in 0..1

(* The hardware's part of a trap, and user_vec: the registers go to the        *)
(* trapframe, which says which hart this is.                                   *)
UserVec(h, pc, x) ==
  LET p == thread[h]
  IN /\ UserRuns(h, pc, x) /\ stvec[h] = "uservec"
     /\ mode' = [mode EXCEPT ![h] = "kernel"]
     /\ spp' = [spp EXCEPT ![h] = "user"]
     /\ sepc' = [sepc EXCEPT ![h] = pc]
     /\ tf' = [tf EXCEPT ![p].epc = pc, ![p].x = x]
     /\ tp' = [tp EXCEPT ![h] = tf[p].hartid]
     /\ stvec' = [stvec EXCEPT ![h] = "kernelvec"]
     /\ UNCHANGED <<frames, sig, alarm>>

(* trap_user for a system call: a killed process exits, otherwise the program  *)
(* counter moves past the call, and interrupts go on.                          *)
UserCall(h, pc, x) ==
  LET p == thread[h]
      next == IF pc = Sig THEN Sig ELSE (pc + 1) % 2
  IN /\ UserRuns(h, pc, x) /\ ~doomed[p]
     /\ mode' = [mode EXCEPT ![h] = "kernel"]
     /\ spp' = [spp EXCEPT ![h] = "user"]
     /\ sepc' = [sepc EXCEPT ![h] = pc]
     /\ tf' = [tf EXCEPT ![p].epc = next, ![p].x = x]
     /\ tp' = [tp EXCEPT ![h] = tf[p].hartid]
     /\ stvec' = [stvec EXCEPT ![h] = "kernelvec"]
     /\ want' = [want EXCEPT ![p][1] = [pc |-> next, x |-> x]]
     /\ sie' = [sie EXCEPT ![h] = TRUE]
     /\ ctx' = [ctx EXCEPT ![h] = KernelCtx(Body)]
     /\ point' = [point EXCEPT ![p] = "syscall"]
     /\ UNCHANGED <<thread, depth, intena, frames, status, saved, sig, alarm, doomed>>

UserCallKilled(h, pc, x) ==
  LET p == thread[h]
  IN /\ UserVec(h, pc, x) /\ doomed[p]
     /\ ToScheduler(h, p, "Zombie", "gone", FALSE)
     /\ UNCHANGED <<doomed, want>>

(* trap_user for an interrupt or an exception.  Another exception than a store *)
(* the process may make kills it.  Interrupts stay off.                        *)
UserTrap(h, pc, x, cause) ==
  LET p == thread[h]
  IN /\ UserVec(h, pc, x)
     /\ ctx' = [ctx EXCEPT ![h] = KernelCtx(Body)]
     /\ sie' = [sie EXCEPT ![h] = FALSE]
     /\ doomed' = [doomed EXCEPT ![p] = @ \/ cause = "exception"]
     /\ point' = [point EXCEPT ![p] = IF cause = "timer" THEN "tick" ELSE "tail"]
     /\ want' = [want EXCEPT ![p][1] = [pc |-> pc, x |-> x]]
     /\ UNCHANGED <<thread, depth, intena, status, saved>>

-----------------------------------------------------------------------------
(* System calls, with interrupts on.                                           *)

InCall(h) == thread[h] \in Procs /\ mode[h] = "kernel" /\ point[thread[h]] = "syscall" /\ sie[h]

(* Kernel code computes with its registers.                                    *)
KernelStep(h) ==
  /\ InCall(h)
  /\ ctx' = [ctx EXCEPT ![h] = KernelCtx(Body)]
  /\ UNCHANGED <<thread, mode, sie, stvec, sepc, spp, tp, depth, intena>> /\ UNCHANGED procvars

AlarmCall(h, on) ==
  /\ InCall(h) /\ alarm' = [alarm EXCEPT ![thread[h]] = on]
  /\ point' = [point EXCEPT ![thread[h]] = "tail"]
  /\ UNCHANGED <<thread, mode, sie, stvec, sepc, spp, tp, depth, intena, ctx, tf, frames,
                 status, saved, sig, doomed, want>>

(* What sigreturn returns: the register as it was, for the result of a call is *)
(* written over it.                                                            *)
ReturnSaved(p) == sig[p][1].x

(* exit_from_signal_handler: the interrupted context comes back, or an error.  *)
SignalReturn(h) ==
  LET p == thread[h]
  IN /\ InCall(h)
     /\ \/ /\ sig[p] = <<>> /\ UNCHANGED <<sig, tf, want>>
        \/ /\ sig[p] # <<>>
           /\ tf' = [tf EXCEPT ![p].epc = sig[p][1].epc, ![p].x = ReturnSaved(p)]
           /\ sig' = [sig EXCEPT ![p] = <<>>]
           /\ want' = [want EXCEPT ![p] = Tail(@)]
     /\ point' = [point EXCEPT ![p] = "tail"]
     /\ UNCHANGED <<thread, mode, sie, stvec, sepc, spp, tp, depth, intena, ctx, frames,
                    status, saved, alarm, doomed>>

(* Any other call: its result goes to the trapframe.                           *)
OtherCall(h, x) ==
  LET p == thread[h]
  IN /\ InCall(h)
     /\ tf' = [tf EXCEPT ![p].x = x]
     /\ want' = [want EXCEPT ![p][1].x = x]
     /\ point' = [point EXCEPT ![p] = "tail"]
     /\ UNCHANGED <<thread, mode, sie, stvec, sepc, spp, tp, depth, intena, ctx, frames,
                    status, saved, sig, alarm, doomed>>

(* sleep: the process takes its own lock, and int_enabled says interrupts were *)
(* on when it did.                                                             *)
SleepProc(h) ==
  LET p == thread[h]
  IN /\ InCall(h)
     /\ ToScheduler(h, p, "Sleeping", "slept", sie[h])
     /\ UNCHANGED <<mode, stvec, sepc, spp, tp, tf, frames, sig, alarm, doomed, want>>

WakeProc(p) ==
  /\ status[p] = "Sleeping"
  /\ status' = [status EXCEPT ![p] = "Runnable"]
  /\ UNCHANGED <<thread, mode, sie, stvec, sepc, spp, tp, depth, intena, ctx, tf, frames,
                 point, saved, sig, alarm, doomed, want>>

(* kill wakes a process that sleeps.                                           *)
KillProc(p) ==
  /\ doomed' = [doomed EXCEPT ![p] = TRUE]
  /\ status' = [status EXCEPT ![p] = IF @ = "Sleeping" THEN "Runnable" ELSE @]
  /\ UNCHANGED <<thread, mode, sie, stvec, sepc, spp, tp, depth, intena, ctx, tf, frames,
                 point, saved, sig, alarm, want>>

-----------------------------------------------------------------------------
(* The way back to user code.                                                  *)

(* enter_signal_handler: not again while the handler runs.                     *)
EnterHandler(p) ==
  IF sig[p] # <<>> THEN UNCHANGED <<tf, sig, want>>
  ELSE /\ sig' = [sig EXCEPT ![p] = <<[epc |-> tf[p].epc, x |-> tf[p].x]>>]
       /\ tf' = [tf EXCEPT ![p].epc = Sig]
       /\ want' = [want EXCEPT ![p] = <<[pc |-> Sig, x |-> tf[p].x]>> \o @]

(* The end of trap_user: exit when killed, an expired alarm enters its         *)
(* handler, a timer interrupt gives up the processor.  The slot of a process   *)
(* that exits is not used again here.                                          *)
Tail1(h) ==
  LET p == thread[h]
  IN /\ p \in Procs /\ mode[h] = "kernel" /\ point[p] \in {"tail", "tick"}
     /\ \/ /\ doomed[p]
           /\ ToScheduler(h, p, "Zombie", "gone", sie[h])
           /\ UNCHANGED <<tf, sig, want>>
        \/ /\ ~doomed[p]
           /\ \/ alarm[p] /\ EnterHandler(p)
              \/ UNCHANGED <<tf, sig, want>>
           /\ \/ /\ point[p] = "tick"
                 /\ ToScheduler(h, p, "Runnable", "yielded", sie[h])
              \/ /\ point[p] = "tail"
                 /\ point' = [point EXCEPT ![p] = "return"]
                 /\ UNCHANGED <<thread, sie, depth, intena, ctx, status, saved>>
     /\ UNCHANGED <<mode, stvec, sepc, spp, tp, frames, alarm, doomed>>

DisableInterrupts(h) == sie' = [sie EXCEPT ![h] = FALSE]

(* trap_user_ret, up to the jump to user_ret: interrupts off first, for traps  *)
(* go to user_vec from here on.                                                *)
TrapUserRet(h) ==
  LET p == thread[h]
  IN /\ p \in Procs /\ mode[h] = "kernel" /\ point[p] = "return"
     /\ DisableInterrupts(h)
     /\ stvec' = [stvec EXCEPT ![h] = "uservec"]
     /\ tf' = [tf EXCEPT ![p].hartid = tp[h]]
     /\ spp' = [spp EXCEPT ![h] = "user"]
     /\ sepc' = [sepc EXCEPT ![h] = tf[p].epc]
     /\ point' = [point EXCEPT ![p] = "userret"]
     /\ UNCHANGED <<thread, mode, tp, depth, intena, ctx, frames, status, saved, sig, alarm, doomed, want>>

(* user_ret: registers from the trapframe, and sret.                           *)
UserRet(h) ==
  LET p == thread[h]
  IN /\ p \in Procs /\ mode[h] = "kernel" /\ point[p] = "userret"
     /\ mode' = [mode EXCEPT ![h] = spp[h]]
     /\ sie' = [sie EXCEPT ![h] = TRUE]
     /\ ctx' = [ctx EXCEPT ![h] = [pc |-> sepc[h], x |-> tf[p].x]]
     /\ UNCHANGED <<thread, stvec, sepc, spp, tp, depth, intena>> /\ UNCHANGED procvars

-----------------------------------------------------------------------------
(* Interrupts of kernel code.                                                  *)

(* The offsets at which kernel_vec saves registers and restores them.          *)
SaveAt == [t0 |-> 24, t1 |-> 32, tp |-> 16]
LoadAt == [t0 |-> 16, t1 |-> 32]

(* What kernel_vec and the start of trap_kernel save on the thread's stack.    *)
Frame(h) ==
  LET r == [t0 |-> ctx[h].t0, t1 |-> ctx[h].t1, tp |-> tp[h]]
  IN [sepc |-> ctx[h].pc, was |-> ctx[h],
      at |-> IF thread[h] = Sched THEN "loop" ELSE point[thread[h]],
      slot |-> [o \in {16, 24, 32} |-> r[CHOOSE n \in DOMAIN SaveAt : SaveAt[n] = o]]]
Popped(f) == [pc |-> f.sepc, t0 |-> f.slot[LoadAt["t0"]], t1 |-> f.slot[LoadAt["t1"]]]

(* Faulty variant: sepc is left as the last trap set it.                       *)
LatestPc(h, f) == sepc[h]

(* trap_kernel writes back the sepc it read, for yield_ may have seen other    *)
(* traps; kernel_vec restores no tp, for the thread may have changed harts.    *)
ReturnPc(h, f) == f.sepc
ReturnTp(h, f) == tp[h]

(* An interrupt of a device, or any interrupt of the scheduler: kernel_vec and *)
(* trap_kernel to their end, with interrupts off.                              *)
DeviceTrap(h) ==
  /\ mode[h] = "kernel" /\ sie[h]
  /\ spp' = [spp EXCEPT ![h] = "kernel"]
  /\ sepc' = [sepc EXCEPT ![h] = ctx[h].pc]
  /\ ctx' = [ctx EXCEPT ![h] = Popped(Frame(h))]
  /\ tp' = [tp EXCEPT ![h] = ReturnTp(h, Frame(h))]
  /\ UNCHANGED <<thread, mode, sie, stvec, depth, intena>> /\ UNCHANGED procvars

(* A timer interrupt while a process runs: yield, from inside trap_kernel.     *)
TimerTrap(h) ==
  LET p == thread[h]
  IN /\ p \in Procs /\ mode[h] = "kernel" /\ sie[h]
     /\ spp' = [spp EXCEPT ![h] = "kernel"]
     /\ sepc' = [sepc EXCEPT ![h] = ctx[h].pc]
     /\ frames' = [frames EXCEPT ![p] = <<Frame(h)>>]
     /\ ToScheduler(h, p, "Runnable", "preempted", FALSE)
     /\ UNCHANGED <<mode, stvec, tp, tf, sig, alarm, doomed, want>>

(* The end of trap_kernel after a yield, and kernel_vec: sepc and sstatus as   *)
(* they were when the trap was taken, the registers but tp, and sret.          *)
KernelRet(h) ==
  LET p == thread[h]
      f == frames[p][1]
  IN /\ p \in Procs /\ mode[h] = "kernel" /\ point[p] = "trapkernel"
     /\ sepc' = [sepc EXCEPT ![h] = ReturnPc(h, f)]
     /\ spp' = [spp EXCEPT ![h] = "kernel"]
     /\ sie' = [sie EXCEPT ![h] = TRUE]
     /\ ctx' = [ctx EXCEPT ![h] = [Popped(f) EXCEPT !.pc = ReturnPc(h, f)]]
     /\ tp' = [tp EXCEPT ![h] = ReturnTp(h, f)]
     /\ frames' = [frames EXCEPT ![p] = <<>>]
     /\ point' = [point EXCEPT ![p] = f.at]
     /\ UNCHANGED <<thread, mode, stvec, depth, intena, tf, status, saved, sig, alarm, doomed, want>>

TrapNext ==
  \/ \E h \in Harts :
       \/ \E p \in Procs : Schedule(h, p)
       \/ ResumeThread(h)
       \/ \E pc \in UserPc, x \in 0..1 :
            \/ UserCall(h, pc, x) \/ UserCallKilled(h, pc, x)
            \/ \E c \in {"timer", "device", "exception"} : UserTrap(h, pc, x, c)
       \/ KernelStep(h) \/ \E on \in BOOLEAN : AlarmCall(h, on)
       \/ SignalReturn(h) \/ \E x \in 0..1 : OtherCall(h, x)
       \/ SleepProc(h) \/ Tail1(h) \/ TrapUserRet(h) \/ UserRet(h)
       \/ DeviceTrap(h) \/ TimerTrap(h) \/ KernelRet(h)
  \/ \E p \in Procs : WakeProc(p) \/ KillProc(p)

TrapSpec == TrapInit /\ [][TrapNext]_trapVars

-----------------------------------------------------------------------------

(* A trap goes to the vector of the code it interrupts: user code is always    *)
(* interrupted through user_vec and kernel code through kernel_vec, which is   *)
(* what trap_user and trap_kernel assert of the previous mode.                 *)
VectorMatchesMode ==
  \A h \in Harts : /\ mode[h] = "user" => stvec[h] = "uservec" /\ thread[h] \in Procs
                   /\ mode[h] = "kernel" /\ sie[h] => stvec[h] = "kernelvec"

(* User code goes on exactly where it was interrupted, with its registers,     *)
(* after the results of its calls and the handler of its alarm, whatever ran   *)
(* on the hart in between.                                                     *)
UserCodeUndisturbed ==
  \A h \in Harts : mode[h] = "user" => ctx[h] = want[thread[h]][1]

(* The tp register is the hart's number wherever kernel code uses it, although *)
(* a process moves between harts inside a trap.                                *)
HartIdIsRight == \A h \in Harts : mode[h] = "kernel" => tp[h] = h

(* Code goes on with interrupts as it left them, on whatever hart: on in the   *)
(* body of a system call, also after it has slept or was preempted; off in a   *)
(* trap handler that was, which has one frame to return through; and a hart    *)
(* whose scheduler has nothing to run takes interrupts.                        *)
InterruptsAsBefore ==
  \A h \in Harts : mode[h] = "kernel" /\ depth[h] = 0 =>
    /\ thread[h] \in Procs /\ point[thread[h]] = "syscall" => sie[h]
    /\ thread[h] \in Procs /\ point[thread[h]] = "trapkernel" => ~sie[h]
    /\ thread[h] = Sched => sie[h]

(* Where the kernel thread of a process can be, and what its hart looks like   *)
(* there: with its lock held after a switch, in a system call with interrupts  *)
(* on, in a handler with interrupts off, on its way back, or in user code,     *)
(* which goes on as it should.                                                 *)
Switched == {"forkret", "yielded", "slept", "preempted"}
InKernel == {"syscall", "tail", "return", "tick", "trapkernel"}
HartAgrees(h) ==
  LET p == thread[h]
  IN IF p = Sched THEN mode[h] = "kernel" /\ sie[h] /\ depth[h] = 0 /\ stvec[h] = "kernelvec"
     ELSE /\ status[p] = "Running"
          /\ point[p] \in (IF depth[h] = 1 THEN Switched ELSE InKernel \cup {"userret"})
          /\ point[p] \in Switched \cup {"tick", "trapkernel", "userret"} /\ mode[h] = "kernel" => ~sie[h]
          /\ point[p] = "syscall" => sie[h]
          /\ point[p] # "userret" => mode[h] = "kernel" /\ stvec[h] = "kernelvec"
          /\ point[p] = "userret" => stvec[h] = "uservec" /\ tf[p].hartid = h
          /\ point[p] = "userret" /\ mode[h] = "kernel" => spp[h] = "user" /\ sepc[h] = tf[p].epc
HartsAgree ==
  /\ \A h \in Harts : HartAgrees(h)
  /\ \A g, h \in Harts : thread[g] = thread[h] /\ thread[g] # Sched => g = h

(* A process that no hart runs goes on where it switched, and one that was     *)
(* preempted returns through the frame of the interrupt.                       *)
FrameAgrees(f) ==
  f.at \in {"syscall", "tail", "return"} /\ f.sepc = f.was.pc /\ f.slot[LoadAt["t1"]] = f.was.t1
ProcAgrees(p) ==
  /\ status[p] \in {"Runnable", "Sleeping"} => point[p] \in Switched
  /\ point[p] = "slept" => saved[p]
  /\ point[p] = "preempted" => ~saved[p]
  /\ point[p] \in {"preempted", "trapkernel"} => frames[p] # <<>> /\ FrameAgrees(frames[p][1])
ProcsAgree == \A p \in Procs : ProcAgrees(p)

(* What user code should go on with is in the trapframe while the process is   *)
(* in the kernel, and below it, while the handler of the alarm runs, what      *)
(* sigreturn will bring back.                                                  *)
InUser(p) == \E h \in Harts : thread[h] = p /\ mode[h] = "user"
ContextKept(p) ==
  /\ ~InUser(p) => want[p][1] = [pc |-> tf[p].epc, x |-> tf[p].x]
  /\ Len(want[p]) = 1 + Len(sig[p]) /\ Len(sig[p]) \in {0, 1}
  /\ want[p][1].pc = Sig <=> sig[p] # <<>>
  /\ sig[p] # <<>> => want[p][2] = [pc |-> sig[p][1].epc, x |-> sig[p][1].x] /\ sig[p][1].epc # Sig
ContextsKept == \A p \in Procs : point[p] # "gone" => ContextKept(p)

(* Every variable has its type.                                                *)
TrapTypeOK ==
  /\ thread \in [Harts -> Procs \cup {Sched}] /\ mode \in [Harts -> {"user", "kernel"}]
  /\ sie \in [Harts -> BOOLEAN] /\ stvec \in [Harts -> {"uservec", "kernelvec"}]
  /\ spp \in [Harts -> {"user", "kernel"}] /\ tp \in [Harts -> Harts \cup {0}]
  /\ depth \in [Harts -> {0, 1}] /\ intena \in [Harts -> BOOLEAN]
  /\ DOMAIN sepc = Harts /\ DOMAIN ctx = Harts
  /\ tf \in [Procs -> [epc : UserPc, x : 0..1, hartid : Harts \cup {0}]]
  /\ DOMAIN frames = Procs
  /\ status \in [Procs -> {"Runnable", "Running", "Sleeping", "Zombie"}]
  /\ point \in [Procs -> Switched \cup InKernel \cup {"userret", "gone"}]
  /\ saved \in [Procs -> BOOLEAN] /\ alarm \in [Procs -> BOOLEAN] /\ doomed \in [Procs -> BOOLEAN]
  /\ sig \in [Procs -> Seq([epc : UserPc, x : 0..1])]
  /\ want \in [Procs -> Seq([pc : UserPc, x : 0..1])]

(* What traps, yields and returns keep on every hart: the vector, the          *)
(* registers of user code, the number of the hart and its interrupt flag; with *)
(* what these rest on, so that every step keeps the whole.                     *)
TrapInv ==
  /\ TrapTypeOK
  /\ VectorMatchesMode /\ UserCodeUndisturbed /\ HartIdIsRight /\ InterruptsAsBefore
  /\ HartsAgree /\ ProcsAgree /\ ContextsKept

(* An interrupt leaves the registers of the kernel code it interrupts alone.   *)
SameCode(h, was, R) == ctx'[h].pc = was.pc /\ \A r \in R : ctx'[h][r] = was[r]
Keeps(h, R) == /\ DeviceTrap(h) => SameCode(h, ctx[h], R)
               /\ KernelRet(h) => SameCode(h, frames[thread[h]][1].was, R)

(* An interrupt is transparent to the kernel code it interrupts: it goes on at *)
(* the same instruction, on whatever hart, with the registers kernel_vec saved *)
(* and restores from the same place.                                           *)
KeepsRest == \A h \in Harts : Keeps(h, {"t1"})
InterruptIsTransparent == [][KeepsRest]_trapVars

(* kernel_vec "pops the registers": every one it saved, t0 among them.         *)
RegistersRestored == [][\A h \in Harts : Keeps(h, {"t0", "t1"})]_trapVars
=============================================================================
