---------------------------- MODULE TrapsProofs ----------------------------
(***************************************************************************)
(* The trap path keeps its invariant and interrupts are transparent, for   *)
(* any number of harts and processes.  The invariant is taken apart by     *)
(* hart and by process (Core), since every step is a step of one hart and  *)
(* the process it runs, or of one process that sleeps: StepKeeps says that *)
(* such a step need only be looked at there, and each action has a lemma   *)
(* that does it.  The contexts a process goes on with are a sequence of at *)
(* most two, the second one while its alarm handler runs.                  *)
(***************************************************************************)
EXTENDS Traps, TLAPS

(* What user code is resumed with: its place and its register.             *)
Context == [pc : UserPc, x : 0..1]

(* The first context is replaced, one is put before it, and it is removed. *)
LEMMA FirstReplaced ==
  ASSUME NEW S, NEW s \in Seq(S), s # <<>>, NEW r \in S, NEW t, t = [s EXCEPT ![1] = r]
  PROVE  t \in Seq(S) /\ Len(t) = Len(s) /\ t[1] = r /\ (Len(s) = 2 => t[2] = s[2])
<1>1. Len(s) \in Nat /\ Len(s) # 0 /\ DOMAIN s = 1..Len(s) /\ \A i \in 1..Len(s) : s[i] \in S
  OBVIOUS
<1>2. DOMAIN t = 1..Len(s) /\ \A i \in 1..Len(s) : t[i] = IF i = 1 THEN r ELSE s[i]
  BY <1>1, Zenon
<1>3. t = [i \in 1..Len(s) |-> t[i]]
  BY <1>1, Zenon
<1>4. \A i \in 1..Len(s) : t[i] \in S
  BY <1>1, <1>2, Zenon
<1>5. t \in Seq(S) /\ Len(t) = Len(s)
  BY <1>1, <1>3, <1>4
<1> QED BY <1>1, <1>2, <1>5

(* One is put before it.                                                   *)
LEMMA Prefixed ==
  ASSUME NEW S, NEW s \in Seq(S), Len(s) = 1, NEW r \in S
  PROVE  /\ <<r>> \o s \in Seq(S) /\ Len(<<r>> \o s) = 2
         /\ (<<r>> \o s)[1] = r /\ (<<r>> \o s)[2] = s[1]
OBVIOUS

(* It is removed.                                                          *)
LEMMA SecondFirst ==
  ASSUME NEW S, NEW s \in Seq(S), Len(s) = 2
  PROVE  Tail(s) \in Seq(S) /\ Len(Tail(s)) = 1 /\ Tail(s)[1] = s[2]
<1>1. s # <<>>
  OBVIOUS
<1>2. Tail(s) \in Seq(S)
  BY <1>1
<1>3. Len(Tail(s)) = 1
  BY <1>1
<1>4. \A i \in 1..1 : Tail(s)[i] = s[i + 1]
  BY <1>1
<1> QED BY <1>2, <1>3, <1>4

(* The contexts a process can have.                                        *)
LEMMA First ==
  ASSUME NEW S, NEW s \in Seq(S), Len(s) \in {1, 2}
  PROVE  s # <<>> /\ s[1] \in S /\ (Len(s) = 2 => s[2] \in S)
OBVIOUS

(* A process outside its handler has one context.                          *)
LEMMA Single ==
  ASSUME NEW S, NEW s \in Seq(S), s # <<>>, Len(s) \in {0, 1}
  PROVE  Len(s) = 1 /\ s[1] \in S
OBVIOUS

-----------------------------------------------------------------------------
(* What a step does not touch.                                             *)

(* The invariant by hart and process.                                      *)
HartKept(h) ==
  /\ HartAgrees(h)
  /\ mode[h] = "user" => ctx[h] = want[thread[h]][1]
  /\ mode[h] = "kernel" => tp[h] = h
ProcKept(p) == ProcAgrees(p) /\ (point[p] # "gone" => ContextKept(p))

(* No process runs on two harts.                                           *)
OneHart == \A g, h \in Harts : thread[g] = thread[h] /\ thread[g] # Sched => g = h
Core ==
  /\ TrapTypeOK /\ OneHart
  /\ \A h \in Harts : HartKept(h)
  /\ \A p \in Procs : ProcKept(p)

(* The harts other than h are left alone, and so are the processes other   *)
(* than p.                                                                 *)
OtherHarts(h) ==
  \A g \in Harts \ {h} :
    /\ thread'[g] = thread[g] /\ mode'[g] = mode[g] /\ sie'[g] = sie[g] /\ stvec'[g] = stvec[g]
    /\ sepc'[g] = sepc[g] /\ spp'[g] = spp[g] /\ tp'[g] = tp[g] /\ depth'[g] = depth[g] /\ ctx'[g] = ctx[g]
OtherProcs(p) ==
  \A q \in Procs \ {p} :
    /\ tf'[q] = tf[q] /\ frames'[q] = frames[q] /\ status'[q] = status[q] /\ point'[q] = point[q]
    /\ saved'[q] = saved[q] /\ sig'[q] = sig[q] /\ want'[q] = want[q]

(* A hart and its process that a step leaves alone agree as before.        *)
LEMMA HartFrame ==
  ASSUME NEW g, HartKept(g),
         thread'[g] = thread[g], mode'[g] = mode[g], sie'[g] = sie[g], stvec'[g] = stvec[g],
         sepc'[g] = sepc[g], spp'[g] = spp[g], tp'[g] = tp[g], depth'[g] = depth[g], ctx'[g] = ctx[g],
         mode[g] \in {"user", "kernel"},
         thread[g] = Sched \/ (/\ tf'[thread[g]] = tf[thread[g]] /\ status'[thread[g]] = status[thread[g]]
                              /\ point'[thread[g]] = point[thread[g]] /\ want'[thread[g]] = want[thread[g]])
  PROVE  HartKept(g)'
BY DEF HartKept, HartAgrees, Switched, InKernel

(* A process that a step leaves alone agrees as before.                    *)
LEMMA ProcFrame ==
  ASSUME NEW q, ProcKept(q), InUser(q)' <=> InUser(q),
         tf'[q] = tf[q], frames'[q] = frames[q], status'[q] = status[q], point'[q] = point[q],
         saved'[q] = saved[q], sig'[q] = sig[q], want'[q] = want[q]
  PROVE  ProcKept(q)'
BY DEF ProcKept, ProcAgrees, ContextKept, FrameAgrees, Switched, LoadAt

(* A step of hart h and process p keeps the invariant if it keeps it for   *)
(* these two and leaves the others alone.                                  *)
LEMMA StepKeeps ==
  ASSUME Sched \notin Procs, Core, NEW h \in Harts, NEW p \in Procs, OtherHarts(h), OtherProcs(p), TrapTypeOK',
         thread[h] \in {p, Sched}, thread'[h] \in {p, Sched},
         \A g \in Harts \ {h} : thread[g] # p,
         HartKept(h)', ProcKept(p)'
  PROVE  Core'
<1>1. OneHart'
  BY DEF Core, OneHart, OtherHarts
<1>2. \A g \in Harts : HartKept(g)'
  <2> SUFFICES ASSUME NEW g \in Harts \ {h} PROVE HartKept(g)'
    BY Zenon
  <2>1. thread[g] = Sched \/ thread[g] \in Procs \ {p}
    BY DEF Core, TrapTypeOK
  <2>2. HartKept(g) /\ mode[g] \in {"user", "kernel"}
    BY Zenon DEF Core, TrapTypeOK
  <2> QED BY <2>1, <2>2, HartFrame DEF OtherHarts, OtherProcs
<1>3. \A q \in Procs : ProcKept(q)'
  <2> SUFFICES ASSUME NEW q \in Procs \ {p} PROVE ProcKept(q)'
    BY Zenon
  <2>1. InUser(q)' <=> InUser(q)
    BY DEF InUser, OtherHarts
  <2> QED BY <2>1, ProcFrame, Zenon DEF OtherProcs, Core
<1> QED BY <1>1, <1>2, <1>3, Zenon DEF Core

-----------------------------------------------------------------------------
(* The steps.                                                              *)

(* What is known of a hart and the process it runs.                        *)
LEMMA Runs ==
  ASSUME Sched \notin Procs, Core, NEW h \in Harts, NEW p \in Procs, thread[h] = p
  PROVE  /\ status[p] = "Running" /\ point[p] # "gone" /\ HartKept(h) /\ ProcKept(p) /\ TrapTypeOK
         /\ \A g \in Harts \ {h} : thread[g] # p
         /\ InUser(p) <=> mode[h] = "user"
<1>1. HartKept(h) /\ ProcKept(p) /\ TrapTypeOK /\ p # Sched
  BY Zenon DEF Core
<1>2. status[p] = "Running" /\ point[p] # "gone"
  BY <1>1, Zenon DEF HartKept, HartAgrees, Switched, InKernel
<1>3. \A g \in Harts \ {h} : thread[g] # p
  BY <1>1, Zenon DEF Core, OneHart
<1> QED BY <1>1, <1>2, <1>3, Zenon DEF InUser

(* A process that is not running runs on no hart.                          *)
LEMMA Rests ==
  ASSUME Sched \notin Procs, Core, NEW p \in Procs, status[p] # "Running"
  PROVE  /\ \A g \in Harts : thread[g] # p
         /\ ~InUser(p) /\ ProcKept(p) /\ TrapTypeOK
<1>1. ProcKept(p) /\ TrapTypeOK /\ p # Sched
  BY Zenon DEF Core
<1>2. ASSUME NEW g \in Harts, thread[g] = p PROVE FALSE
  <2>1. HartKept(g)
    BY Zenon DEF Core
  <2> QED BY <1>1, <1>2, <2>1, Zenon DEF HartKept, HartAgrees
<1> QED BY <1>1, <1>2, Zenon DEF InUser

(* schedule picks a runnable process, which no hart runs.                  *)
LEMMA ScheduleStep ==
  ASSUME Sched \notin Procs, Core, NEW h \in Harts, NEW p \in Procs, Schedule(h, p)
  PROVE  Core'
<1> USE DEF Schedule
<1>1. TrapTypeOK /\ HartKept(h) /\ thread[h] = Sched
  BY Zenon DEF Core
<1>2. \A g \in Harts : thread[g] # p
  BY Rests, Zenon
<1>3. ~InUser(p) /\ ProcKept(p)
  BY Rests, Zenon
<1>4. OtherHarts(h) /\ OtherProcs(p)
  BY <1>1, Zenon DEF TrapTypeOK, OtherHarts, OtherProcs
<1>5. TrapTypeOK'
  BY <1>1, Zenon DEF TrapTypeOK
<1>6. thread'[h] = p /\ mode'[h] = "kernel" /\ status'[p] = "Running" /\ depth'[h] = 1 /\ ~sie'[h]
  BY <1>1, Zenon DEF TrapTypeOK
<1>7. HartKept(h)'
  BY <1>1, <1>3, <1>6, Zenon DEF HartKept, HartAgrees, ProcKept, ProcAgrees, Switched
<1>8. ~InUser(p)'
  BY <1>2, <1>4, <1>6 DEF InUser, OtherHarts
<1>9. ProcKept(p)'
  BY <1>3, <1>6, <1>8, Zenon DEF ProcKept, ProcAgrees, ContextKept, FrameAgrees
<1> QED BY <1>1, <1>2, <1>4, <1>5, <1>6, <1>7, <1>9, StepKeeps, Zenon

(* A step that leaves the contexts of a process in the kernel alone.       *)
LEMMA ContextsNext ==
  ASSUME NEW p, ContextKept(p), ~InUser(p), tf'[p].epc = tf[p].epc, tf'[p].x = tf[p].x,
         sig'[p] = sig[p], want'[p] = want[p]
  PROVE  ContextKept(p)'
BY Zenon DEF ContextKept

(* A process that a step leaves in the kernel, its contexts alone.         *)
LEMMA ProcNext ==
  ASSUME NEW p, ProcKept(p), point[p] # "gone", ~InUser(p), tf'[p].epc = tf[p].epc, tf'[p].x = tf[p].x,
         sig'[p] = sig[p], want'[p] = want[p], frames'[p] = frames[p],
         status'[p] \in {"Runnable", "Sleeping"} => point'[p] \in Switched,
         point'[p] = "slept" => saved'[p], point'[p] = "preempted" => ~saved'[p],
         point'[p] \in {"preempted", "trapkernel"} => point[p] \in {"preempted", "trapkernel"}
  PROVE  ProcKept(p)'
<1>1. ContextKept(p)'
  BY ContextsNext, Zenon DEF ProcKept
<1>2. ProcAgrees(p)'
  BY Zenon DEF ProcKept, ProcAgrees, FrameAgrees
<1> QED BY <1>1, <1>2, Zenon DEF ProcKept

(* The process goes on in the kernel on this hart, with the interrupt flag *)
(* that its own sched saved.                                               *)
LEMMA ResumeStep ==
  ASSUME Sched \notin Procs, Core, NEW h \in Harts, NEW p \in Procs, p = thread[h], ResumeThread(h)
  PROVE  Core'
<1>1. p \in Procs
  BY Zenon DEF ResumeThread
<1>2. /\ status[p] = "Running" /\ point[p] # "gone" /\ HartKept(h) /\ ProcKept(p) /\ TrapTypeOK
      /\ \A g \in Harts \ {h} : thread[g] # p
      /\ InUser(p) <=> mode[h] = "user"
  BY <1>1, Runs, Zenon
<1>3. OtherHarts(h) /\ OtherProcs(p)
  BY <1>1, <1>2, Zenon DEF ResumeThread, TrapTypeOK, OtherHarts, OtherProcs
<1>4. point[p] \in Switched /\ mode[h] = "kernel" /\ depth[h] = 1
  BY Zenon DEF ResumeThread, Switched
<1>5. /\ depth'[h] = 0 /\ sie'[h] = RestoreInt(p, intena[h]) 
      /\ point'[p] = CASE point[p] = "slept" -> "syscall"
                      [] point[p] = "preempted" -> "trapkernel"
                      [] OTHER -> "return"
  BY <1>1, <1>2, Zenon DEF ResumeThread, TrapTypeOK
<1>6. TrapTypeOK'
  <2>1. RestoreInt(p, intena[h]) \in BOOLEAN
    BY <1>1, <1>2, Zenon DEF RestoreInt, TrapTypeOK
  <2>2. point'[p] \in Switched \cup InKernel
    BY <1>5, Zenon DEF InKernel
  <2>3. point' \in [Procs -> Switched \cup InKernel \cup {"userret", "gone"}]
    BY <1>1, <1>2, <2>2, Zenon DEF TrapTypeOK, ResumeThread, OtherProcs
  <2>4. sie' \in [Harts -> BOOLEAN] /\ depth' \in [Harts -> {0, 1}] /\ intena' \in [Harts -> BOOLEAN]
    BY <1>2, <2>1, Zenon DEF ResumeThread, TrapTypeOK
  <2> QED BY <1>2, <2>3, <2>4, Zenon DEF ResumeThread, TrapTypeOK
<1>7. HartKept(h)'
  <2>1. /\ point[p] = "slept" => sie'[h]
        /\ point[p] = "preempted" => ~sie'[h]
    BY <1>2, <1>5, Zenon DEF RestoreInt, ProcKept, ProcAgrees
  <2> QED BY <1>1, <1>2, <1>4, <1>5, <2>1 DEF HartKept, HartAgrees, Switched, InKernel, ResumeThread
<1>8. ProcKept(p)'
  BY <1>2, <1>4, <1>5, ProcNext DEF ResumeThread, Switched
<1> QED BY <1>1, <1>2, <1>3, <1>6, <1>7, <1>8, StepKeeps, Zenon DEF ResumeThread

(* Kernel code computes with its registers.                                *)
LEMMA KernelStepStep ==
  ASSUME Sched \notin Procs, Core, NEW h \in Harts, NEW p \in Procs, p = thread[h], KernelStep(h)
  PROVE  Core'
<1>1. p \in Procs
  BY Zenon DEF KernelStep, InCall
<1>2. /\ status[p] = "Running" /\ point[p] # "gone" /\ HartKept(h) /\ ProcKept(p) /\ TrapTypeOK
      /\ \A g \in Harts \ {h} : thread[g] # p
      /\ InUser(p) <=> mode[h] = "user"
  BY <1>1, Runs, Zenon
<1>3. OtherHarts(h) /\ OtherProcs(p)
  BY <1>1, <1>2, Zenon DEF KernelStep, TrapTypeOK, OtherHarts, OtherProcs, procvars
<1>4. mode[h] = "kernel"
  BY Zenon DEF KernelStep, InCall
<1>5. TrapTypeOK'
  BY <1>2, Zenon DEF KernelStep, TrapTypeOK, procvars
<1>6. HartKept(h)'
  BY <1>2, <1>4, Zenon DEF HartKept, HartAgrees, KernelStep, procvars
<1>7. ProcKept(p)'
  BY <1>1, <1>2, <1>4, ProcNext, Zenon DEF KernelStep, procvars, ProcKept, ProcAgrees
<1> QED BY <1>1, <1>2, <1>3, <1>5, <1>6, <1>7, StepKeeps, Zenon DEF KernelStep

(* A call that sets the alarm of the process and nothing else.             *)
LEMMA AlarmCallStep ==
  ASSUME Sched \notin Procs, Core, NEW h \in Harts, NEW p \in Procs, p = thread[h], NEW on \in BOOLEAN, AlarmCall(h, on)
  PROVE  Core'
<1>1. p \in Procs /\ mode[h] = "kernel" /\ point[p] = "syscall" /\ sie[h]
  BY Zenon DEF AlarmCall, InCall
<1>2. /\ status[p] = "Running" /\ point[p] # "gone" /\ HartKept(h) /\ ProcKept(p) /\ TrapTypeOK
      /\ \A g \in Harts \ {h} : thread[g] # p
      /\ InUser(p) <=> mode[h] = "user"
  BY <1>1, Runs, Zenon
<1>3. OtherHarts(h) /\ OtherProcs(p)
  BY <1>1, <1>2, Zenon DEF AlarmCall, TrapTypeOK, OtherHarts, OtherProcs
<1>4. point'[p] = "tail"
  BY <1>1, <1>2, Zenon DEF AlarmCall, TrapTypeOK
<1>5. TrapTypeOK'
  BY <1>1, <1>2, Zenon DEF AlarmCall, TrapTypeOK, InKernel
<1>6. HartKept(h)'
  BY <1>1, <1>2, <1>4 DEF HartKept, HartAgrees, AlarmCall, InKernel, Switched
<1>7. ProcKept(p)'
  BY <1>1, <1>2, <1>4, ProcNext, Zenon DEF AlarmCall
<1> QED BY <1>1, <1>2, <1>3, <1>5, <1>6, <1>7, StepKeeps, Zenon DEF AlarmCall

(* The process gives up its hart inside a system call.                     *)
LEMMA SleepStep ==
  ASSUME Sched \notin Procs, Core, NEW h \in Harts, NEW p \in Procs, p = thread[h], SleepProc(h)
  PROVE  Core'
<1>1. p \in Procs /\ mode[h] = "kernel" /\ point[p] = "syscall" /\ sie[h]
  BY Zenon DEF SleepProc, InCall
<1>2. /\ status[p] = "Running" /\ point[p] # "gone" /\ HartKept(h) /\ ProcKept(p) /\ TrapTypeOK
      /\ \A g \in Harts \ {h} : thread[g] # p
      /\ InUser(p) <=> mode[h] = "user"
  BY <1>1, Runs, Zenon
<1>3. OtherHarts(h) /\ OtherProcs(p)
  BY <1>1, <1>2, Zenon DEF SleepProc, ToScheduler, TrapTypeOK, OtherHarts, OtherProcs
<1>4. /\ point'[p] = "slept" /\ status'[p] = "Sleeping" /\ saved'[p]
      /\ thread'[h] = Sched /\ depth'[h] = 0 /\ sie'[h]
  BY <1>1, <1>2, Zenon DEF SleepProc, ToScheduler, TrapTypeOK
<1>5. TrapTypeOK'
  BY <1>1, <1>2, Zenon DEF SleepProc, ToScheduler, TrapTypeOK, Switched
<1>6. HartKept(h)'
  BY <1>1, <1>2, <1>4, Zenon DEF HartKept, HartAgrees, SleepProc, Switched
<1>7. ProcKept(p)'
  BY <1>1, <1>2, <1>4, ProcNext, Zenon DEF SleepProc, Switched
<1> QED BY <1>1, <1>2, <1>3, <1>4, <1>5, <1>6, <1>7, StepKeeps, Zenon

(* trap_user_ret writes the hart into the trapframe, with interrupts off   *)
(* once traps go to user_vec.                                              *)
LEMMA TrapUserRetStep ==
  ASSUME Sched \notin Procs, Core, NEW h \in Harts, NEW p \in Procs, p = thread[h], TrapUserRet(h)
  PROVE  Core'
<1>1. p \in Procs /\ mode[h] = "kernel" /\ point[p] = "return"
  BY Zenon DEF TrapUserRet
<1>2. /\ status[p] = "Running" /\ point[p] # "gone" /\ HartKept(h) /\ ProcKept(p) /\ TrapTypeOK
      /\ \A g \in Harts \ {h} : thread[g] # p
      /\ InUser(p) <=> mode[h] = "user"
  BY <1>1, Runs, Zenon
<1>3. OtherHarts(h) /\ OtherProcs(p)
  BY <1>1, <1>2, Zenon DEF TrapUserRet, DisableInterrupts, TrapTypeOK, OtherHarts, OtherProcs
<1>4. /\ point'[p] = "userret" /\ ~sie'[h] /\ stvec'[h] = "uservec" /\ spp'[h] = "user" /\ sepc'[h] = tf[p].epc
      /\ tf'[p] = [tf[p] EXCEPT !.hartid = tp[h]]
  BY <1>1, <1>2, Zenon DEF TrapUserRet, DisableInterrupts, TrapTypeOK
<1>5. tf'[p].epc = tf[p].epc /\ tf'[p].x = tf[p].x /\ tf'[p].hartid = h
  BY <1>1, <1>2, <1>4 DEF TrapTypeOK, HartKept
<1>6. TrapTypeOK'
  <2>1. tp[h] \in Harts \cup {0}
    BY <1>2, Zenon DEF TrapTypeOK
  <2>2. tf' \in [Procs -> [epc : UserPc, x : 0..1, hartid : Harts \cup {0}]]
    <3>1. [tf[p] EXCEPT !.hartid = tp[h]] \in [epc : UserPc, x : 0..1, hartid : Harts \cup {0}]
      <4>1. tf[p] \in [epc : UserPc, x : 0..1, hartid : Harts \cup {0}]
        BY <1>2, Zenon DEF TrapTypeOK
      <4> QED BY <2>1, <4>1, Zenon
    <3>2. tf' = [tf EXCEPT ![p] = [tf[p] EXCEPT !.hartid = tp[h]]]
      BY Zenon DEF TrapUserRet
    <3> QED BY <1>1, <1>2, <3>1, <3>2, Zenon DEF TrapTypeOK
  <2> QED BY <1>1, <1>2, <2>2, Zenon DEF TrapUserRet, DisableInterrupts, TrapTypeOK
<1>7. HartKept(h)'
  BY <1>1, <1>2, <1>4, <1>5 DEF HartKept, HartAgrees, TrapUserRet, InKernel, Switched
<1>8. ProcKept(p)'
  BY <1>1, <1>2, <1>4, <1>5, ProcNext DEF TrapUserRet
<1> QED BY <1>1, <1>2, <1>3, <1>6, <1>7, <1>8, StepKeeps, Zenon DEF TrapUserRet

(* user_ret resumes the context that the trapframe holds.                  *)
LEMMA UserRetStep ==
  ASSUME Sched \notin Procs, Core, NEW h \in Harts, NEW p \in Procs, p = thread[h], UserRet(h)
  PROVE  Core'
<1>1. p \in Procs /\ mode[h] = "kernel" /\ point[p] = "userret"
  BY Zenon DEF UserRet
<1>2. /\ status[p] = "Running" /\ point[p] # "gone" /\ HartKept(h) /\ ProcKept(p) /\ TrapTypeOK
      /\ \A g \in Harts \ {h} : thread[g] # p
      /\ InUser(p) <=> mode[h] = "user"
  BY <1>1, Runs, Zenon
<1>3. OtherHarts(h) /\ OtherProcs(p)
  BY <1>1, <1>2, Zenon DEF UserRet, procvars, TrapTypeOK, OtherHarts, OtherProcs
<1>4. spp[h] = "user" /\ sepc[h] = tf[p].epc
  BY <1>1, <1>2, Zenon DEF HartKept, HartAgrees
<1>5. mode'[h] = "user" /\ sie'[h] /\ ctx'[h] = [pc |-> tf[p].epc, x |-> tf[p].x]
  BY <1>2, <1>4, Zenon DEF UserRet, TrapTypeOK
<1>6. TrapTypeOK'
  BY <1>1, <1>2, Zenon DEF UserRet, procvars, TrapTypeOK
<1>7. HartKept(h)'
  <2>1. want[p][1] = [pc |-> tf[p].epc, x |-> tf[p].x]
    BY <1>1, <1>2, Zenon DEF ProcKept, ContextKept
  <2> QED BY <1>1, <1>2, <1>4, <1>5, <2>1, Zenon DEF HartKept, HartAgrees, UserRet, procvars, InKernel, Switched
<1>8. ProcKept(p)'
  BY <1>1, <1>2, ProcNext, Zenon DEF UserRet, procvars
<1> QED BY <1>1, <1>2, <1>3, <1>6, <1>7, <1>8, StepKeeps, Zenon DEF UserRet

(* kernel_vec saves t1 where it restores it from.                          *)
LEMMA SaveAtIs == /\ DOMAIN SaveAt = {"t0", "t1", "tp"} /\ LoadAt["t1"] = 32
                  /\ SaveAt["t0"] = 24 /\ SaveAt["t1"] = 32 /\ SaveAt["tp"] = 16
BY Zenon DEF SaveAt, LoadAt

(* What kernel_vec restores from a frame, except t0, is what it saved.     *)
LEMMA FrameIs ==
  ASSUME NEW h
  PROVE  /\ Frame(h).sepc = ctx[h].pc /\ Frame(h).was = ctx[h]
         /\ thread[h] # Sched => Frame(h).at = point[thread[h]]
         /\ Frame(h).slot[LoadAt["t1"]] = ctx[h].t1
<1>1. (CHOOSE n \in DOMAIN SaveAt : SaveAt[n] = 32) = "t1"
  BY SaveAtIs
<1>2. Frame(h).slot[32] = [t0 |-> ctx[h].t0, t1 |-> ctx[h].t1, tp |-> tp[h]]["t1"]
  BY <1>1, Zenon DEF Frame
<1>3. /\ Frame(h).sepc = ctx[h].pc /\ Frame(h).was = ctx[h]
      /\ thread[h] # Sched => Frame(h).at = point[thread[h]]
  BY Zenon DEF Frame
<1> QED BY <1>2, <1>3, SaveAtIs, Zenon

(* An interrupt that does not yield leaves its hart as it was.             *)
LEMMA DeviceTrapStep ==
  ASSUME Sched \notin Procs, Core, NEW h \in Harts, DeviceTrap(h)
  PROVE  Core'
<1>1. TrapTypeOK /\ OneHart /\ HartKept(h)
  BY Zenon DEF Core
<1>2. TrapTypeOK' /\ OneHart'
  <2>1. tp[h] \in Harts \cup {0}
    BY <1>1, Zenon DEF TrapTypeOK
  <2> QED BY <1>1, <2>1, Zenon DEF DeviceTrap, procvars, ReturnTp, TrapTypeOK, OneHart
<1>3. ASSUME NEW g \in Harts PROVE HartKept(g)'
  <2>1. CASE g = h
    BY <1>1, <2>1, Zenon DEF HartKept, HartAgrees, DeviceTrap, procvars, ReturnTp, TrapTypeOK
  <2>2. CASE g # h
    <3>1. HartKept(g) /\ mode[g] \in {"user", "kernel"}
      BY <1>1, Zenon DEF Core, TrapTypeOK
    <3>2. sepc'[g] = sepc[g] /\ spp'[g] = spp[g] /\ tp'[g] = tp[g] /\ ctx'[g] = ctx[g]
      BY <1>1, <2>2, Zenon DEF DeviceTrap, TrapTypeOK
    <3> QED BY <3>1, <3>2, HartFrame, Zenon DEF DeviceTrap, procvars
  <2> QED BY <2>1, <2>2, Zenon
<1>4. ASSUME NEW q \in Procs PROVE ProcKept(q)'
  <2>1. ProcKept(q) /\ (InUser(q)' <=> InUser(q))
    BY Zenon DEF Core, InUser, DeviceTrap
  <2> QED BY <2>1, ProcFrame, Zenon DEF DeviceTrap, procvars
<1> QED BY <1>2, <1>3, <1>4, Zenon DEF Core

(* A timer interrupt in the kernel yields with a frame on the stack.       *)
LEMMA TimerTrapStep ==
  ASSUME Sched \notin Procs, Core, NEW h \in Harts, NEW p \in Procs, p = thread[h], TimerTrap(h)
  PROVE  Core'
<1>1. mode[h] = "kernel" /\ sie[h]
  BY Zenon DEF TimerTrap
<1>2. /\ status[p] = "Running" /\ point[p] # "gone" /\ HartKept(h) /\ ProcKept(p) /\ TrapTypeOK
      /\ \A g \in Harts \ {h} : thread[g] # p
      /\ InUser(p) <=> mode[h] = "user"
  BY <1>1, Runs, Zenon
<1>3. OtherHarts(h) /\ OtherProcs(p)
  BY <1>1, <1>2, Zenon DEF TimerTrap, ToScheduler, TrapTypeOK, OtherHarts, OtherProcs
<1>4. /\ point'[p] = "preempted" /\ status'[p] = "Runnable" /\ ~saved'[p] /\ frames'[p] = <<Frame(h)>>
      /\ thread'[h] = Sched /\ depth'[h] = 0 /\ sie'[h]
  BY <1>1, <1>2, Zenon DEF TimerTrap, ToScheduler, TrapTypeOK
<1>5. point[p] \in {"syscall", "tail", "return"} /\ stvec[h] = "kernelvec" /\ tp[h] = h
  BY <1>1, <1>2, Zenon DEF HartKept, HartAgrees, Switched, InKernel
<1>6. TrapTypeOK'
  BY <1>1, <1>2, Zenon DEF TimerTrap, ToScheduler, TrapTypeOK, Switched
<1>7. HartKept(h)'
  BY <1>1, <1>4, <1>5, Zenon DEF HartKept, HartAgrees, TimerTrap
<1>8. ProcKept(p)'
  <2>1. ContextKept(p)'
    BY <1>1, <1>2, ContextsNext, Zenon DEF TimerTrap, ProcKept
  <2>2. FrameAgrees(Frame(h))
    BY <1>5, FrameIs DEF FrameAgrees
  <2>3. frames'[p] # <<>> /\ frames'[p][1] = Frame(h)
    BY <1>4
  <2>4. FrameAgrees(frames[p][1])'
    BY <2>2, <2>3, Zenon DEF FrameAgrees
  <2>5. ProcAgrees(p)'
    BY <1>4, <2>3, <2>4, Zenon DEF ProcAgrees, Switched
  <2> QED BY <2>1, <2>5, Zenon DEF ProcKept
<1> QED BY <1>2, <1>3, <1>4, <1>6, <1>7, <1>8, StepKeeps, Zenon

(* kernel_vec returns to the code of the frame; tp names this hart.        *)
LEMMA KernelRetStep ==
  ASSUME Sched \notin Procs, Core, NEW h \in Harts, NEW p \in Procs, p = thread[h], KernelRet(h)
  PROVE  Core'
<1>1. mode[h] = "kernel" /\ point[p] = "trapkernel"
  BY Zenon DEF KernelRet
<1>2. /\ status[p] = "Running" /\ point[p] # "gone" /\ HartKept(h) /\ ProcKept(p) /\ TrapTypeOK
      /\ \A g \in Harts \ {h} : thread[g] # p
      /\ InUser(p) <=> mode[h] = "user"
  BY <1>1, Runs, Zenon
<1>3. OtherHarts(h) /\ OtherProcs(p)
  BY <1>1, <1>2, Zenon DEF KernelRet, TrapTypeOK, OtherHarts, OtherProcs
<1>4. point'[p] \in {"syscall", "tail", "return"} /\ sie'[h] /\ tp'[h] = h
  <2>1. frames[p][1].at \in {"syscall", "tail", "return"}
    BY <1>1, <1>2, Zenon DEF ProcKept, ProcAgrees, FrameAgrees
  <2>2. point'[p] = frames[p][1].at /\ sie'[h] /\ tp'[h] = tp[h]
    BY <1>2, Zenon DEF KernelRet, TrapTypeOK, ReturnTp
  <2> QED BY <1>1, <1>2, <2>1, <2>2, Zenon DEF HartKept
<1>5. TrapTypeOK'
  <2>1. point' \in [Procs -> Switched \cup InKernel \cup {"userret", "gone"}]
    BY <1>2, <1>4, Zenon DEF KernelRet, TrapTypeOK, InKernel
  <2>2. tp' \in [Harts -> Harts \cup {0}]
    BY <1>2, Zenon DEF KernelRet, TrapTypeOK, ReturnTp
  <2> QED BY <1>2, <2>1, <2>2, Zenon DEF KernelRet, TrapTypeOK
<1>6. HartKept(h)'
  BY <1>1, <1>2, <1>4 DEF HartKept, HartAgrees, KernelRet, InKernel, Switched
<1>7. ProcKept(p)'
  <2>1. ContextKept(p)'
    BY <1>1, <1>2, ContextsNext, Zenon DEF KernelRet, ProcKept
  <2>2. ProcAgrees(p)'
    BY <1>2, <1>4, Zenon DEF ProcAgrees, KernelRet
  <2> QED BY <2>1, <2>2, Zenon DEF ProcKept
<1> QED BY <1>2, <1>3, <1>5, <1>6, <1>7, StepKeeps, Zenon DEF KernelRet

(* A process that sleeps becomes runnable.                                 *)
LEMMA Wakes ==
  ASSUME Sched \notin Procs, Core, NEW p \in Procs, status[p] = "Sleeping",
         status' = [status EXCEPT ![p] = "Runnable"], doomed' \in [Procs -> BOOLEAN],
         UNCHANGED <<thread, mode, sie, stvec, sepc, spp, tp, depth, intena, ctx, tf, frames,
                     point, saved, sig, alarm, want>>
  PROVE  Core'
<1>1. TrapTypeOK /\ OneHart /\ ProcKept(p) /\ \A g \in Harts : thread[g] # p
  BY Rests, Zenon DEF Core
<1>2. \A q \in Procs \ {p} : status'[q] = status[q]
  BY <1>1, Zenon DEF TrapTypeOK
<1>3. TrapTypeOK' /\ OneHart'
  BY <1>1, Zenon DEF TrapTypeOK, OneHart
<1>4. ASSUME NEW g \in Harts PROVE HartKept(g)'
  <2>1. HartKept(g) /\ mode[g] \in {"user", "kernel"} /\ (thread[g] = Sched \/ thread[g] \in Procs \ {p})
    BY <1>1 DEF Core, TrapTypeOK
  <2> QED BY <1>2, <2>1, HartFrame, Zenon
<1>5. ASSUME NEW q \in Procs PROVE ProcKept(q)'
  <2>1. ProcKept(q) /\ (InUser(q)' <=> InUser(q))
    BY Zenon DEF Core, InUser
  <2>2. CASE q # p
    BY <1>2, <2>1, <2>2, ProcFrame, Zenon
  <2>3. CASE q = p
    <3>1. ProcAgrees(p)'
      BY <1>1, Zenon DEF ProcKept, ProcAgrees, FrameAgrees
    <3>2. point[p] # "gone" => ContextKept(p)'
      BY <1>1, <2>1, <2>3, Zenon DEF ProcKept, ContextKept
    <3> QED BY <2>3, <3>1, <3>2, Zenon DEF ProcKept
  <2> QED BY <2>2, <2>3, Zenon
<1> QED BY <1>3, <1>4, <1>5, Zenon DEF Core

(* The killed flags are not part of the invariant.                         *)
LEMMA Marks ==
  ASSUME Core, UNCHANGED <<thread, mode, sie, stvec, sepc, spp, tp, depth, intena, ctx, tf, frames,
                           status, point, saved, sig, alarm, want>>,
         doomed' \in [Procs -> BOOLEAN]
  PROVE  Core'
<1>1. TrapTypeOK' /\ OneHart'
  BY Zenon DEF Core, TrapTypeOK, OneHart
<1>2. ASSUME NEW g \in Harts PROVE HartKept(g)'
  <2>1. HartKept(g) /\ mode[g] \in {"user", "kernel"}
    BY Zenon DEF Core, TrapTypeOK
  <2> QED BY <2>1, HartFrame, Zenon
<1>3. ASSUME NEW q \in Procs PROVE ProcKept(q)'
  <2>1. ProcKept(q) /\ (InUser(q)' <=> InUser(q))
    BY Zenon DEF Core, InUser
  <2> QED BY <2>1, ProcFrame, Zenon
<1> QED BY <1>1, <1>2, <1>3, Zenon DEF Core

(* wakeup.                                                                 *)
LEMMA WakeupStep ==
  ASSUME Sched \notin Procs, Core, NEW p \in Procs, WakeProc(p)
  PROVE  Core'
<1>1. doomed' \in [Procs -> BOOLEAN]
  BY Zenon DEF WakeProc, Core, TrapTypeOK
<1> QED BY <1>1, Wakes, Zenon DEF WakeProc

(* kill.                                                                   *)
LEMMA KillStep ==
  ASSUME Sched \notin Procs, Core, NEW p \in Procs, KillProc(p)
  PROVE  Core'
<1>1. doomed' \in [Procs -> BOOLEAN]
  BY Zenon DEF KillProc, Core, TrapTypeOK
<1>2. CASE status[p] = "Sleeping"
  <2>1. status' = [status EXCEPT ![p] = "Runnable"]
    BY <1>2, Zenon DEF KillProc
  <2> QED BY <1>1, <1>2, <2>1, Wakes, Zenon DEF KillProc
<1>3. CASE status[p] # "Sleeping"
  <2>1. status' = status
    BY <1>3, Zenon DEF KillProc, Core, TrapTypeOK
  <2> QED BY <1>1, <2>1, Marks, Zenon DEF KillProc
<1> QED BY <1>2, <1>3, Zenon

(* The contexts of a process that traps or makes a call: the one it goes   *)
(* on with is the new one, and it is in the handler as before.             *)
LEMMA ContextReplaced ==
  ASSUME NEW p, ContextKept(p), want[p] \in Seq(Context), NEW pc \in UserPc, NEW x \in 0..1,
         want'[p] = [want[p] EXCEPT ![1] = [pc |-> pc, x |-> x]], sig'[p] = sig[p],
         tf'[p].epc = pc, tf'[p].x = x, pc = Sig <=> want[p][1].pc = Sig
  PROVE  ContextKept(p)' /\ want'[p] \in Seq(Context)
<1> DEFINE c == [pc |-> pc, x |-> x]
<1>1. c \in Context /\ c.pc = pc
  BY Zenon DEF Context
<1>2. Len(want[p]) = 1 + Len(sig[p]) /\ Len(sig[p]) \in {0, 1} /\ want[p] # <<>>
  BY First DEF ContextKept
<1>3. want'[p] = [want[p] EXCEPT ![1] = c]
  BY Zenon
<1> HIDE DEF c
<1>4. /\ want'[p] \in Seq(Context) /\ Len(want'[p]) = Len(want[p]) /\ want'[p][1] = c
      /\ Len(want[p]) = 2 => want'[p][2] = want[p][2]
  BY <1>1, <1>2, <1>3, FirstReplaced
<1>5. want'[p][1] = [pc |-> tf'[p].epc, x |-> tf'[p].x] /\ want'[p][1].pc = pc
  BY <1>1, <1>4, Zenon DEF c
<1> QED BY <1>2, <1>4, <1>5 DEF ContextKept

(* The trapframe, and a trap or call that saves the user context in it.    *)
Trapframe == [epc : UserPc, x : 0..1, hartid : Harts \cup {0}]
Writes(p, e, x) == tf' = [tf EXCEPT ![p] = [tf[p] EXCEPT !.epc = e, !.x = x]]
(* The trapframe then holds the context, and its hart as before.           *)
LEMMA FrameWritten ==
  ASSUME TrapTypeOK, NEW p \in Procs, NEW e \in UserPc, NEW x \in 0..1, Writes(p, e, x)
  PROVE  /\ tf' \in [Procs -> Trapframe] /\ tf'[p].epc = e /\ tf'[p].x = x /\ tf'[p].hartid = tf[p].hartid
         /\ \A q \in Procs \ {p} : tf'[q] = tf[q]
<1> DEFINE r == [tf[p] EXCEPT !.epc = e, !.x = x]
<1>1. tf \in [Procs -> Trapframe] /\ tf[p] \in Trapframe
  BY Zenon DEF TrapTypeOK, Trapframe
<1>2. r \in Trapframe /\ r.epc = e /\ r.x = x /\ r.hartid = tf[p].hartid
  BY <1>1, Zenon DEF Trapframe
<1> HIDE DEF r
<1>3. tf' = [tf EXCEPT ![p] = r]
  BY Zenon DEF r, Writes
<1> QED BY <1>1, <1>2, <1>3, Zenon

(* User code that can trap: the trap goes to user_vec, the trapframe names *)
(* the hart, and the code is what the process should go on with.           *)
LEMMA UserIs ==
  ASSUME Sched \notin Procs, Core, NEW h \in Harts, mode[h] = "user"
  PROVE  /\ thread[h] \in Procs /\ point[thread[h]] = "userret" /\ depth[h] = 0
         /\ stvec[h] = "uservec" /\ tf[thread[h]].hartid = h /\ ctx[h] = want[thread[h]][1]
<1>1. HartKept(h) /\ thread[h] \in Procs \cup {Sched} /\ depth[h] \in {0, 1}
  BY Zenon DEF Core, TrapTypeOK
<1>2. thread[h] # Sched
  BY <1>1, Zenon DEF HartKept, HartAgrees
<1>3. point[thread[h]] = "userret"
  BY <1>1, <1>2, Zenon DEF HartKept, HartAgrees
<1> QED BY <1>1, <1>2, <1>3, Zenon DEF HartKept, HartAgrees, Switched

(* A trap or a call replaces the context the process goes on with.         *)
Replaces(p, e, x) == want' = [want EXCEPT ![p] = [want[p] EXCEPT ![1] = [pc |-> e, x |-> x]]]
LEMMA Replaced ==
  ASSUME TrapTypeOK, NEW p \in Procs, ProcKept(p), point[p] # "gone", NEW e \in UserPc, NEW x \in 0..1,
         e = Sig <=> want[p][1].pc = Sig, Writes(p, e, x), Replaces(p, e, x), sig'[p] = sig[p]
  PROVE  /\ tf' \in [Procs -> Trapframe] /\ tf'[p].hartid = tf[p].hartid
         /\ want' \in [Procs -> Seq(Context)] /\ ContextKept(p)'
         /\ \A q \in Procs \ {p} : tf'[q] = tf[q] /\ want'[q] = want[q]
<1>1. /\ tf' \in [Procs -> Trapframe] /\ tf'[p].epc = e /\ tf'[p].x = x /\ tf'[p].hartid = tf[p].hartid
      /\ \A q \in Procs \ {p} : tf'[q] = tf[q]
  BY FrameWritten, Zenon
<1>2. want \in [Procs -> Seq(Context)] /\ want[p] \in Seq(Context)
  BY Zenon DEF TrapTypeOK, Context
<1>3. want'[p] = [want[p] EXCEPT ![1] = [pc |-> e, x |-> x]]
  BY <1>2, Zenon DEF Replaces
<1>4. ContextKept(p) /\ want[p] \in Seq(Context)
  BY <1>2, Zenon DEF ProcKept
<1>5. ContextKept(p)' /\ want'[p] \in Seq(Context)
  BY <1>1, <1>3, <1>4, ContextReplaced, Zenon
<1>6. want' \in [Procs -> Seq(Context)] /\ \A q \in Procs \ {p} : want'[q] = want[q]
  BY <1>2, <1>3, <1>5, Zenon DEF Replaces
<1> QED BY <1>1, <1>5, <1>6, Zenon

(* ecall: the process goes on after the instruction.                       *)
LEMMA UserCallStep ==
  ASSUME Sched \notin Procs, Core, NEW h \in Harts, NEW p, p = thread[h],
         NEW pc \in UserPc, NEW x \in 0..1, UserCall(h, pc, x)
  PROVE  Core'
<1> DEFINE next == IF pc = Sig THEN Sig ELSE (pc + 1) % 2
<1>0. mode[h] = "user" /\ (ctx[h].pc = Sig <=> pc = Sig) /\ next \in UserPc /\ (next = Sig <=> pc = Sig)
  BY DEF UserCall, UserRuns, UserPc, Sig
<1>1. Writes(p, next, x) /\ Replaces(p, next, x) /\ sig'[p] = sig[p]
  BY Zenon DEF UserCall, Writes, Replaces
<1> HIDE DEF next
<1>2. /\ p \in Procs /\ point[p] = "userret" /\ depth[h] = 0
      /\ tf[p].hartid = h /\ ctx[h] = want[p][1]
  BY <1>0, UserIs, Zenon
<1>3. /\ status[p] = "Running" /\ point[p] # "gone" /\ HartKept(h) /\ ProcKept(p) /\ TrapTypeOK
      /\ \A g \in Harts \ {h} : thread[g] # p
      /\ InUser(p) <=> mode[h] = "user"
  BY <1>2, Runs
<1>4. /\ tf' \in [Procs -> Trapframe] /\ tf'[p].hartid = tf[p].hartid
      /\ want' \in [Procs -> Seq(Context)] /\ ContextKept(p)'
      /\ \A q \in Procs \ {p} : tf'[q] = tf[q] /\ want'[q] = want[q]
  <2>1. next = Sig <=> want[p][1].pc = Sig
    BY <1>0, <1>2, Zenon
  <2> QED BY <1>0, <1>2, <1>3, <1>1, <2>1, Replaced, Zenon
<1>5. OtherHarts(h) /\ OtherProcs(p)
  BY <1>2, <1>3, <1>4 DEF UserCall, TrapTypeOK, OtherHarts, OtherProcs
<1>6. /\ point'[p] = "syscall" /\ sie'[h] /\ mode'[h] = "kernel" /\ stvec'[h] = "kernelvec" /\ tp'[h] = h
      /\ thread'[h] = p
  BY <1>2, <1>3, Zenon DEF UserCall, TrapTypeOK
<1>7. TrapTypeOK'
  <2>1. tp' \in [Harts -> Harts \cup {0}]
    BY <1>2, <1>3, Zenon DEF UserCall, TrapTypeOK
  <2>2. point' \in [Procs -> Switched \cup InKernel \cup {"userret", "gone"}]
    BY <1>2, <1>3, Zenon DEF UserCall, TrapTypeOK, InKernel
  <2> QED BY <1>3, <1>4, <2>1, <2>2, Zenon DEF UserCall, TrapTypeOK, Trapframe, Context
<1>8. HartKept(h)'
  BY <1>2, <1>3, <1>6 DEF HartKept, HartAgrees, UserCall, InKernel, Switched
<1>9. ProcKept(p)'
  <2>1. ProcAgrees(p)'
    BY <1>3, <1>6, Zenon DEF ProcAgrees, UserCall
  <2> QED BY <1>4, <2>1, Zenon DEF ProcKept
<1> QED BY <1>2, <1>3, <1>5, <1>6, <1>7, <1>8, <1>9, StepKeeps, Zenon

(* Any other trap from user code: the process goes on where it was.        *)
LEMMA UserTrapStep ==
  ASSUME Sched \notin Procs, Core, NEW h \in Harts, NEW p, p = thread[h],
         NEW pc \in UserPc, NEW x \in 0..1, NEW c \in {"timer", "device", "exception"}, UserTrap(h, pc, x, c)
  PROVE  Core'
<1>0. mode[h] = "user" /\ (ctx[h].pc = Sig <=> pc = Sig)
  BY Zenon DEF UserTrap, UserVec, UserRuns
<1>1. Writes(p, pc, x) /\ Replaces(p, pc, x) /\ sig'[p] = sig[p]
  BY Zenon DEF UserTrap, UserVec, Writes, Replaces
<1>2. /\ p \in Procs /\ point[p] = "userret" /\ depth[h] = 0
      /\ tf[p].hartid = h /\ ctx[h] = want[p][1]
  BY <1>0, UserIs, Zenon
<1>3. /\ status[p] = "Running" /\ point[p] # "gone" /\ HartKept(h) /\ ProcKept(p) /\ TrapTypeOK
      /\ \A g \in Harts \ {h} : thread[g] # p
      /\ InUser(p) <=> mode[h] = "user"
  BY <1>2, Runs
<1>4. /\ tf' \in [Procs -> Trapframe] /\ tf'[p].hartid = tf[p].hartid
      /\ want' \in [Procs -> Seq(Context)] /\ ContextKept(p)'
      /\ \A q \in Procs \ {p} : tf'[q] = tf[q] /\ want'[q] = want[q]
  <2>1. pc = Sig <=> want[p][1].pc = Sig
    BY <1>0, <1>2, Zenon
  <2> QED BY <1>2, <1>3, <1>1, <2>1, Replaced, Zenon
<1>5. OtherHarts(h) /\ OtherProcs(p)
  BY <1>2, <1>3, <1>4 DEF UserTrap, UserVec, TrapTypeOK, OtherHarts, OtherProcs
<1>6. /\ point'[p] \in {"tick", "tail"} /\ ~sie'[h] /\ mode'[h] = "kernel" /\ stvec'[h] = "kernelvec"
      /\ tp'[h] = h /\ thread'[h] = p
  BY <1>2, <1>3 DEF UserTrap, UserVec, TrapTypeOK
<1>7. TrapTypeOK'
  <2>1. tp' \in [Harts -> Harts \cup {0}]
    BY <1>2, <1>3, Zenon DEF UserTrap, UserVec, TrapTypeOK
  <2>2. point' \in [Procs -> Switched \cup InKernel \cup {"userret", "gone"}]
    BY <1>2, <1>3, Zenon DEF UserTrap, TrapTypeOK, InKernel
  <2>3. doomed' \in [Procs -> BOOLEAN]
    BY <1>2, <1>3, Zenon DEF UserTrap, TrapTypeOK
  <2> QED BY <1>3, <1>4, <2>1, <2>2, <2>3, Zenon DEF UserTrap, UserVec, TrapTypeOK, Trapframe, Context
<1>8. HartKept(h)'
  BY <1>2, <1>3, <1>6 DEF HartKept, HartAgrees, UserTrap, InKernel, Switched
<1>9. ProcKept(p)'
  <2>1. ProcAgrees(p)'
    BY <1>3, <1>6, Zenon DEF ProcAgrees, UserTrap
  <2> QED BY <1>4, <2>1, Zenon DEF ProcKept
<1> QED BY <1>2, <1>3, <1>5, <1>6, <1>7, <1>8, <1>9, StepKeeps, Zenon

(* A killed process makes no call: it exits.                               *)
LEMMA UserCallKilledStep ==
  ASSUME Sched \notin Procs, Core, NEW h \in Harts, NEW p, p = thread[h],
         NEW pc \in UserPc, NEW x \in 0..1, UserCallKilled(h, pc, x)
  PROVE  Core'
<1>0. mode[h] = "user"
  BY Zenon DEF UserCallKilled, UserVec, UserRuns
<1>1. /\ p \in Procs /\ tf[p].hartid = h
  BY <1>0, UserIs, Zenon
<1>2. /\ status[p] = "Running" /\ point[p] # "gone" /\ HartKept(h) /\ ProcKept(p) /\ TrapTypeOK
      /\ \A g \in Harts \ {h} : thread[g] # p
      /\ InUser(p) <=> mode[h] = "user"
  BY <1>1, Runs, Zenon
<1>3. /\ tf' \in [Procs -> Trapframe] /\ \A q \in Procs \ {p} : tf'[q] = tf[q]
  <2>1. Writes(p, pc, x)
    BY Zenon DEF UserCallKilled, UserVec, Writes
  <2> QED BY <1>1, <1>2, <2>1, FrameWritten, Zenon
<1>4. OtherHarts(h) /\ OtherProcs(p)
  BY <1>1, <1>2, <1>3 DEF UserCallKilled, UserVec, ToScheduler, TrapTypeOK, OtherHarts, OtherProcs
<1>5. /\ point'[p] = "gone" /\ status'[p] = "Zombie" /\ sie'[h] /\ mode'[h] = "kernel" /\ stvec'[h] = "kernelvec"
      /\ tp'[h] = h /\ thread'[h] = Sched /\ depth'[h] = 0
  BY <1>1, <1>2, Zenon DEF UserCallKilled, UserVec, ToScheduler, TrapTypeOK
<1>6. TrapTypeOK'
  <2>1. tp' \in [Harts -> Harts \cup {0}]
    BY <1>1, <1>2, Zenon DEF UserCallKilled, UserVec, TrapTypeOK
  <2> QED BY <1>1, <1>2, <1>3, <2>1, Zenon DEF UserCallKilled, UserVec, ToScheduler, TrapTypeOK, Trapframe
<1>7. HartKept(h)'
  BY <1>5, Zenon DEF HartKept, HartAgrees
<1>8. ProcKept(p)'
  BY <1>5, Zenon DEF ProcKept, ProcAgrees
<1> QED BY <1>1, <1>2, <1>4, <1>5, <1>6, <1>7, <1>8, StepKeeps, Zenon

(* What a call, sigreturn or an expired alarm leaves: contexts that agree, *)
(* in tables whose other rows are as before.                               *)
ContextsSet(p) ==
  /\ tf' \in [Procs -> Trapframe] /\ want' \in [Procs -> Seq(Context)]
  /\ sig' \in [Procs -> Seq([epc : UserPc, x : 0..1])]
  /\ \A q \in Procs \ {p} : tf'[q] = tf[q] /\ want'[q] = want[q] /\ sig'[q] = sig[q]
  /\ ContextKept(p)'

(* Setting one row, or none.                                               *)
LEMMA SetIfSame ==
  ASSUME TrapTypeOK, NEW p \in Procs, ContextKept(p), ~InUser(p), UNCHANGED <<tf, sig, want>>
  PROVE  ContextsSet(p)
<1>1. ContextKept(p)'
  BY ContextsNext, Zenon
<1> QED BY <1>1, Zenon DEF ContextsSet, TrapTypeOK, Trapframe, Context

(* An expired alarm sends the process to its handler and keeps what it     *)
(* interrupted.                                                            *)
LEMMA HandlerEntered ==
  ASSUME TrapTypeOK, NEW p \in Procs, ContextKept(p), ~InUser(p), EnterHandler(p)
  PROVE  ContextsSet(p)
<1>1. CASE sig[p] # <<>>
  BY <1>1, SetIfSame, Zenon DEF EnterHandler
<1>2. CASE sig[p] = <<>>
  <2> DEFINE r == [pc |-> Sig, x |-> tf[p].x]
             s == [epc |-> tf[p].epc, x |-> tf[p].x]
  <2>1. /\ sig' = [sig EXCEPT ![p] = <<s>>]
        /\ Writes(p, Sig, tf[p].x)
        /\ want' = [want EXCEPT ![p] = <<r>> \o want[p]]
    <3>1. tf[p] = [tf[p] EXCEPT !.x = tf[p].x]
      BY Zenon DEF TrapTypeOK
    <3> QED BY <1>2, <3>1, ZenonT(40) DEF EnterHandler, Writes
  <2>2. tf[p].x \in 0..1 /\ tf[p].epc \in UserPc /\ Sig \in UserPc
    BY Zenon DEF TrapTypeOK, UserPc
  <2>3. /\ tf' \in [Procs -> Trapframe] /\ tf'[p].epc = Sig /\ tf'[p].x = tf[p].x
        /\ \A q \in Procs \ {p} : tf'[q] = tf[q]
    BY <2>1, <2>2, FrameWritten
  <2>4. r \in Context /\ s \in [epc : UserPc, x : 0..1] /\ r.pc = Sig
    BY <2>2, Zenon DEF Context
  <2>5. want \in [Procs -> Seq(Context)] /\ want[p] \in Seq(Context) /\ Len(want[p]) = 1
    <3>1. Len(want[p]) = 1 + Len(<<>>)
      BY <1>2, Zenon DEF ContextKept
    <3>2. Len(want[p]) = 1
      BY <3>1
    <3> QED BY <3>2, Zenon DEF TrapTypeOK, Context
  <2>6. want[p][1] = [pc |-> tf[p].epc, x |-> tf[p].x] /\ tf[p].epc # Sig
    BY <1>2 DEF ContextKept
  <2> HIDE DEF r, s
  <2>7. /\ want'[p] \in Seq(Context) /\ Len(want'[p]) = 2 /\ want'[p][1] = r /\ want'[p][2] = want[p][1]
    <3>1. want'[p] = <<r>> \o want[p]
      BY <2>1, <2>5, Zenon
    <3> QED BY <2>4, <2>5, <3>1, Prefixed
  <2>8. sig'[p] = <<s>> /\ sig'[p] # <<>> /\ Len(sig'[p]) = 1 /\ sig'[p][1] = s
    BY <2>1, Zenon DEF TrapTypeOK
  <2>9. ContextKept(p)'
    <3>1. want'[p][1] = [pc |-> tf'[p].epc, x |-> tf'[p].x]
      BY <2>3, <2>7, Zenon DEF r
    <3>2. want'[p][2] = [pc |-> sig'[p][1].epc, x |-> sig'[p][1].x] /\ sig'[p][1].epc # Sig
      BY <2>6, <2>7, <2>8 DEF s
    <3> QED BY <2>4, <2>7, <2>8, <3>1, <3>2 DEF ContextKept
  <2>10. sig' \in [Procs -> Seq([epc : UserPc, x : 0..1])] /\ \A q \in Procs \ {p} : sig'[q] = sig[q]
    <3>1. <<s>> \in Seq([epc : UserPc, x : 0..1])
      BY <2>4
    <3> QED BY <2>1, <3>1, Zenon DEF TrapTypeOK
  <2>11. want' \in [Procs -> Seq(Context)] /\ \A q \in Procs \ {p} : want'[q] = want[q]
    BY <2>1, <2>5, <2>7, Zenon
  <2> QED BY <2>3, <2>9, <2>10, <2>11, Zenon DEF ContextsSet
<1> QED BY <1>1, <1>2, Zenon

(* sigreturn brings back what the alarm interrupted.                       *)
LEMMA HandlerLeft ==
  ASSUME TrapTypeOK, NEW p \in Procs, ContextKept(p), ~InUser(p), sig[p] # <<>>,
         tf' = [tf EXCEPT ![p].epc = sig[p][1].epc, ![p].x = ReturnSaved(p)],
         sig' = [sig EXCEPT ![p] = <<>>], want' = [want EXCEPT ![p] = Tail(@)]
  PROVE  ContextsSet(p)
<1> DEFINE e == sig[p][1].epc
           x == sig[p][1].x
<1>1. sig[p] \in Seq([epc : UserPc, x : 0..1]) /\ want \in [Procs -> Seq(Context)] /\ want[p] \in Seq(Context)
  BY Zenon DEF TrapTypeOK, Context
<1>2. Len(sig[p]) = 1 /\ Len(want[p]) = 2 /\ want[p][2] = [pc |-> e, x |-> x] /\ e # Sig
  <2>1. /\ Len(want[p]) = 1 + Len(sig[p]) /\ Len(sig[p]) \in {0, 1}
        /\ want[p][2] = [pc |-> e, x |-> x] /\ e # Sig
    BY Zenon DEF ContextKept
  <2>2. Len(sig[p]) = 1
    BY <1>1, <2>1, Single, Zenon
  <2> QED BY <2>1, <2>2
<1>3. e \in UserPc /\ x \in 0..1
  <2>1. Len(sig[p]) \in {0, 1}
    BY Zenon DEF ContextKept
  <2>2. sig[p][1] \in [epc : UserPc, x : 0..1]
    BY <1>1, <2>1, Single, Zenon
  <2> QED BY <2>2, Zenon
<1>4. Writes(p, e, x)
  BY Zenon DEF Writes, ReturnSaved
<1> HIDE DEF e, x
<1>5. /\ tf' \in [Procs -> Trapframe] /\ tf'[p].epc = e /\ tf'[p].x = x
      /\ \A q \in Procs \ {p} : tf'[q] = tf[q]
  BY <1>3, <1>4, FrameWritten
<1>6. want'[p] \in Seq(Context) /\ Len(want'[p]) = 1 /\ want'[p][1] = [pc |-> e, x |-> x]
  <2>1. want'[p] = Tail(want[p])
    BY <1>1, Zenon
  <2> QED BY <1>1, <1>2, <2>1, SecondFirst, Zenon
<1>7. want' \in [Procs -> Seq(Context)] /\ \A q \in Procs \ {p} : want'[q] = want[q]
  BY <1>1, <1>6, Zenon
<1>8. sig' \in [Procs -> Seq([epc : UserPc, x : 0..1])] /\ \A q \in Procs \ {p} : sig'[q] = sig[q]
  <2>1. <<>> \in Seq([epc : UserPc, x : 0..1])
    OBVIOUS
  <2> QED BY <2>1, Zenon DEF TrapTypeOK
<1>9. sig'[p] = <<>> /\ Len(sig'[p]) = 0
  BY Zenon DEF TrapTypeOK
<1>10. ContextKept(p)'
  <2>1. want'[p][1].pc = e
    BY <1>6
  <2> QED BY <1>2, <1>5, <1>6, <1>9, <2>1 DEF ContextKept
<1> QED BY <1>5, <1>7, <1>8, <1>10, Zenon DEF ContextsSet

(* A call leaves its result in the register of the process.                *)
LEMMA OtherCallStep ==
  ASSUME Sched \notin Procs, Core, NEW h \in Harts, NEW p \in Procs, p = thread[h], NEW x \in 0..1, OtherCall(h, x)
  PROVE  Core'
<1>1. mode[h] = "kernel" /\ point[p] = "syscall" /\ sie[h]
  BY Zenon DEF OtherCall, InCall
<1>2. /\ status[p] = "Running" /\ point[p] # "gone" /\ HartKept(h) /\ ProcKept(p) /\ TrapTypeOK
      /\ \A g \in Harts \ {h} : thread[g] # p
      /\ InUser(p) <=> mode[h] = "user"
  BY <1>1, Runs, Zenon
<1>3. ContextKept(p) /\ want[p][1] = [pc |-> tf[p].epc, x |-> tf[p].x] /\ want[p][1].pc = tf[p].epc
  BY <1>1, <1>2 DEF ProcKept, ContextKept
<1>4. Writes(p, tf[p].epc, x) /\ Replaces(p, tf[p].epc, x) /\ sig'[p] = sig[p]
  <2>1. tf[p] = [tf[p] EXCEPT !.epc = tf[p].epc] /\ tf[p] \in Trapframe
    BY <1>2, Zenon DEF TrapTypeOK, Trapframe
  <2>2. [want[p][1] EXCEPT !.x = x] = [pc |-> tf[p].epc, x |-> x]
    BY <1>3
  <2>3. want' = [want EXCEPT ![p] = [want[p] EXCEPT ![1] = [want[p][1] EXCEPT !.x = x]]]
    BY Zenon DEF OtherCall
  <2>4. tf' = [tf EXCEPT ![p] = [tf[p] EXCEPT !.x = x]]
    BY Zenon DEF OtherCall
  <2> QED BY <2>1, <2>2, <2>3, <2>4, Zenon DEF OtherCall, Writes, Replaces
<1>5. ContextsSet(p)
  <2>1. tf[p].epc \in UserPc
    BY <1>2, Zenon DEF TrapTypeOK
  <2>2. tf[p].epc = Sig <=> want[p][1].pc = Sig
    BY <1>3, Zenon
  <2>3. /\ tf' \in [Procs -> Trapframe] /\ tf'[p].hartid = tf[p].hartid
        /\ want' \in [Procs -> Seq(Context)] /\ ContextKept(p)'
        /\ \A q \in Procs \ {p} : tf'[q] = tf[q] /\ want'[q] = want[q]
    BY <1>2, <1>4, <2>1, <2>2, Replaced, Zenon
  <2> QED BY <1>2, <2>3, Zenon DEF ContextsSet, TrapTypeOK, OtherCall
<1>6. OtherHarts(h) /\ OtherProcs(p)
  BY <1>2, <1>5, Zenon DEF OtherCall, TrapTypeOK, OtherHarts, OtherProcs, ContextsSet
<1>7. point'[p] = "tail"
  BY <1>1, <1>2, Zenon DEF OtherCall, TrapTypeOK
<1>8. TrapTypeOK'
  BY <1>2, <1>5, Zenon DEF OtherCall, TrapTypeOK, InKernel, ContextsSet, Trapframe, Context
<1>9. HartKept(h)'
  BY <1>1, <1>2, <1>7 DEF HartKept, HartAgrees, OtherCall, InKernel, Switched
<1>10. ProcKept(p)'
  BY <1>2, <1>5, <1>7, Zenon DEF ProcKept, ProcAgrees, ContextsSet, OtherCall
<1> QED BY <1>2, <1>6, <1>8, <1>9, <1>10, StepKeeps, Zenon DEF OtherCall

(* sigreturn, in a handler and outside one.                                *)
LEMMA SignalReturnStep ==
  ASSUME Sched \notin Procs, Core, NEW h \in Harts, NEW p \in Procs, p = thread[h], SignalReturn(h)
  PROVE  Core'
<1>1. mode[h] = "kernel" /\ point[p] = "syscall" /\ sie[h]
  BY Zenon DEF SignalReturn, InCall
<1>2. /\ status[p] = "Running" /\ point[p] # "gone" /\ HartKept(h) /\ ProcKept(p) /\ TrapTypeOK
      /\ \A g \in Harts \ {h} : thread[g] # p
      /\ InUser(p) <=> mode[h] = "user"
  BY <1>1, Runs, Zenon
<1>3. ContextsSet(p)
  <2>1. ContextKept(p) /\ ~InUser(p)
    BY <1>1, <1>2, Zenon DEF ProcKept
  <2>2. CASE sig[p] = <<>>
    <3>1. UNCHANGED <<tf, sig, want>>
      BY <2>2, Zenon DEF SignalReturn
    <3> QED BY <1>2, <2>1, <3>1, SetIfSame, Zenon
  <2>3. CASE sig[p] # <<>>
    <3>1. /\ tf' = [tf EXCEPT ![p].epc = sig[p][1].epc, ![p].x = ReturnSaved(p)]
          /\ sig' = [sig EXCEPT ![p] = <<>>] /\ want' = [want EXCEPT ![p] = Tail(@)]
      BY <2>3, Zenon DEF SignalReturn
    <3> QED BY <1>2, <2>1, <2>3, <3>1, HandlerLeft, Zenon
  <2> QED BY <2>2, <2>3, Zenon
<1>4. OtherHarts(h) /\ OtherProcs(p)
  BY <1>2, <1>3, Zenon DEF SignalReturn, TrapTypeOK, OtherHarts, OtherProcs, ContextsSet
<1>5. point'[p] = "tail"
  BY <1>2, Zenon DEF SignalReturn, TrapTypeOK
<1>6. TrapTypeOK'
  BY <1>2, <1>3, Zenon DEF SignalReturn, TrapTypeOK, InKernel, ContextsSet, Trapframe, Context
<1>7. HartKept(h)'
  BY <1>1, <1>2, <1>5 DEF HartKept, HartAgrees, SignalReturn, InKernel, Switched
<1>8. ProcKept(p)'
  BY <1>2, <1>3, <1>5, Zenon DEF ProcKept, ProcAgrees, ContextsSet, SignalReturn
<1> QED BY <1>2, <1>4, <1>6, <1>7, <1>8, StepKeeps, Zenon DEF SignalReturn

(* The end of trap_user: exit, enter the alarm handler, yield.             *)
LEMMA Tail1Step ==
  ASSUME Sched \notin Procs, Core, NEW h \in Harts, NEW p \in Procs, p = thread[h], Tail1(h)
  PROVE  Core'
<1>1. mode[h] = "kernel" /\ point[p] \in {"tail", "tick"}
  BY Zenon DEF Tail1
<1>2. /\ status[p] = "Running" /\ point[p] # "gone" /\ HartKept(h) /\ ProcKept(p) /\ TrapTypeOK
      /\ \A g \in Harts \ {h} : thread[g] # p
      /\ InUser(p) <=> mode[h] = "user"
  BY <1>1, Runs, Zenon
<1>3. ContextsSet(p)
  <2>1. ContextKept(p) /\ ~InUser(p)
    BY <1>1, <1>2, Zenon DEF ProcKept
  <2>2. EnterHandler(p) \/ UNCHANGED <<tf, sig, want>>
    BY Zenon DEF Tail1
  <2> QED BY <1>2, <2>1, <2>2, SetIfSame, HandlerEntered, Zenon
<1>4. stvec'[h] = "kernelvec" /\ tp'[h] = h /\ mode'[h] = "kernel" /\ depth[h] = 0 /\ sie[h] \in BOOLEAN
  <2>1. stvec[h] = "kernelvec" /\ tp[h] = h /\ depth[h] \in {0, 1}
    BY <1>1, <1>2, Zenon DEF HartKept, HartAgrees, TrapTypeOK
  <2>2. depth[h] = 0
    BY <1>1, <1>2, <2>1, Zenon DEF HartKept, HartAgrees, Switched
  <2>3. sie[h] \in BOOLEAN
    BY <1>2, Zenon DEF TrapTypeOK
  <2> QED BY <1>1, <2>1, <2>2, <2>3, Zenon DEF Tail1
<1>5. ASSUME NEW st \in {"Runnable", "Zombie"}, NEW at \in {"yielded", "gone"}, st = "Runnable" => at = "yielded",
             ToScheduler(h, p, st, at, sie[h])
      PROVE  Core'
  <2>1. OtherHarts(h) /\ OtherProcs(p)
    BY <1>2, <1>3, <1>5 DEF Tail1, ToScheduler, TrapTypeOK, OtherHarts, OtherProcs, ContextsSet
  <2>2. /\ point'[p] = at /\ status'[p] = st /\ thread'[h] = Sched /\ depth'[h] = 0 /\ sie'[h]
    BY <1>2, <1>5, Zenon DEF ToScheduler, TrapTypeOK
  <2>3. TrapTypeOK'
    <3>1. at \in Switched \cup {"gone"}
      BY Zenon DEF Switched
    <3>2. point' \in [Procs -> Switched \cup InKernel \cup {"userret", "gone"}]
      BY <1>2, <1>5, <3>1, Zenon DEF ToScheduler, TrapTypeOK
    <3>3. status' \in [Procs -> {"Runnable", "Running", "Sleeping", "Zombie"}]
      BY <1>2, <1>5, Zenon DEF ToScheduler, TrapTypeOK
    <3> QED BY <1>2, <1>3, <1>4, <1>5, <3>2, <3>3, Zenon DEF Tail1, ToScheduler, TrapTypeOK, ContextsSet, Trapframe, Context
  <2>4. HartKept(h)'
    BY <1>4, <2>2, Zenon DEF HartKept, HartAgrees
  <2>5. ProcKept(p)'
    BY <1>3, <1>5, <2>2, Zenon DEF ProcKept, ProcAgrees, ContextsSet, Switched
  <2> QED BY <1>2, <2>1, <2>2, <2>3, <2>4, <2>5, StepKeeps, Zenon
<1>6. ASSUME point[p] = "tail", point' = [point EXCEPT ![p] = "return"],
             UNCHANGED <<thread, sie, depth, intena, ctx, status, saved>>
      PROVE  Core'
  <2>1. OtherHarts(h) /\ OtherProcs(p)
    BY <1>2, <1>3, <1>6, Zenon DEF Tail1, TrapTypeOK, OtherHarts, OtherProcs, ContextsSet
  <2>2. point'[p] = "return"
    BY <1>2, <1>6, Zenon DEF TrapTypeOK
  <2>3. TrapTypeOK'
    BY <1>2, <1>3, <1>6, Zenon DEF Tail1, TrapTypeOK, InKernel, ContextsSet, Trapframe, Context
  <2>4. HartKept(h)'
    BY <1>2, <1>4, <1>6, <2>2 DEF HartKept, HartAgrees, InKernel, Switched
  <2>5. ProcKept(p)'
    BY <1>2, <1>3, <1>6, <2>2, Zenon DEF ProcKept, ProcAgrees, ContextsSet
  <2> QED BY <1>2, <1>6, <2>1, <2>3, <2>4, <2>5, StepKeeps, Zenon
<1> QED BY <1>5, <1>6, Zenon DEF Tail1

-----------------------------------------------------------------------------
(* The theorems.                                                           *)

(* TrapInv is the invariant by hart and process.                           *)
LEMMA CoreIs == Sched \notin Procs => (TrapInv <=> Core)
<1>1. ASSUME Sched \notin Procs, Core PROVE VectorMatchesMode /\ InterruptsAsBefore
  <2> SUFFICES ASSUME NEW h \in Harts
               PROVE  /\ mode[h] = "user" => stvec[h] = "uservec" /\ thread[h] \in Procs
                      /\ mode[h] = "kernel" /\ sie[h] => stvec[h] = "kernelvec"
                      /\ mode[h] = "kernel" /\ depth[h] = 0 =>
                           /\ thread[h] \in Procs /\ point[thread[h]] = "syscall" => sie[h]
                           /\ thread[h] \in Procs /\ point[thread[h]] = "trapkernel" => ~sie[h]
                           /\ thread[h] = Sched => sie[h]
    BY Zenon DEF VectorMatchesMode, InterruptsAsBefore
  <2>1. HartAgrees(h) /\ thread[h] \in Procs \cup {Sched}
    BY <1>1, Zenon DEF Core, HartKept, TrapTypeOK
  <2>2. mode[h] = "user" => stvec[h] = "uservec" /\ thread[h] \in Procs
    BY <1>1, UserIs, Zenon
  <2> QED BY <1>1, <2>1, <2>2, Zenon DEF HartAgrees
<1> QED BY <1>1, Zenon DEF TrapInv, Core, HartKept, ProcKept, OneHart, UserCodeUndisturbed, HartIdIsRight,
      HartsAgree, ProcsAgree, ContextsKept

(* Initially every hart is in its scheduler.                               *)
LEMMA InitInv == Sched \notin Procs /\ TrapInit => Core
<1> SUFFICES ASSUME Sched \notin Procs, TrapInit PROVE Core
  BY Zenon
<1> DEFINE c == [pc |-> 0, x |-> 0]
<1>1. c \in [pc : UserPc, x : 0..1] /\ 0 \in UserPc /\ 0 \in 0..1
  BY DEF UserPc
<1>2. TrapTypeOK
  <2>1. <<c>> \in Seq([pc : UserPc, x : 0..1]) /\ <<>> \in Seq([epc : UserPc, x : 0..1])
    BY <1>1
  <2>2. want \in [Procs -> Seq([pc : UserPc, x : 0..1])] /\ sig \in [Procs -> Seq([epc : UserPc, x : 0..1])]
    BY <2>1, Zenon DEF TrapInit
  <2>3. tf \in [Procs -> [epc : UserPc, x : 0..1, hartid : Harts \cup {0}]]
    BY <1>1, Zenon DEF TrapInit
  <2> QED BY <2>2, <2>3, Zenon DEF TrapInit, TrapTypeOK, Switched
<1>3. OneHart
  BY Zenon DEF TrapInit, OneHart
<1>4. ASSUME NEW h \in Harts PROVE HartKept(h)
  BY Zenon DEF TrapInit, HartKept, HartAgrees
<1>5. ASSUME NEW p \in Procs PROVE ProcKept(p)
  <2>1. want[p] = <<c>> /\ sig[p] = <<>> /\ tf[p].epc = 0 /\ tf[p].x = 0
    BY Zenon DEF TrapInit
  <2>2. ContextKept(p)
    BY <2>1 DEF ContextKept, Sig
  <2>3. ProcAgrees(p)
    BY Zenon DEF TrapInit, ProcAgrees, Switched
  <2> QED BY <2>2, <2>3, Zenon DEF ProcKept
<1> QED BY <1>2, <1>3, <1>4, <1>5, Zenon DEF Core

(* Every step of a hart keeps it, and so do wakeups and kills.             *)
LEMMA CoreStep == Sched \notin Procs /\ Core /\ [TrapNext]_trapVars => Core'
<1> SUFFICES ASSUME Sched \notin Procs, Core, [TrapNext]_trapVars PROVE Core'
  BY Zenon
<1>1. CASE UNCHANGED trapVars
  <2>1. doomed \in [Procs -> BOOLEAN]
    BY Zenon DEF Core, TrapTypeOK
  <2> QED BY <1>1, <2>1, Marks, Zenon DEF trapVars
<1>2. ASSUME NEW h \in Harts, NEW p \in Procs, Schedule(h, p) PROVE Core'
  BY <1>2, ScheduleStep, Zenon
<1>3. ASSUME NEW h \in Harts, thread[h] \in Procs,
             \/ ResumeThread(h) \/ KernelStep(h) \/ \E on \in BOOLEAN : AlarmCall(h, on)
             \/ SignalReturn(h) \/ \E x \in 0..1 : OtherCall(h, x)
             \/ SleepProc(h) \/ Tail1(h) \/ TrapUserRet(h) \/ UserRet(h)
             \/ TimerTrap(h) \/ KernelRet(h)
      PROVE  Core'
  BY <1>3, ResumeStep, KernelStepStep, AlarmCallStep, SignalReturnStep, OtherCallStep, SleepStep, Tail1Step,
     TrapUserRetStep, UserRetStep, TimerTrapStep, KernelRetStep, Zenon
<1>4. ASSUME NEW h \in Harts,
             \/ ResumeThread(h) \/ KernelStep(h) \/ \E on \in BOOLEAN : AlarmCall(h, on)
             \/ SignalReturn(h) \/ \E x \in 0..1 : OtherCall(h, x)
             \/ SleepProc(h) \/ Tail1(h) \/ TrapUserRet(h) \/ UserRet(h)
             \/ TimerTrap(h) \/ KernelRet(h)
      PROVE  thread[h] \in Procs
  BY <1>4, Zenon DEF ResumeThread, KernelStep, AlarmCall, SignalReturn, OtherCall, SleepProc, Tail1, TrapUserRet, UserRet,
     TimerTrap, KernelRet, InCall
<1>5. ASSUME NEW h \in Harts, NEW pc \in UserPc, NEW x \in 0..1,
             \/ UserCall(h, pc, x) \/ UserCallKilled(h, pc, x)
             \/ \E c \in {"timer", "device", "exception"} : UserTrap(h, pc, x, c)
      PROVE  Core'
  BY <1>5, UserCallStep, UserCallKilledStep, UserTrapStep, Zenon
<1>6. ASSUME NEW h \in Harts, DeviceTrap(h) PROVE Core'
  BY <1>6, DeviceTrapStep, Zenon
<1>7. ASSUME NEW p \in Procs, WakeProc(p) PROVE Core'
  BY <1>7, WakeupStep, Zenon
<1>8. ASSUME NEW p \in Procs, KillProc(p) PROVE Core'
  BY <1>8, KillStep, Zenon
<1> QED BY <1>1, <1>2, <1>3, <1>4, <1>5, <1>6, <1>7, <1>8, Zenon DEF TrapNext

(* What trap.rs, trampoline.rs and kernel_vec.rs rely on: tp names the     *)
(* hart whenever the kernel runs, stvec and the interrupt flag suit the    *)
(* mode, the trapframe names the hart that runs user code, and user code   *)
(* is resumed as it was interrupted, handlers of alarms included.          *)
THEOREM TrapInvariant == ASSUME Sched \notin Procs PROVE TrapSpec => []TrapInv
<1>1. TrapInit => TrapInv
  BY InitInv, CoreIs, Zenon
<1>2. TrapInv /\ [TrapNext]_trapVars => TrapInv'
  <2>1. TrapInv => Core
    BY CoreIs, Zenon
  <2>2. Core' => TrapInv'
    <3>1. Core => TrapInv
      BY CoreIs, Zenon
    <3> QED BY <3>1, PTL
  <2> QED BY <2>1, <2>2, CoreStep, Zenon
<1> QED BY <1>1, <1>2, PTL DEF TrapSpec

(* Kernel code that an interrupt leaves goes on at the same instruction, on*)
(* whichever hart, with the registers that kernel_vec saves and restores   *)
(* from the same place.                                                    *)
THEOREM InterruptsAreTransparent == ASSUME Sched \notin Procs PROVE TrapSpec => InterruptIsTransparent
<1>1. ASSUME TrapInv, NEW h \in Harts, DeviceTrap(h) PROVE SameCode(h, ctx[h], {"t1"})
  <2>1. ctx'[h] = Popped(Frame(h))
    BY <1>1, Zenon DEF DeviceTrap, TrapInv, TrapTypeOK
  <2>2. Popped(Frame(h)).pc = ctx[h].pc /\ Popped(Frame(h)).t1 = ctx[h].t1
    BY FrameIs, Zenon DEF Popped
  <2> QED BY <2>1, <2>2, Zenon DEF SameCode
<1>2. ASSUME TrapInv, NEW h \in Harts, KernelRet(h) PROVE SameCode(h, frames[thread[h]][1].was, {"t1"})
  <2> DEFINE f == frames[thread[h]][1]
  <2>1. FrameAgrees(f)
    BY <1>2, Zenon DEF KernelRet, TrapInv, ProcsAgree, ProcAgrees
  <2> HIDE DEF f
  <2>2. ctx'[h] = [Popped(f) EXCEPT !.pc = f.sepc]
    BY <1>2, Zenon DEF KernelRet, ReturnPc, TrapInv, TrapTypeOK, f
  <2>3. ctx'[h].pc = f.was.pc /\ ctx'[h].t1 = f.was.t1
    BY <2>1, <2>2, Zenon DEF FrameAgrees, Popped
  <2> QED BY <2>3, Zenon DEF SameCode, f
<1>3. TrapInv => [KeepsRest]_trapVars
  BY <1>1, <1>2, Zenon DEF KeepsRest, Keeps
<1> QED BY <1>3, TrapInvariant, PTL DEF InterruptIsTransparent
=============================================================================
