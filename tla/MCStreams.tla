----------------------------- MODULE MCStreams ------------------------------
(* Calls that wait for bytes, for room or for a device, and the fairness under *)
(* which they return: pipes, the console and the virtio disk.                  *)
EXTENDS Pipe, TLC

(* which names the component a behaviour is of: Pipe itself, or one whose      *)
(* variables are v1, v2 and so on; those it has no use for stay 0.             *)
VARIABLES which, v1, v2, v3, v4, v5, v6, v7, v8, v9, v10, v11, v12, v13, v14, v15, v16,
          v17, v18, v19, v20, v21, v22

pool == <<v1, v2, v3, v4, v5, v6, v7, v8, v9, v10, v11, v12, v13, v14, v15, v16, v17,
           v18, v19, v20, v21, v22>>
allVars == <<which, vars, pool>>

CO == INSTANCE Console WITH Readers <- {1}, Writers <- {2, 3}, BufLen <- 2, TxLen <- 1,
        Lens <- {3}, WriteLen <- 2, Killable <- {1, 2}, MaxEvents <- 2, buf <- v1,
        r <- v2, w <- v3, e <- v4, tx <- v5, txW <- v6, txR <- v7, busy <- v8,
        irq <- v9, job <- v10, guard <- v11, killed <- v12, keys <- v13, writes <- v14,
        line <- v15, stream <- v16, got <- v17, sent <- v18, out <- v19
VD == INSTANCE VirtioDisk WITH Proc <- Proc, Block <- {1}, Data <- {0}, InitData <- 0,
        Kind <- {"write"}, Num <- 6, IdxMod <- 6, None <- None, disk <- v1, kind <- v2,
        blk <- v3, buf <- v4, free <- v5, addr <- v6, link <- v7, avail <- v8,
        availIdx <- v9, devIdx <- v10, taken <- v11, used <- v12, usedIdx <- v13,
        seen <- v14, status <- v15, inProgress <- v16, irq <- v17, isr <- v18,
        pc <- v19, head <- v20, notified <- v21, halted <- v22

SuiteInit ==
  /\ Init
  /\ \/ which = "pipe" /\ v1 = 0 /\ v2 = 0 /\ v3 = 0 /\ v4 = 0 /\ v5 = 0 /\ v6 = 0 /\ v7 = 0 /\ v8 = 0
        /\ v9 = 0 /\ v10 = 0 /\ v11 = 0 /\ v12 = 0 /\ v13 = 0 /\ v14 = 0 /\ v15 = 0 /\ v16 = 0 /\ v17 = 0 /\ v18 = 0
        /\ v19 = 0 /\ v20 = 0 /\ v21 = 0 /\ v22 = 0
     \/ which = "console" /\ CO!Init /\ v20 = 0 /\ v21 = 0 /\ v22 = 0
     \/ which = "virtio" /\ VD!Init

SuiteNext ==
  \/ which = "pipe" /\ Next /\ UNCHANGED <<which, pool>>
  \/ which = "console" /\ CO!Next /\ UNCHANGED <<which, vars, v20, v21, v22>>
  \/ which = "virtio" /\ VD!Next /\ UNCHANGED <<which, vars>>

(* The fairness of each component, for the behaviours that are its own.        *)
SuiteFairness ==
  /\ \A p \in Proc :
       /\ WF_vars(which = "pipe" /\ CallStep(p))
       /\ SF_allVars(/\ UNCHANGED which
                     /\ \/ /\ which = "pipe" /\ UNCHANGED pool
                           /\ Acquire(p) \/ Woken(p) \/ WokenKilled(p)
                        \/ which = "virtio" /\ UNCHANGED vars /\ VD!ProcRuns(p))
  /\ WF_(CO!vars)(which = "console" /\ CO!Uart)
  /\ \A p \in {2, 3} : WF_(CO!vars)(which = "console" /\ CO!Writing(p))
  /\ WF_(VD!vars)(which = "virtio" /\ VD!IsrRuns)
  /\ WF_(VD!vars)(which = "virtio" /\ VD!DeviceTakes)
  /\ \A h \in VD!Desc : WF_(VD!vars)(which = "virtio" /\ VD!DeviceServes(h))

SuiteSpec == SuiteInit /\ [][SuiteNext]_allVars /\ SuiteFairness

-----------------------------------------------------------------------------
(* A write returns: its turn comes and the UART makes room.                    *)
WritesReturn == \A p \in {2, 3} :
  which = "console" /\ CO!Writes(p) ~> which # "console" \/ ~ CO!Writes(p)

(* Once callers stop arriving every request returns, although waiters for      *)
(* descriptors keep waking one another and an interrupt may be taken for       *)
(* completions that an earlier one has handled.                                *)
RequestsReturn ==
  <>[][which = "virtio" => VD!NoNewCalls]_allVars =>
    \A p \in Proc : which = "virtio" /\ VD!InCall(p) ~> which # "virtio" \/ ~ VD!InCall(p)
=============================================================================
