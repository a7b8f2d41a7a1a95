----------------------------- MODULE MCBoundary -----------------------------
(* The log over a disk that crashes, and what else stands between the kernel   *)
(* and a device or a program, part by part: the block cache, the console, the  *)
(* network, the registers of a system call and standard output.                *)
EXTENDS Log, BlockCache, TLC

Symmetry == Permutations(Proc) \cup Permutations(Home)

(* which names the component a behaviour is of: one of those extended, the     *)
(* others of which stay as they start, or one whose variables are v1, v2 and   *)
(* so on; those it has no use for stay 0.                                      *)
VARIABLES which, v1, v2, v3, v4, v5, v6, v7, v8, v9, v10, v11, v12, v13, v14, v15, v16,
          v17, v18, v19, v20, v21, v22

pool == <<v1, v2, v3, v4, v5, v6, v7, v8, v9, v10, v11, v12, v13, v14, v15, v16, v17,
           v18, v19, v20, v21, v22>>
hosts == <<vars, blockVars>>
allVars == <<which, hosts, pool>>

CO == INSTANCE Console WITH Readers <- {1}, Writers <- {2, 3}, BufLen <- 2, TxLen <- 1,
        Lens <- {3}, WriteLen <- 2, Killable <- {1, 2}, MaxEvents <- 3, buf <- v1,
        r <- v2, w <- v3, e <- v4, tx <- v5, txW <- v6, txR <- v7, busy <- v8,
        irq <- v9, job <- v10, guard <- v11, killed <- v12, keys <- v13, writes <- v14,
        line <- v15, stream <- v16, got <- v17, sent <- v18, out <- v19
NE == INSTANCE Net WITH Procs <- {1}, PortNos <- {1, 2}, NPort <- 2, QueueLen <- 1,
        RxSize <- 3, TxSize <- 2, To <- <<1, 0, 1>>, MaxCalls <- 3, arrived <- v1,
        head <- v2, tail <- v3, rx <- v4, lent <- v5, cause <- v6, irq <- v7,
        held <- v8, tdh <- v9, tdt <- v10, tx <- v11, txBy <- v12, overrun <- v13,
        seen <- v14, ports <- v15, obj <- v16, recv <- v17, killed <- v18,
        calls <- v19, halted <- v20, pushed <- v21, taken <- v22
SC == INSTANCE Syscall WITH W <- 4, H <- 2, Q <- 1, NanosPerSec <- 2,
        FlagBits <- {1, 2, 8}, ErrNos <- {-1, 1, 5}, Words <- {0, 1, 15}, phase <- v1,
        code <- v2, raw <- v3, sent <- v4, regs <- v5, got <- v6, result <- v7,
        answer <- v8
OU == INSTANCE Output WITH NByte <- 6, Lines <- {{}, {1}, {3}, {0, 2}, {2, 3}, {1, 5}},
        Cap <- 2, MaxPiece <- 4, newlines <- v1, terminal <- v2, sink <- v3, buf <- v4,
        pos <- v5, call <- v6, todo <- v7, taken <- v8, cut <- v9, short <- v10,
        over <- v11

SuiteInit ==
  /\ Init /\ CacheInit
  /\ \/ which \in {"log", "cache"} /\ v1 = 0 /\ v2 = 0 /\ v3 = 0 /\ v4 = 0 /\ v5 = 0 /\ v6 = 0 /\ v7 = 0 /\ v8 = 0
        /\ v9 = 0 /\ v10 = 0 /\ v11 = 0 /\ v12 = 0 /\ v13 = 0 /\ v14 = 0 /\ v15 = 0 /\ v16 = 0 /\ v17 = 0 /\ v18 = 0
        /\ v19 = 0 /\ v20 = 0 /\ v21 = 0 /\ v22 = 0
     \/ which = "console" /\ CO!Init /\ v20 = 0 /\ v21 = 0 /\ v22 = 0
     \/ which = "net" /\ NE!Init
     \/ which = "calls" /\ SC!Init /\ v9 = 0 /\ v10 = 0 /\ v11 = 0 /\ v12 = 0 /\ v13 = 0 /\ v14 = 0 /\ v15 = 0
        /\ v16 = 0 /\ v17 = 0 /\ v18 = 0 /\ v19 = 0 /\ v20 = 0 /\ v21 = 0 /\ v22 = 0
     \/ which = "output" /\ OU!Init /\ v12 = 0 /\ v13 = 0 /\ v14 = 0 /\ v15 = 0 /\ v16 = 0 /\ v17 = 0 /\ v18 = 0
        /\ v19 = 0 /\ v20 = 0 /\ v21 = 0 /\ v22 = 0

SuiteNext ==
  \/ which = "log" /\ Next /\ UNCHANGED <<which, blockVars, pool>>
  \/ which = "cache" /\ CacheNext /\ UNCHANGED <<which, vars, pool>>
  \/ which = "console" /\ CO!Next /\ UNCHANGED <<which, hosts, v20, v21, v22>>
  \/ which = "net" /\ NE!Next /\ UNCHANGED <<which, hosts>>
  \/ which = "calls" /\ SC!Next /\ UNCHANGED <<which, hosts, v9, v10, v11, v12, v13,
        v14, v15, v16, v17, v18, v19, v20, v21, v22>>
  \/ which = "output" /\ OU!Next /\ UNCHANGED <<which, hosts, v12, v13, v14, v15, v16,
        v17, v18, v19, v20, v21, v22>>
  \/ which # "log" /\ UNCHANGED allVars

SuiteSpec == SuiteInit /\ [][SuiteNext]_allVars

-----------------------------------------------------------------------------
(* What the console and the UART keep, with keys, writers and interrupts at    *)
(* once: the input line, a reason for every sleep, the order of the output and *)
(* whole writes.                                                               *)
ConsoleInv == which = "console" => CO!ConsoleInv


(* What the registers carry between a program and the kernel: arguments and    *)
(* results as they were, from whatever registers a call is made, and a refusal *)
(* that cannot be taken for success.                                           *)
EncodingInv == which = "calls" => SC!EncodingInv

(* What LineWriter and BufWriter promise of standard output: what was written  *)
(* is kept once and in order, and print! loses text only where it stops early. *)
OutputInv == which = "output" => OU!OutputInv
=============================================================================
