----------------------------- MODULE MCWaiting ------------------------------
(* Waiting for a transaction of the log, for the calls on files that hold one, *)
(* for a datagram and for the machine to come up, and the fairness under which *)
(* the wait ends.                                                              *)
EXTENDS Log, TLC

(* which names the component a behaviour is of: Log itself, or one whose       *)
(* variables are v1, v2 and so on; those it has no use for stay 0.             *)
VARIABLES which, v1, v2, v3, v4, v5, v6, v7, v8, v9, v10, v11, v12, v13, v14, v15, v16,
          v17, v18, v19, v20, v21, v22

pool == <<v1, v2, v3, v4, v5, v6, v7, v8, v9, v10, v11, v12, v13, v14, v15, v16, v17,
           v18, v19, v20, v21, v22>>
allVars == <<which, vars, pool>>

FI == INSTANCE FileTable WITH Procs <- {1, 2, 3}, NFile <- 2, NOFile <- 1, NPipe <- 1,
        MaxTx <- 2, MaxCalls <- 2, fd <- v1, files <- v2, pend <- v3, at <- v4,
        inTx <- v5, pipes <- v6, calls <- v7
NE == INSTANCE Net WITH Procs <- {1}, PortNos <- {1}, NPort <- 2, QueueLen <- 1,
        RxSize <- 3, TxSize <- 2, To <- <<1, 1>>, MaxCalls <- 3, arrived <- v1,
        head <- v2, tail <- v3, rx <- v4, lent <- v5, cause <- v6, irq <- v7,
        held <- v8, tdh <- v9, tdt <- v10, tx <- v11, txBy <- v12, overrun <- v13,
        seen <- v14, ports <- v15, obj <- v16, recv <- v17, killed <- v18,
        calls <- v19, halted <- v20, pushed <- v21, taken <- v22
BO == INSTANCE Boot WITH Harts <- {0, 1}, cell <- v1, at <- v2, writing <- v3,
        started <- v4, ready <- v5, sched <- v6, initp <- v7, raised <- v8,
        kicked <- v9, halted <- v10

SuiteInit ==
  /\ Init
  /\ \/ which = "log" /\ v1 = 0 /\ v2 = 0 /\ v3 = 0 /\ v4 = 0 /\ v5 = 0 /\ v6 = 0 /\ v7 = 0 /\ v8 = 0
        /\ v9 = 0 /\ v10 = 0 /\ v11 = 0 /\ v12 = 0 /\ v13 = 0 /\ v14 = 0 /\ v15 = 0 /\ v16 = 0 /\ v17 = 0 /\ v18 = 0
        /\ v19 = 0 /\ v20 = 0 /\ v21 = 0 /\ v22 = 0
     \/ which = "files" /\ FI!FileInit /\ v8 = 0 /\ v9 = 0 /\ v10 = 0 /\ v11 = 0 /\ v12 = 0 /\ v13 = 0 /\ v14 = 0
        /\ v15 = 0 /\ v16 = 0 /\ v17 = 0 /\ v18 = 0 /\ v19 = 0 /\ v20 = 0 /\ v21 = 0 /\ v22 = 0
     \/ which = "net" /\ NE!Init
     \/ which = "boot" /\ BO!Init /\ v11 = 0 /\ v12 = 0 /\ v13 = 0 /\ v14 = 0 /\ v15 = 0 /\ v16 = 0 /\ v17 = 0
        /\ v18 = 0 /\ v19 = 0 /\ v20 = 0 /\ v21 = 0 /\ v22 = 0

SuiteNext ==
  \/ which = "log" /\ Next /\ UNCHANGED <<which, pool>>
  \/ which = "files" /\ FI!FileNext /\ UNCHANGED <<which, vars, v8, v9, v10, v11, v12,
        v13, v14, v15, v16, v17, v18, v19, v20, v21, v22>>
  \/ which = "net" /\ NE!Next /\ UNCHANGED <<which, vars>>
  \/ which = "boot" /\ BO!Next /\ UNCHANGED <<which, vars, v11, v12, v13, v14, v15,
        v16, v17, v18, v19, v20, v21, v22>>
  \/ which # "log" /\ UNCHANGED allVars

(* The fairness of each component, for the behaviours that are its own.        *)
SuiteFairness ==
  /\ WF_vars(which = "log" /\ LogRuns)
  /\ \A p \in Proc : WF_vars(which = "log" /\ Retries(p)) /\ SF_vars(which = "log" /\ Ends(p))
  /\ \A p \in 1..3 : WF_(FI!fileVars)(which = "files" /\ FI!Proceed(p))
  /\ WF_(NE!vars)(which = "net" /\ NE!HandlerRuns)
  /\ WF_(NE!vars)(which = "net" /\ NE!RecvRuns(1))
  /\ \A h \in {0, 1} :
       WF_(BO!vars)(which = "boot" /\ BO!HartRuns(h)) /\ WF_(BO!vars)(which = "boot" /\ BO!Timer(h))
  /\ WF_(BO!vars)(which = "boot" /\ BO!DiskServed)

SuiteSpec == SuiteInit /\ [][SuiteNext]_allVars /\ SuiteFairness

-----------------------------------------------------------------------------

(* The network goes on: recv of an unbound port or a killed process returns,   *)
(* and every frame is handled.                                                 *)
NetProceeds ==
  /\ which = "net" /\ NE!InRecv(1) /\ NE!HasNoPort(1) ~> which # "net" \/ ~ NE!InRecv(1)
  /\ \A n \in 1..2 : which = "net" /\ NE!InRing(n) ~> which # "net" \/ ~ NE!InRing(n)

(* What the start of the machine comes to: nothing is used before main() and   *)
(* kmain set it up, and the first process runs user code.                      *)
BootsUp ==
  [](which = "boot" => BO!NothingUsedEarly) /\ <>(which = "boot" => BO!Done(BO!First))
=============================================================================
