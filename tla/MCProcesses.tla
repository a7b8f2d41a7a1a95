---------------------------- MODULE MCProcesses -----------------------------
(* Processes and what they run on, part by part: the process table, traps, the *)
(* page allocator and the memory of processes.                                 *)
EXTENDS ProcTable, Traps, PageAlloc, TLC

(* which names the component a behaviour is of: one of those extended, the     *)
(* others of which stay as they start, or one whose variables are v1, v2 and   *)
(* so on; those it has no use for stay 0.                                      *)
VARIABLES which, v1, v2, v3, v4, v5, v6, v7, v8, v9, v10, v11, v12

pool == <<v1, v2, v3, v4, v5, v6, v7, v8, v9, v10, v11, v12>>
hosts == <<vars, trapVars, pageVars>>
allVars == <<which, hosts, pool>>

UM == INSTANCE UserMemory WITH Tasks <- {1, 2}, NFrame <- 4, MaxHeap <- 1,
        MaxCalls <- 3, Values <- {0, 1}, free <- v1, count <- v2, mem <- v3, pt <- v4,
        size <- v5, cow <- v6, view <- v7, life <- v8, calls <- v9, starved <- v10,
        leaked <- v11, panicked <- v12

SuiteInit ==
  /\ Init /\ TrapInit /\ PageInit
  /\ \/ which \in {"procs", "traps", "frames"} /\ v1 = 0 /\ v2 = 0 /\ v3 = 0 /\ v4 = 0 /\ v5 = 0 /\ v6 = 0 /\ v7 = 0 /\ v8 = 0
        /\ v9 = 0 /\ v10 = 0 /\ v11 = 0 /\ v12 = 0
     \/ which = "memory" /\ UM!MemInit
  /\ which # "frames" => kind = "slab"

SuiteNext ==
  \/ which = "procs" /\ Next /\ UNCHANGED <<which, trapVars, pageVars, pool>>
  \/ which = "traps" /\ TrapNext /\ UNCHANGED <<which, vars, pageVars, pool>>
  \/ which = "frames" /\ PageNext /\ UNCHANGED <<which, vars, trapVars, pool>>
  \/ which = "memory" /\ UM!MemNext /\ UNCHANGED <<which, hosts>>
  \/ which # "procs" /\ UNCHANGED allVars

SuiteSpec == SuiteInit /\ [][SuiteNext]_allVars

-----------------------------------------------------------------------------
=============================================================================
