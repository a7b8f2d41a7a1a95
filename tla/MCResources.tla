---------------------------- MODULE MCResources -----------------------------
(* Parts that hand out what there is little of, part by part: the descriptors  *)
(* of the disk queue, open files, the frames and entries of a page table, the  *)
(* frames of copies to user memory and the heap of a program.                  *)
EXTENDS VirtioDisk, FileTable, TLC

Symmetry == Permutations(Proc)

(* which names the component a behaviour is of: one of those extended, the     *)
(* others of which stay as they start, or one whose variables are v1, v2 and   *)
(* so on; those it has no use for stay 0.                                      *)
VARIABLES which, v1, v2, v3, v4, v5, v6, v7, v8, v9

pool == <<v1, v2, v3, v4, v5, v6, v7, v8, v9>>
hosts == <<vars, fileVars>>
allVars == <<which, hosts, pool>>

PT == INSTANCE PageTable WITH Fan <- 2, PageSize <- 2, MaxVa <- 8, NFrame <- 4,
        MaxOps <- 3, kind <- v1, pte <- v2, free <- v3, job <- v4, flat <- v5,
        ops <- v6
UC == INSTANCE UserCopy WITH PageSize <- 3, NPage <- 2, NStack <- 4, NFree <- {0, 2},
        Lens <- {0, 1, 2, 4, 6}, Parts <- {2, 6},
        ArgLens <- {<<>>, <<2>>, <<1, 3>>, <<0, 2>>}, MaxStores <- 1, pte <- v1,
        mem <- v2, free <- v3, todo <- v4, kbuf <- v5, want <- v6, call <- v7,
        stores <- v8, halted <- v9
HE == INSTANCE Heap WITH NUnit <- 12, MinGrow <- 4, Sizes <- {1, 2, 4}, next <- v1,
        size <- v2, list <- v3, brk <- v4, used <- v5, holes <- v6

SuiteInit ==
  /\ Init /\ FileInit
  /\ \/ which \in {"virtio", "files"} /\ v1 = 0 /\ v2 = 0 /\ v3 = 0 /\ v4 = 0 /\ v5 = 0 /\ v6 = 0 /\ v7 = 0 /\ v8 = 0
        /\ v9 = 0
     \/ which = "pages" /\ PT!Init /\ v7 = 0 /\ v8 = 0 /\ v9 = 0
     \/ which = "copies" /\ UC!Init
     \/ which = "heap" /\ HE!Init /\ v7 = 0 /\ v8 = 0 /\ v9 = 0

SuiteNext ==
  \/ which = "virtio" /\ Next /\ UNCHANGED <<which, fileVars, pool>>
  \/ which = "files" /\ FileNext /\ UNCHANGED <<which, vars, pool>>
  \/ which = "pages" /\ PT!Next /\ UNCHANGED <<which, hosts, v7, v8, v9>>
  \/ which = "copies" /\ UC!Next /\ UNCHANGED <<which, hosts>>
  \/ which = "heap" /\ HE!Next /\ UNCHANGED <<which, hosts, v7, v8, v9>>
  \/ which # "virtio" /\ UNCHANGED allVars

SuiteSpec == SuiteInit /\ [][SuiteNext]_allVars

-----------------------------------------------------------------------------
(* What map, unmap, validate and free keep of a page table: its translation,   *)
(* what validate accepts, the frames it owns, and the leaves the iterators     *)
(* give.                                                                       *)
TableInv == which = "pages" => PT!TableInv

(* What the copies between kernel and user memory promise: exactly the bytes   *)
(* asked for, no failed unwrap, and the arguments of a new program.            *)
CopyInv == which = "copies" => UC!CopyInv

(* What malloc and free keep of the heap: blocks that tile it, and a sorted    *)
(* free list without neighbours.                                               *)
HeapInv == which = "heap" => HE!HeapInv
=============================================================================
