----------------------------- MODULE FileTable -----------------------------
(* Open files: the descriptors of each process (ov6_kernel/src/proc/mod.rs),   *)
(* the table of open files that fork and dup share (file/), and the system     *)
(* calls open, dup, close and pipe, fork and exit (syscall/file.rs,            *)
(* proc/ops.rs), with the transactions that open and the last close need.      *)
(*                                                                             *)
(* Only the number of open transactions matters here: at most MaxTx fit into   *)
(* the log, and a caller that finds no room sleeps until one ends.             *)
EXTENDS Integers, FiniteSets

CONSTANTS Procs,      \* process slots
          NFile,      \* NFILE, open files in the system
          NOFile,     \* NOFILE, descriptors of a process
          NPipe,      \* bound on the pipes
          MaxTx,      \* transactions the log has room for
          MaxCalls    \* calls a process makes

VARIABLES fd,         \* descriptor tables: descriptor -> open file or 0
          files,      \* open files, [kind, pipe] or Unused
          pend,       \* the open file each process is about to drop, or 0
          at,         \* where each process is
          inTx,       \* transactions each process has open
          pipes,      \* the open ends of each pipe
          calls       \* calls each process has made

fileVars == <<fd, files, pend, at, inTx, pipes, calls>>

Unused == [kind |-> "none", pipe |-> 0]
Inode == [kind |-> "inode", pipe |-> 0]
End(e, k) == [kind |-> e, pipe |-> k]
FDs == 1..NOFile
IsLowest(x, S) == x \in S /\ \A y \in S : x <= y
Outstanding == Cardinality({p \in Procs : inTx[p] = 1})


Room == Outstanding < MaxTx

FreeFiles == {i \in 1..NFile : files[i] = Unused}
FreeFds(p) == {d \in FDs : fd[p][d] = 0}

(* The first process, init.                                                    *)
First == CHOOSE p \in Procs : TRUE

FileInit ==
  /\ fd = [p \in Procs |-> [d \in FDs |-> 0]]
  /\ files = [i \in 1..NFile |-> Unused]
  /\ pend = [p \in Procs |-> 0]
  /\ at = [p \in Procs |-> IF p = First THEN "user" ELSE "dead"]
  /\ inTx = [p \in Procs |-> 0]
  /\ pipes = [k \in 1..NPipe |-> {}]
  /\ calls = [p \in Procs |-> 0]

(* Arc: is an open file referred to by descriptors f or pending drops g?       *)
Referenced(i, f, g) == \E p \in Procs : g[p] = i \/ \E d \in FDs : f[p][d] = i

MakesCall(p) ==
  /\ at[p] = "user" /\ pend[p] = 0 /\ calls[p] < MaxCalls
  /\ calls' = [calls EXCEPT ![p] = @ + 1]

(* open begins a transaction, or sleeps until there is room for one.           *)
OpenBegin(p) ==
  /\ MakesCall(p) /\ Room
  /\ inTx' = [inTx EXCEPT ![p] = 1]
  /\ at' = [at EXCEPT ![p] = "open"]
  /\ UNCHANGED <<fd, files, pend, pipes>>

(* open: the path may not resolve.  Then an open file, then a descriptor: when *)
(* either is missing the new FileData is dropped before the transaction ends,  *)
(* and dropping it closes the inode, which begins another one.                 *)
OpenFails(p) ==
  /\ at[p] = "open"
  /\ inTx' = [inTx EXCEPT ![p] = 0]
  /\ at' = [at EXCEPT ![p] = "user"]
  /\ UNCHANGED <<fd, files, pend, pipes, calls>>

OpenBody(p) ==
  /\ at[p] = "open"
  /\ IF FreeFiles = {} \/ FreeFds(p) = {}
       THEN at' = [at EXCEPT ![p] = "nested"] /\ UNCHANGED <<fd, files, inTx>>
       ELSE /\ \E i \in FreeFiles, d \in FreeFds(p) :
                 /\ IsLowest(i, FreeFiles) /\ IsLowest(d, FreeFds(p))
                 /\ files' = [files EXCEPT ![i] = Inode]
                 /\ fd' = [fd EXCEPT ![p][d] = i]
            /\ inTx' = [inTx EXCEPT ![p] = 0]
            /\ at' = [at EXCEPT ![p] = "user"]
  /\ UNCHANGED <<pend, pipes, calls>>

(* force_begin_tx inside the failing open; both transactions end.              *)
OpenNested(p) ==
  /\ at[p] = "nested" /\ Room
  /\ inTx' = [inTx EXCEPT ![p] = 0]
  /\ at' = [at EXCEPT ![p] = "user"]
  /\ UNCHANGED <<fd, files, pend, pipes, calls>>

Dup(p) ==
  /\ MakesCall(p)
  /\ \E d \in FDs, e \in FreeFds(p) : /\ fd[p][d] # 0
                                      /\ IsLowest(e, FreeFds(p))
                                      /\ fd' = [fd EXCEPT ![p][e] = fd[p][d]]
  /\ UNCHANGED <<files, pend, at, inTx, pipes>>

(* pipe: two open files and two descriptors; when one is missing, PipeFails,   *)
(* and the ends made so far are closed again.                                  *)
PipeFits(p) == (\E i, j \in FreeFiles : i # j) /\ (\E d, e \in FreeFds(p) : d # e)

PipeFails(p) == MakesCall(p) /\ ~PipeFits(p) /\ UNCHANGED <<fd, files, pend, at, inTx, pipes>>

Pipe(p) ==
  /\ MakesCall(p) /\ PipeFits(p)
  /\ \E k \in 1..NPipe, r, w \in FreeFiles, a, b \in FreeFds(p) :
          /\ IsLowest(r, FreeFiles) /\ IsLowest(w, FreeFiles \ {r})
          /\ IsLowest(a, FreeFds(p)) /\ IsLowest(b, FreeFds(p) \ {a})
          /\ \A i \in 1..NFile : files[i].pipe # k
          /\ \A j \in 1..k-1 : \E i \in 1..NFile : files[i].pipe = j
          /\ files' = [files EXCEPT ![r] = End("read", k), ![w] = End("write", k)]
          /\ fd' = [fd EXCEPT ![p] = [@ EXCEPT ![a] = r, ![b] = w]]
          /\ pipes' = [pipes EXCEPT ![k] = {"read", "write"}]
  /\ UNCHANGED <<pend, at, inTx>>

(* close takes the descriptor away and drops its reference afterwards.         *)
CloseFd(p) ==
  /\ MakesCall(p)
  /\ \E d \in FDs : /\ fd[p][d] # 0
                    /\ pend' = [pend EXCEPT ![p] = fd[p][d]]
                    /\ fd' = [fd EXCEPT ![p][d] = 0]
  /\ UNCHANGED <<files, at, inTx, pipes>>

(* Faulty variant: the other end of the pipe is closed.                        *)
OtherEnd(i) == IF files[i].kind = "write" THEN "read" ELSE "write"

(* The end of a pipe that close(writable) closes.                              *)
ClosedEnd(i) == files[i].kind

(* Dropping a reference: the last one closes the pipe's end, or puts the inode *)
(* in a transaction of its own, for which it may have to wait.                 *)
DropFile(p) ==
  LET i == pend[p]
      last == ~Referenced(i, fd, [pend EXCEPT ![p] = 0])
  IN /\ i # 0
     /\ last /\ files[i].kind = "inode" => Room
     /\ pend' = [pend EXCEPT ![p] = 0]
     /\ files' = IF last THEN [files EXCEPT ![i] = Unused] ELSE files
     /\ pipes' = IF last /\ files[i].pipe # 0
                  THEN [pipes EXCEPT ![files[i].pipe] = @ \ {ClosedEnd(i)}] ELSE pipes
     /\ UNCHANGED <<fd, at, inTx, calls>>

(* fork duplicates every descriptor into the child.                            *)
ForkFds(p) ==
  /\ MakesCall(p)
  /\ \E c \in Procs : /\ at[c] = "dead"
                      /\ fd' = [fd EXCEPT ![c] = fd[p]]
                      /\ at' = [at EXCEPT ![c] = "user"]
  /\ UNCHANGED <<files, pend, inTx, pipes>>

(* exit closes the descriptors one by one, puts the current directory in a     *)
(* transaction, and is gone.                                                   *)
Exit(p) ==
  /\ at[p] = "user" /\ pend[p] = 0
  /\ at' = [at EXCEPT ![p] = "exit"]
  /\ UNCHANGED <<fd, files, pend, inTx, pipes, calls>>

ExitFile(p) ==
  /\ at[p] = "exit" /\ pend[p] = 0
  /\ LET used == FDs \ FreeFds(p)
     IN IF used # {}
          THEN /\ \E d \in used : /\ IsLowest(d, used)
                                 /\ pend' = [pend EXCEPT ![p] = fd[p][d]]
                                 /\ fd' = [fd EXCEPT ![p][d] = 0]
               /\ UNCHANGED at
          ELSE Room /\ at' = [at EXCEPT ![p] = "dead"] /\ UNCHANGED <<pend, fd>>
  /\ UNCHANGED <<files, inTx, pipes, calls>>

(* What a process does without a new request: it finishes the call it is in.   *)
Proceed(p) == OpenFails(p) \/ OpenBody(p) \/ OpenNested(p) \/ DropFile(p) \/ ExitFile(p)

FileNext ==
  \E p \in Procs : \/ Proceed(p) \/ OpenBegin(p) \/ Dup(p) \/ Pipe(p) \/ PipeFails(p) \/ CloseFd(p)
                   \/ ForkFds(p) \/ Exit(p)

(* The scheduler runs every process, so a call that can go on does.            *)
FileFairness == \A p \in Procs : WF_fileVars(Proceed(p))
FileSpec == FileInit /\ [][FileNext]_fileVars /\ FileFairness

-----------------------------------------------------------------------------

FileTypeOK ==
  /\ fd \in [Procs -> [FDs -> 0..NFile]]
  /\ files \in [1..NFile -> {Unused, Inode} \cup [kind : {"read", "write"}, pipe : 1..NPipe]]
  /\ pend \in [Procs -> 0..NFile]
  /\ at \in [Procs -> {"user", "open", "nested", "exit", "dead"}]
  /\ inTx \in [Procs -> 0..1]
  /\ pipes \in [1..NPipe -> SUBSET {"read", "write"}]
  /\ calls \in [Procs -> Nat]

(* A process that is gone has closed everything.                               *)
DeadClosed == \A p \in Procs : at[p] = "dead" => pend[p] = 0 /\ \A d \in FDs : fd[p][d] = 0

(* Descriptors and open files agree: an open file exists as long as, and no    *)
(* longer than, a descriptor or a close under way refers to it, however fork,  *)
(* dup, close and exit interleave; an end of a pipe is open exactly while one  *)
(* open file stands for it, so readers see end of file and writers a broken    *)
(* pipe when the last one goes; and a process has closed all when it is gone.  *)
FilesAccounted ==
  /\ FileTypeOK
  /\ DeadClosed
  /\ \A i \in 1..NFile : files[i] # Unused <=> Referenced(i, fd, pend)
  /\ \A k \in 1..NPipe : \A e \in {"read", "write"} :
       /\ e \in pipes[k] <=> \E i \in 1..NFile : files[i] = End(e, k)
       /\ \A i, j \in 1..NFile : files[i] = End(e, k) /\ files[j] = End(e, k) => i = j

Busy(p) == at[p] \in {"open", "nested", "exit"} \/ pend[p] # 0

(* Calls and exits return, although they wait for room in the log, unless as   *)
(* many opens as there is room for meet a full table at once: they hold their  *)
(* transactions while they wait for another, to close the inode with, and no   *)
(* one will ever make room for them.                                           *)
Stuck == Cardinality({p \in Procs : at[p] = "nested"}) >= MaxTx
=============================================================================
