------------------------------- MODULE FsTree -------------------------------
(* The tree of directories under concurrent system calls: path resolution     *)
(* (ov6_kernel/src/fs/path.rs), unlink, create and link (fs/ops.rs) and the    *)
(* directory operations they use (fs/inode/directory.rs).                      *)
(*                                                                             *)
(* A call walks its path one directory at a time and locks at most one         *)
(* directory and one of its entries.  What happens between two waits for a     *)
(* lock is one step.  Names are strings, "/" at the head of a path is the      *)
(* root component, inodes are numbers and 0 is "no inode".  The reference      *)
(* counting of in-memory inodes is the subject of InodeTable; here the last    *)
(* reference to an inode without links frees it in the step that drops it.     *)
EXTENDS Integers, FiniteSets, Sequences, SequencesExt

CONSTANTS Procs,      \* the processes
          Inos,       \* the inode numbers of the disk, 1 is the root
          Names,      \* ordinary file names
          Calls,      \* the system calls the processes may make
          MaxCalls,   \* how many calls a process makes
          Trees       \* the file systems the processes start from

VARIABLES ty,         \* type of each inode: "free", "file" or "dir"
          nlink,      \* its link count
          ents,       \* entries of each directory, name -> inode or 0
          lock,       \* process that holds the inode's sleep lock, or "none"
          th,         \* what each process is doing
          cwd,        \* its current directory
          open,       \* an inode it holds open, or 0
          calls,      \* calls it has started
          stray       \* inodes linked into a directory that has no link left

vars == <<ty, nlink, ents, lock, th, cwd, open, calls, stray>>

Root == 1
Dots == {".", ".."}
NoEnts == [n \in Names \cup Dots |-> 0]
Idle == [pc |-> "idle", op |-> "", rest |-> <<>>, name |-> "", new |-> <<>>,
         ip |-> 0, kid |-> 0]

(* Inodes some process holds a reference to.                                   *)
Held == UNION {{cwd[p], open[p], th[p].ip, th[p].kid} : p \in Procs}

IsDir(i) == ty[i] = "dir"
Free(i) == lock[i] = "none"

Init ==
  /\ \E t \in Trees : /\ ty = t.ty /\ nlink = t.nlink /\ ents = t.ents
                      /\ cwd \in [Procs -> t.cwds]
  /\ lock = [i \in Inos |-> "none"]
  /\ th = [p \in Procs |-> Idle]
  /\ open = [p \in Procs |-> 0]
  /\ calls = [p \in Procs |-> 0]
  /\ stray = {}

(* Dropping the last reference to an inode that has no links truncates and     *)
(* frees it.  t and e are the types and entries the step leaves otherwise.     *)
Drop(t, e, s) ==
  LET dead == {i \in Inos : t[i] # "free" /\ nlink'[i] = 0 /\ i \notin Held'}
  IN /\ ty' = [i \in Inos |-> IF i \in dead THEN "free" ELSE t[i]]
     /\ ents' = [i \in Inos |-> IF i \in dead THEN NoEnts ELSE e[i]]
     /\ stray' = s \ dead

(* The call returns: every lock and reference it holds goes.                   *)
Return(p) ==
  /\ th' = [th EXCEPT ![p] = Idle]
  /\ lock' = [i \in Inos |-> IF lock[i] = p THEN "none" ELSE lock[i]]

Fail(p) ==
  /\ Return(p)
  /\ UNCHANGED <<nlink, cwd, open>>
  /\ Drop(ty, ents, stray)

(* Where a path starts, and the components that are left to walk.              *)
Enter(p, path) ==
  IF path # <<>> /\ Head(path) = "/" THEN <<Root, Tail(path)>> ELSE <<cwd[p], path>>

(* split_path: the directory part and the last component.                      *)
Call(p) ==
  /\ th[p].pc = "idle" /\ calls[p] < MaxCalls
  /\ calls' = [calls EXCEPT ![p] = @ + 1]
  /\ \E c \in {x \in Calls : x.op = "open" => open[p] = 0} :
       LET whole == c.op \in {"link", "open", "chdir"}
           at == Enter(p, IF whole THEN c.path ELSE Front(c.path))
       IN th' = [th EXCEPT ![p] =
                   [Idle EXCEPT !.pc = "walk", !.op = c.op, !.rest = at[2],
                                !.name = IF whole THEN "" ELSE Last(c.path),
                                !.new = c.new, !.ip = at[1]]]
  /\ UNCHANGED <<ty, nlink, ents, lock, cwd, open, stray>>

(* resolve: lock one directory, look the next name up, let the directory go.   *)
Walk(p) ==
  LET d == th[p].ip
      n == Head(th[p].rest)
  IN /\ th[p].pc = "walk" /\ th[p].rest # <<>> /\ Free(d)
     /\ UNCHANGED calls
     /\ IF ~IsDir(d) \/ ents[d][n] = 0
          THEN Fail(p)
          ELSE /\ th' = [th EXCEPT ![p].ip = ents[d][n], ![p].rest = Tail(@)]
               /\ UNCHANGED <<nlink, lock, cwd, open>>
               /\ Drop(ty, ents, stray)

Resolved(p, ops) == th[p].pc = "walk" /\ th[p].rest = <<>> /\ th[p].op \in ops

(* open without CREATE keeps the reference; close drops it.                    *)
Open(p) ==
  /\ Resolved(p, {"open"}) /\ Free(th[p].ip)
  /\ open' = [open EXCEPT ![p] = th[p].ip]
  /\ Return(p)
  /\ UNCHANGED <<nlink, cwd, calls>>
  /\ Drop(ty, ents, stray)

Close(p) ==
  /\ th[p].pc = "idle" /\ open[p] # 0
  /\ open' = [open EXCEPT ![p] = 0]
  /\ UNCHANGED <<nlink, lock, th, cwd, calls>>
  /\ Drop(ty, ents, stray)

Chdir(p) ==
  /\ Resolved(p, {"chdir"}) /\ Free(th[p].ip)
  /\ UNCHANGED calls
  /\ IF ~IsDir(th[p].ip)
       THEN Fail(p)
       ELSE /\ cwd' = [cwd EXCEPT ![p] = th[p].ip]
            /\ Return(p)
            /\ UNCHANGED <<nlink, open>>
            /\ Drop(ty, ents, stray)

(* Faulty variant: unlink takes any name.                                      *)
AnyName(n) == TRUE

(* unlink refuses "." and "..".                                                *)
Unlinkable(n) == n \notin Dots

(* unlink: lock the directory, look the name up, then wait for the entry's     *)
(* lock with the directory locked.                                             *)
UnlinkDir(p) ==
  LET d == th[p].ip
      n == th[p].name
  IN /\ Resolved(p, {"unlink"}) /\ Free(d)
     /\ UNCHANGED calls
     /\ IF ~Unlinkable(n) \/ ~IsDir(d) \/ ents[d][n] = 0
          THEN Fail(p)
          ELSE /\ lock' = [lock EXCEPT ![d] = p]
               /\ th' = [th EXCEPT ![p].pc = "unlink", ![p].kid = ents[d][n]]
               /\ UNCHANGED <<ty, nlink, ents, cwd, open, stray>>

(* Faulty variant: a directory with room left counts as empty.                 *)
HasFreeEntry(d) == \E n \in Names : ents[d][n] = 0

IsEmpty(d) == \A n \in Names : ents[d][n] = 0

(* The parent loses the link of a child directory's "..".                      *)
ParentLinks(d, k) == IF IsDir(k) THEN nlink[d] - 1 ELSE nlink[d]

(* The entry is zeroed, the parent loses the link of the child's "..", and the *)
(* parent is unlocked and put before the child's own link goes.                *)
UnlinkEntry(p) ==
  LET d == th[p].ip
      k == th[p].kid
  IN /\ th[p].pc = "unlink" /\ Free(k)
     /\ UNCHANGED calls
     /\ \/ IsDir(k) /\ ~IsEmpty(k) /\ Fail(p)
        \/ /\ IsDir(k) => IsEmpty(k)
           /\ nlink' = [nlink EXCEPT ![d] = ParentLinks(d, k)]
           /\ lock' = [lock EXCEPT ![d] = "none", ![k] = p]
           /\ th' = [th EXCEPT ![p].pc = "unlinked", ![p].ip = 0]
           /\ UNCHANGED <<cwd, open>>
           /\ Drop(ty, [ents EXCEPT ![d][th[p].name] = 0], stray)

UnlinkChild(p) ==
  /\ th[p].pc = "unlinked"
  /\ nlink' = [nlink EXCEPT ![th[p].kid] = @ - 1]
  /\ Return(p)
  /\ UNCHANGED <<cwd, open, calls>>
  /\ Drop(ty, ents, stray)

(* An entry put into a directory without links is lost with the directory.     *)
Strayed(d, i) == IF nlink[d] = 0 \/ d \in stray THEN stray \cup {d, i} ELSE stray

(* The first inode the disk has free.                                          *)
FreeInos == {i \in Inos : ty[i] = "free"}
AllocIno == CHOOSE i \in FreeInos : \A j \in FreeInos : i <= j

(* create, the name is new: allocate an inode, fill a directory with "." and   *)
(* "..", link it, then count the links.  A full disk fails any of the steps    *)
(* before; the new inode has no links then and goes with its reference.  A      *)
(* second created file is closed at once.                                      *)
CreateNew(p) ==
  LET d == th[p].ip
      n == th[p].name
      i == AllocIno
      dir == th[p].op = "mkdir"
  IN /\ Resolved(p, {"create", "mkdir"}) /\ Free(d)
     /\ IsDir(d) /\ ents[d][n] = 0
     /\ UNCHANGED calls
     /\ \/ Fail(p)
        \/ /\ FreeInos # {}
           /\ nlink' = [nlink EXCEPT ![i] = 1, ![d] = IF dir THEN @ + 1 ELSE @]
           /\ open' = [open EXCEPT ![p] = IF dir \/ @ # 0 THEN @ ELSE i]
           /\ Return(p)
           /\ UNCHANGED <<cwd>>
           /\ Drop([ty EXCEPT ![i] = IF dir THEN "dir" ELSE "file"],
                   [ents EXCEPT ![d][n] = i,
                                ![i] = IF dir THEN [NoEnts EXCEPT !["."] = i, ![".."] = d]
                                              ELSE NoEnts],
                   Strayed(d, i))

(* create, the name exists: wait for the entry's lock with the directory       *)
(* locked, whatever the name is.                                               *)
CreateDir(p) ==
  LET d == th[p].ip
  IN /\ Resolved(p, {"create", "mkdir"}) /\ Free(d)
     /\ UNCHANGED calls
     /\ \/ ~IsDir(d) /\ Fail(p)
        \/ /\ IsDir(d) /\ ents[d][th[p].name] # 0
           /\ lock' = [lock EXCEPT ![d] = p]
           /\ th' = [th EXCEPT ![p].pc = "exists", ![p].kid = ents[d][th[p].name]]
           /\ UNCHANGED <<ty, nlink, ents, cwd, open, stray>>

CreateExisting(p) ==
  LET k == th[p].kid
  IN /\ th[p].pc = "exists" /\ Free(k)
     /\ UNCHANGED calls
     /\ IF th[p].op = "create" /\ ty[k] = "file"
          THEN /\ open' = [open EXCEPT ![p] = IF @ = 0 THEN k ELSE @]
               /\ Return(p)
               /\ UNCHANGED <<nlink, cwd>>
               /\ Drop(ty, ents, stray)
          ELSE Fail(p)

(* link: check the old file, let its lock go, resolve the new directory.       *)
LinkOld(p) ==
  LET at == Enter(p, Front(th[p].new))
  IN /\ Resolved(p, {"link"}) /\ th[p].kid = 0 /\ Free(th[p].ip)
     /\ UNCHANGED calls
     /\ IF IsDir(th[p].ip)
          THEN Fail(p)
          ELSE /\ th' = [th EXCEPT ![p].kid = th[p].ip, ![p].ip = at[1],
                                   ![p].rest = at[2], ![p].name = Last(th[p].new)]
               /\ UNCHANGED <<ty, nlink, ents, lock, cwd, open, stray>>

(* The entry is written first; then the old file is waited for, with the       *)
(* directory locked, to count the link.                                        *)
LinkEntry(p) ==
  LET d == th[p].ip
      n == th[p].name
  IN /\ Resolved(p, {"link"}) /\ th[p].kid # 0 /\ Free(d)
     /\ UNCHANGED calls
     /\ \/ Fail(p)
        \/ /\ IsDir(d) /\ ents[d][n] = 0
           /\ lock' = [lock EXCEPT ![d] = p]
           /\ th' = [th EXCEPT ![p].pc = "count"]
           /\ UNCHANGED <<nlink, cwd, open>>
           /\ Drop(ty, [ents EXCEPT ![d][n] = th[p].kid], Strayed(d, th[p].kid))

LinkCount(p) ==
  /\ th[p].pc = "count" /\ Free(th[p].kid)
  /\ nlink' = [nlink EXCEPT ![th[p].kid] = @ + 1]
  /\ Return(p)
  /\ UNCHANGED <<cwd, open, calls>>
  /\ Drop(ty, ents, stray)

Next ==
  \E p \in Procs :
    \/ Call(p) \/ Walk(p) \/ Open(p) \/ Close(p) \/ Chdir(p)
    \/ UnlinkDir(p) \/ UnlinkEntry(p) \/ UnlinkChild(p)
    \/ CreateNew(p) \/ CreateDir(p) \/ CreateExisting(p)
    \/ LinkOld(p) \/ LinkEntry(p) \/ LinkCount(p)

Spec == Init /\ [][Next]_vars

-----------------------------------------------------------------------------

(* Entries that name an inode, except "." and "..".                            *)
EntriesOf(i) == {<<d, n>> \in Inos \X Names : IsDir(d) /\ ents[d][n] = i}
Subdirs(d) == {n \in Names : IsDir(d) /\ ents[d][n] # 0 /\ IsDir(ents[d][n])}

(* What the link count should be: the entries that name the inode, one for     *)
(* each subdirectory's "..", one for the root, corrected by the unlink and     *)
(* link calls that have changed the entry and not yet the count.               *)
LinksDue(i) ==
  Cardinality(EntriesOf(i)) + Cardinality(Subdirs(i)) + (IF i = Root THEN 1 ELSE 0)
  + Cardinality({p \in Procs : th[p].pc = "unlinked" /\ th[p].kid = i})
  - Cardinality({p \in Procs : th[p].pc = "count" /\ th[p].kid = i})

(* The link counts unlink, create and link keep never fall below the entries   *)
(* that exist, so no name outlives its inode; they are exact unless an entry   *)
(* was put into a directory already unlinked, and unlink's assertion that an   *)
(* entry's inode has a link left holds when it is reached.                     *)
LinkCountsAgree ==
  /\ \A p \in Procs : th[p].pc = "unlink" /\ Free(th[p].kid) => nlink[th[p].kid] > 0
  /\ \A i \in Inos \ FreeInos : /\ nlink[i] >= LinksDue(i)
                                /\ i \notin stray => nlink[i] = LinksDue(i)
  /\ \A i \in FreeInos : EntriesOf(i) = {}

(* Reachable from a set of directories in at most Cardinality(Inos) steps.     *)
Below(S) == S \cup ({ents[d][n] : d \in {x \in S : IsDir(x)}, n \in Names} \ {0})
Reachable(S) == Below(Below(Below(Below(S))))

(* unlink, create and link keep the directories a tree: each directory that    *)
(* can be reached has one entry, and its ".." names the directory that holds   *)
(* it.  An allocated inode that no path reaches is in use by a process, or was *)
(* linked into a directory that had no links left.                             *)
TreeShape ==
  /\ \A i \in Reachable({Root}) \ {Root} :
       IsDir(i) => \E d \in Inos, n \in Names :
                     EntriesOf(i) = {<<d, n>>} /\ ents[i][".."] = d
  /\ \A i \in Inos \ FreeInos :
       i \in Reachable({Root}) \/ i \in Held \/ i \in Reachable(stray)

(* What unlink, create and link keep of the tree: link counts that agree with  *)
(* the entries, and the shape of a tree.                                       *)
TreeInv == LinkCountsAgree /\ TreeShape

(* p waits for an inode lock that q holds.                                     *)
WaitsFor(p, q) ==
  LET pc == th[p].pc
      i == IF pc \in {"unlink", "exists", "count"} THEN th[p].kid ELSE th[p].ip
  IN pc \notin {"idle", "unlinked"} /\ i # 0 /\ lock[i] = q

(* Locks are taken from a directory to its entry, so calls never wait for      *)
(* each other in a circle, with one exception: create looks its last component *)
(* up even when it is "." or "..", and then waits for a directory it holds, or *)
(* for a parent with the child held.                                           *)
NoLockCycle ==
  \A p, q \in Procs :
    WaitsFor(p, q) /\ WaitsFor(q, p) =>
      \E r \in {p, q} : th[r].pc = "exists" /\ th[r].name \in Dots
=============================================================================
