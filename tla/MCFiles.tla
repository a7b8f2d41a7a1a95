------------------------------ MODULE MCFiles -------------------------------
(* The file system above the log, part by part: the inode table, the directory *)
(* tree, the contents of inodes and path names.                                *)
EXTENDS InodeTable, TLC

Symmetry == Permutations(Proc) \cup Permutations(Ino)

(* Two file systems to start from, with "/", "/a" and "/a/b" or without the last. *)
NoEntries == [n \in {"a", "b", ".", ".."} |-> 0]
Tree(types, counts, sub) ==
  [ty |-> [i \in 1..4 |-> types[i]], nlink |-> [i \in 1..4 |-> counts[i]],
   ents |-> [i \in 1..4 |-> CASE i = 1 -> [NoEntries EXCEPT !["."] = 1, ![".."] = 1, !["a"] = 2]
                              [] i = 2 -> [NoEntries EXCEPT !["."] = 2, ![".."] = 1, !["b"] = sub]
                              [] OTHER -> NoEntries],
   cwds |-> {1, 2}]
EmptyDir == Tree(<<"dir", "dir", "free", "free">>, <<2, 1, 0, 0>>, 0)
FullDir == Tree(<<"dir", "dir", "file", "free">>, <<2, 1, 1, 0>>, 3)
TreeCall(o, path, new) == [op |-> o, path |-> path, new |-> new]
TreeCalls ==
  {TreeCall("unlink", path, <<>>) : path \in {<<"/", "a">>, <<"b">>, <<"a", "b">>, <<"a", "..">>}} \cup
  {TreeCall("create", path, <<>>) : path \in {<<"b">>, <<"a", "..">>}} \cup
  {TreeCall("mkdir", path, <<>>) : path \in {<<"a", "b">>, <<"b">>, <<".">>}} \cup
  {TreeCall("link", <<"/", "a", "b">>, <<"b">>), TreeCall("open", <<"a">>, <<>>),
   TreeCall("chdir", <<"/", "a">>, <<>>)}

(* which names the component a behaviour is of: InodeTable itself, or one whose*)
(* variables are v1, v2 and so on; those it has no use for stay 0.             *)
VARIABLES which, v1, v2, v3, v4, v5, v6, v7, v8, v9, v10

pool == <<v1, v2, v3, v4, v5, v6, v7, v8, v9, v10>>
allVars == <<which, vars, pool>>

FT == INSTANCE FsTree WITH Procs <- {"p1", "p2"}, Inos <- 1..4, Names <- {"a", "b"},
        Calls <- TreeCalls, MaxCalls <- 2, Trees <- {EmptyDir, FullDir}, ty <- v1,
        nlink <- v2, ents <- v3, lock <- v4, th <- v5, cwd <- v6, open <- v7,
        calls <- v8, stray <- v9
IC == INSTANCE InodeContent WITH Procs <- {1, 2}, Files <- {1, 2}, NBlocks <- 4,
        BlockSize <- 2, NumDirect <- 1, NumIndirect <- 2, Chunk <- 3, Sizes <- {1, 5},
        MaxWrites <- 2, fs <- v1, disk <- v2, text <- v3, off <- v4, job <- v5,
        writes <- v6, unsaved <- v7, lost <- v8
PN == INSTANCE Paths WITH Chars <- {"/", ".", "a"}, MaxLen <- 5, MaxBase <- 3,
        job <- v1, path <- v2, it <- v3, base <- v4, bit <- v5, front <- v6,
        back <- v7, res <- v8, comps <- v9, vague <- v10

SuiteInit ==
  /\ Init
  /\ \/ which = "inodes" /\ v1 = 0 /\ v2 = 0 /\ v3 = 0 /\ v4 = 0 /\ v5 = 0 /\ v6 = 0 /\ v7 = 0 /\ v8 = 0
        /\ v9 = 0 /\ v10 = 0
     \/ which = "tree" /\ FT!Init /\ v10 = 0
     \/ which = "content" /\ IC!Init /\ v9 = 0 /\ v10 = 0
     \/ which = "names" /\ PN!Init

SuiteNext ==
  \/ which = "inodes" /\ Next /\ UNCHANGED <<which, pool>>
  \/ which = "tree" /\ FT!Next /\ UNCHANGED <<which, vars, v10>>
  \/ which = "content" /\ IC!Next /\ UNCHANGED <<which, vars, v9, v10>>
  \/ which = "names" /\ PN!Next /\ UNCHANGED <<which, vars>>

SuiteSpec == SuiteInit /\ [][SuiteNext]_allVars

-----------------------------------------------------------------------------
(* What unlink, create and link keep of the tree: link counts that agree with  *)
(* the entries, and the shape of a tree.                                       *)
TreeInv == which = "tree" => FT!TreeInv

(* Locks are taken from a directory to its entry, so calls never wait for each *)
(* other in a circle, with one exception: create looks its last component up   *)
(* even when it is "." or "..", and then waits for a directory it holds, or    *)
(* for a parent with the child held.                                           *)
NoLockCycle == which = "tree" => FT!NoLockCycle


(* What Path, PathBuf and Components promise: iteration from both ends,        *)
(* prefixes and suffixes, buffers and the parts of file names all agree with   *)
(* the components of the text.                                                 *)
PathInv == which = "names" => PN!PathInv
=============================================================================
