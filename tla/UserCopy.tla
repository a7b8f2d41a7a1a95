------------------------------ MODULE UserCopy ------------------------------
(* Copies between the kernel and the memory of processes, chunk by chunk:      *)
(* memory/vm_user.rs (copy_k2u, copy_u2k, copy_u2u), memory/addr.rs (slices of *)
(* either kind, their validation) and the calls that split a user's buffer:    *)
(* a read or a write that goes block by block (syscall/file.rs) and the        *)
(* arguments of exec (proc/exec.rs).                                           *)
(*                                                                             *)
(* Space 1 is the caller's, space 3 the one its exec builds, and space 2 that  *)
(* of a process which shares the caller's copy-on-write pages and stores to    *)
(* them between two chunks.  A byte is a number; which one tells where it is   *)
(* from.                                                                       *)
EXTENDS Integers, Sequences, FiniteSets, SequencesExt, FiniteSetsExt

CONSTANTS PageSize,   \* bytes in a page
          NPage,      \* pages of spaces 1 and 2
          NStack,     \* pages of the new stack
          NFree,      \* numbers of free frames to start with
          Lens,       \* lengths of a user's buffer
          Parts,      \* bytes that a read or a write copies at a time
          ArgLens,    \* lists of argument lengths
          MaxStores   \* bound on the stores of the other process

VARIABLES pte,        \* space -> page -> [frame, perm]; perm "-" when not mapped
          mem,        \* contents of each frame
          free,       \* free frames
          todo,       \* the copies the call still has to make, in order
          kbuf,       \* what a call has read from the user
          want,       \* what each space should hold once the call is done
          call,       \* the call made: its name and its slices
          stores,
          halted      \* the kernel panicked

vars == <<pte, mem, free, todo, kbuf, want, call, stores, halted>>

Kernel == 0
Spaces == 1..3
Word == 2             \* bytes in a usize
Align == 4            \* of the stack pointer
Radix == 16           \* of a byte of a pointer
MaxVa == Max({NPage, NStack}) * PageSize
Pages(s) == 0..(IF s = 3 THEN NStack ELSE NPage) - 1
Addrs(s) == {a \in 0..MaxVa-1 : a \div PageSize \in Pages(s)}
Offsets == 0..PageSize-1

Entry(f, p) == [frame |-> f, perm |-> p]
Fill(s, a) == IF s = 3 THEN 0 ELSE 20 * s + a
LayoutOf(s, layout) ==
  [v \in Pages(s) |-> IF s = 3 THEN Entry(<<3, v>>, "W")
                      ELSE IF layout[v] = "C" THEN Entry(<<1, v>>, "C") ELSE Entry(<<s, v>>, layout[v])]
AllFrames == {<<s, v>> : s \in Spaces, v \in 0..Max({NPage, NStack})-1} \cup {<<0, i>> : i \in 1..Max(NFree)}

Byte(s, a) == mem[pte[s][a \div PageSize].frame][a % PageSize]
Mapped(s, a) == pte[s][a \div PageSize].perm # "-"

(* A process that forked has copy-on-write pages, text to read and pages that  *)
(* it has mapped or stored to since.                                           *)
Init ==
  /\ \E layout \in [0..NPage-1 -> {"C", "W", "R", "-"}] : pte = [s \in Spaces |-> LayoutOf(s, layout)]
  /\ mem = [f \in AllFrames |-> [o \in Offsets |-> IF f[1] = 0 THEN 0 ELSE Fill(f[1], f[2] * PageSize + o)]]
  /\ \E n \in NFree : free = {<<0, i>> : i \in 1..n}
  /\ want = [s \in Spaces |-> [a \in Addrs(s) |-> Byte(s, a)]]
  /\ todo = <<>> /\ kbuf = <<>> /\ call = [name |-> "none"]
  /\ stores = 0 /\ halted = FALSE

-----------------------------------------------------------------------------
(* A slice: where it is, its address and its length in bytes. *)
Slice(s, at, n) == [space |-> s, at |-> at, len |-> n]
Skip(x, n) == [x EXCEPT !.at = @ + n, !.len = @ - n]
Take(x, n) == [x EXCEPT !.len = n]
Nth(x, i, width) == Slice(x.space, x.at + i * width, width)

VaRangeOk(x) == x.at <= MaxVa /\ x.at + x.len <= MaxVa

(* The pages a slice touches; validate looks at each.  A copy-on-write page    *)
(* counts as writable.                                                         *)
TouchedPages(x) == x.at \div PageSize .. (x.at + x.len - 1) \div PageSize

Validate(x, perms) ==
  /\ VaRangeOk(x)
  /\ x.len > 0 => \A v \in TouchedPages(x) : v \in Pages(x.space) /\ pte[x.space][v].perm \in perms
ValidateRead(x) == Validate(x, {"R", "W", "C"})
ValidateWrite(x) == Validate(x, {"W", "C"})

(* One copy of the loop's: to and from have the same length; data holds the    *)
(* bytes when they come from the kernel.                                       *)
Copy(to, from, data) == [to |-> to, from |-> from, data |-> data]
K2U(to, data) == Copy(to, Slice(Kernel, 0, Len(data)), data)
U2K(from) == Copy(Slice(Kernel, 0, from.len), from, <<>>)
U2U(to, from) == Copy(to, from, <<>>)

(* The pieces of a slice that a loop over blocks of k bytes makes with skip    *)
(* and take.                                                                   *)
Piece(x, k, i) == LET rest == Skip(x, (i - 1) * k) IN Take(rest, Min({k, rest.len}))
Pieces(x, k) == [i \in 1..(x.len + k - 1) \div k |-> Piece(x, k, i)]

(* What the kernel has for the user. *)
FileByte(i) == 100 + i

Started(name, x, copies) ==
  /\ call' = [name |-> name, args |-> x]
  /\ todo' = SelectSeq(copies, LAMBDA c : c.to.len > 0)
  /\ UNCHANGED <<pte, mem, free, kbuf, stores, halted>>

Read(x, k) ==
  LET n(i) == (i - 1) * k IN
  /\ ValidateWrite(x)
  /\ Started("read", <<x>>, [i \in DOMAIN Pieces(x, k) |->
                     K2U(Pieces(x, k)[i], [j \in 1..Pieces(x, k)[i].len |-> FileByte(n(i) + j)])])
  /\ want' = [want EXCEPT ![1] = [a \in DOMAIN @ |-> IF a \in x.at..x.at+x.len-1 THEN FileByte(a - x.at + 1) ELSE @[a]]]

Write(x, k) ==
  /\ ValidateRead(x)
  /\ Started("write", <<x>>, [i \in DOMAIN Pieces(x, k) |-> U2K(Pieces(x, k)[i])])
  /\ UNCHANGED want

(* exec: a pointer for each argument and a null pointer, then the arguments,   *)
(* each with a zero after it; push_arguments makes them in this order.         *)
ArgvSize(n) == (n + 1) * Word
ArgStackSize(args) ==
  LET n == ArgvSize(Len(args)) + FoldLeft(LAMBDA a, x : a + x.len + 1, 0, args)
  IN ((n + Align - 1) \div Align) * Align
Pointer(a) == <<a % Radix, a \div Radix>>

(* What is left of the stack behind an argument of n bytes. *)
PastZero(x, n) == Skip(Skip(x, n), 1)

PushArguments(args) ==
  LET size == ArgStackSize(args)
      stack == Slice(3, NStack * PageSize - size, size)
      argv == Take(stack, ArgvSize(Len(args)))
      push(a, x) == [chars |-> PastZero(a.chars, x.len),
                     i |-> a.i + 1,
                     copies |-> a.copies \o << K2U(Nth(argv, a.i, Word), Pointer(a.chars.at)),
                                               U2U(Take(a.chars, x.len), x),
                                               K2U(Nth(Skip(a.chars, x.len), 0, 1), <<0>>) >>]
      all == FoldLeft(push, [chars |-> Skip(stack, ArgvSize(Len(args))), i |-> 0, copies |-> <<>>], args)
  IN Append(all.copies, K2U(Slice(3, argv.at + Len(args) * Word, Word), Pointer(0)))

(* Each argument was validated when its length was added up. *)
Exec(args) ==
  /\ \A i \in DOMAIN args : ValidateRead(args[i])
  /\ ArgStackSize(args) <= NStack * PageSize
  /\ Started("exec", args, PushArguments(args))
  /\ UNCHANGED want

-----------------------------------------------------------------------------
(* fetch_chunk, fetch_chunk_mut: the rest of the page, after a copy-on-write   *)
(* page that others map too was replaced.                                      *)
Chunk(x) == IF x.space = Kernel THEN x.len ELSE PageSize - (x.at % PageSize)
PageOf(x) == x.at \div PageSize
PermOf(x) == pte[x.space][PageOf(x)].perm
RefCount(f) == Cardinality({<<s, v>> \in UNION {{s} \X Pages(s) : s \in Spaces} : 
                               pte[s][v].frame = f /\ pte[s][v].perm # "-"})

(* Faulty variant: a store goes to the shared page.                            *)
NeverCopies(x) == FALSE

NeedsCopy(x) == PermOf(x) = "C" /\ RefCount(pte[x.space][PageOf(x)].frame) > 1

Fetchable(x, perms) == x.space # Kernel => PageOf(x) \in Pages(x.space) /\ PermOf(x) \in perms

(* The bytes xs are stored at x, all on one page.                              *)
StoreAt(x, xs) ==
  LET first == (x.at % PageSize) - 1
      old == pte[x.space][PageOf(x)].frame
      f == IF NeedsCopy(x) THEN CHOOSE g \in free : TRUE ELSE old
  IN /\ NeedsCopy(x) => free # {}
     /\ free' = free \ {f}
     /\ pte' = [pte EXCEPT ![x.space][PageOf(x)] = Entry(f, "W")]
     /\ mem' = [mem EXCEPT ![f] = [o \in Offsets |-> IF o - first \in DOMAIN xs THEN xs[o - first] ELSE mem[old][o]]]

(* One turn of the loop of copy_k2u, copy_u2k or copy_u2u.  The last keeps the *)
(* chunks it has fetched for its next turn; they are the same if fetched anew. *)
CopyChunk ==
  /\ todo # <<>>
  /\ LET c == Head(todo)
         n == Min({c.to.len, Chunk(c.to), Chunk(c.from)})
         xs == IF c.from.space = Kernel THEN SubSeq(c.data, 1, n) ELSE [i \in 1..n |-> Byte(c.from.space, c.from.at + i - 1)]
         rest == Copy(Skip(c.to, n), Skip(c.from, n), SubSeq(c.data, n + 1, Len(c.data)))
     IN /\ Fetchable(c.to, {"W", "C"}) /\ Fetchable(c.from, {"R", "W", "C"})
        /\ todo' = (IF rest.to.len = 0 THEN <<>> ELSE <<rest>>) \o Tail(todo)
        /\ \/ /\ c.to.space = Kernel
              /\ kbuf' = kbuf \o xs
              /\ UNCHANGED <<pte, mem, free, want>>
           \/ /\ c.to.space # Kernel
              /\ StoreAt(c.to, xs)
              /\ want' = IF call.name # "exec" THEN want
                         ELSE [want EXCEPT ![3] = [a \in DOMAIN @ |-> IF a - c.to.at + 1 \in 1..n THEN xs[a - c.to.at + 1] ELSE @[a]]]
              /\ UNCHANGED kbuf
  /\ UNCHANGED <<call, stores, halted>>

(* The chunk's unwrap: the page is not what validate found, or there is no     *)
(* frame for its copy.                                                         *)
CopyPanics ==
  /\ todo # <<>>
  /\ LET c == Head(todo)
     IN \/ ~Fetchable(c.to, {"W", "C"})
        \/ ~Fetchable(c.from, {"R", "W", "C"})
        \/ c.to.space # Kernel /\ NeedsCopy(c.to) /\ free = {}
  /\ halted' = TRUE
  /\ UNCHANGED <<pte, mem, free, todo, kbuf, want, call, stores>>

(* The other process stores a byte. *)
OtherStore(a) ==
  LET x == Slice(2, a, 1)
  IN /\ stores < MaxStores /\ PermOf(x) \in {"W", "C"}
     /\ StoreAt(x, <<9>>)
     /\ want' = [want EXCEPT ![2][a] = 9]
     /\ stores' = stores + 1
     /\ UNCHANGED <<todo, kbuf, call, halted>>

Next ==
  /\ ~halted
  /\ \/ /\ call.name = "none"
        /\ \/ \E at \in 0..MaxVa+1, n \in Lens, k \in Parts :
                Read(Slice(1, at, n), k) \/ Write(Slice(1, at, n), k)
           \/ \E lens \in ArgLens, at \in 0..NPage*PageSize-1 :
                Exec([i \in DOMAIN lens |-> Slice(1, at + i - 1, lens[i])])
     \/ CopyChunk \/ CopyPanics
     \/ \E a \in Addrs(2) : OtherStore(a)

Spec == Init /\ [][Next]_vars

-----------------------------------------------------------------------------
Pending(s, a) == \E i \in DOMAIN todo : todo[i].to.space = s /\ a \in todo[i].to.at..todo[i].to.at+todo[i].to.len-1

(* A copy changes the bytes asked for and no others: neither the rest of a     *)
(* page, nor a byte of a process that shares the page; and what a call reads   *)
(* is what its process has stored, across pages and pieces of the buffer.      *)
CopiesAreExact ==
  /\ \A s \in Spaces : \A a \in Addrs(s) : Mapped(s, a) /\ ~Pending(s, a) => Byte(s, a) = want[s][a]
  /\ call.name = "write" =>
       /\ kbuf = [i \in 1..Len(kbuf) |-> want[1][call.args[1].at + i - 1]]
       /\ todo = <<>> => Len(kbuf) = call.args[1].len

(* What was validated stays accessible to the end of the call: the unwraps of  *)
(* the copy loops fail only when there is no frame left for a copy of a page.  *)
UnwrapsHold == halted => free = {}

(* The program that exec starts finds its arguments: argv[i] points to the     *)
(* i-th, which ends with a zero, argv[argc] is null, all of it on the stack.   *)
ArgumentsReadable ==
  call.name = "exec" /\ todo = <<>> =>
    LET args == call.args
        top == NStack * PageSize - ArgStackSize(args)
        argv(i) == Byte(3, top + (i - 1) * Word) + Radix * Byte(3, top + (i - 1) * Word + 1)
    IN /\ top % Align = 0
       /\ argv(Len(args) + 1) = 0
       /\ \A i \in DOMAIN args :
            /\ argv(i) \in Addrs(3) /\ argv(i) + args[i].len \in Addrs(3)
            /\ \A j \in 0..args[i].len-1 : Byte(3, argv(i) + j) = Byte(1, args[i].at + j)
            /\ Byte(3, argv(i) + args[i].len) = 0

(* What the copies between kernel and user memory promise: exactly the bytes   *)
(* asked for, no failed unwrap, and the arguments of a new program.            *)
CopyInv == CopiesAreExact /\ UnwrapsHold /\ ArgumentsReadable
=============================================================================
