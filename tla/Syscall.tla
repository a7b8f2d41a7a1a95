------------------------------ MODULE Syscall ------------------------------
(* The system call boundary: the register encoding of arguments and results    *)
(* (ov6_syscall/src/register.rs), the stubs of the user library                *)
(* (ov6_user_lib/src/os/ov6/syscall/ffi.rs) and the dispatcher of the kernel   *)
(* (ov6_kernel/src/syscall/mod.rs).                                            *)
(*                                                                             *)
(* A word has W bits, u32 and i32 have H = W/2 and u16 has Q < H.  A value is  *)
(* an integer, a pair, or, for an optional value, a set of at most one         *)
(* element.  A decoder gives the set of what it decodes: empty for an error.   *)
EXTENDS Integers, Sequences, FiniteSets, FiniteSetsExt, SequencesExt

CONSTANTS W, H, Q,
          NanosPerSec,  \* of Duration
          FlagBits,     \* the known bits of OpenFlags
          ErrNos,       \* the numbers of SyscallError
          Words         \* the words that occur as values and as stale registers

VARIABLES phase, code,
          raw,      \* the registers were not written by the library's encoder
          sent,     \* the arguments the caller passed
          regs,     \* a0 .. a4 of the trap frame
          got,      \* the arguments the kernel decoded: a set, see above
          result,   \* what the call returned
          answer    \* what the caller decoded, a set

vars == <<phase, code, raw, sent, regs, got, result, answer>>

MaxWord == 2^W - 1
Unknown == -1
Signed(w) == IF w < 2^(W-1) THEN w ELSE w - 2^W

(* SyscallCode: Fork is 1. *)
Codes == <<"Fork", "Exit", "Wait", "Pipe", "Read", "Kill", "Exec", "Fstat", "Chdir", "Dup",
           "Sbrk", "Sleep", "Open", "Write", "Mknod", "Unlink", "Link", "Mkdir", "Close",
           "AlarmSet", "AlarmClear", "SignalReturn", "Bind", "Unbind", "Recv", "Send",
           "GetSystemInfo", "Reboot", "Halt", "Abort", "Trace", "DumpKernelPageTable",
           "DumpUserPageTable">>

(* Argument types of each call; a word stands for usize, u64, RawFd and the    *)
(* user references.                                                            *)
Arg(c) ==
  CASE c \in {"Pipe", "Dup", "Close", "GetSystemInfo", "Trace"} -> <<"word">>
    [] c = "Exit" -> <<"i32">>
    [] c = "Wait" -> <<"target", "word">>
    [] c \in {"Read", "Write"} -> <<"word", "slice">>
    [] c = "Kill" -> <<"pid">>
    [] c \in {"Exec", "Link"} -> <<"slice", "slice">>
    [] c = "Fstat" -> <<"word", "word">>
    [] c \in {"Chdir", "Unlink", "Mkdir"} -> <<"slice">>
    [] c = "Sbrk" -> <<"isize">>
    [] c = "Sleep" -> <<"duration">>
    [] c = "AlarmSet" -> <<"duration", "word">>
    [] c = "Open" -> <<"slice", "flags">>
    [] c = "Mknod" -> <<"slice", "u32", "u16">>
    [] c \in {"Bind", "Unbind", "Halt", "Abort"} -> <<"u16">>
    [] c = "Recv" -> <<"u16", "word", "slice">>
    [] c = "Send" -> <<"u16", "sockaddr", "slice">>
    [] OTHER -> <<>>

(* Type of the Ok value; "never" for a call that does not return one, "plain"  *)
(* for the calls that return () and not a Result.                              *)
Ret(c) ==
  CASE c \in {"Trace", "DumpKernelPageTable", "DumpUserPageTable"} -> "plain"
    [] c \in {"Exit", "Exec", "SignalReturn", "Reboot", "Halt", "Abort"} -> "never"
    [] c = "Fork" -> "optpid"
    [] c = "Wait" -> "pid"
    [] c \in {"Read", "Write", "Recv", "Send", "Sbrk", "Dup", "Open"} -> "word"
    [] OTHER -> "unit"

(* RegisterValue::encode and try_decode. *)
Size(t) == CASE t \in {"target", "duration", "slice"} -> 2 [] t = "unit" -> 0 [] OTHER -> 1

(* Faulty variant: the port is packed into too few bits.                       *)
PackSockAddr(v) == <<v[1] * 2^Q + v[2]>>

(* The address is above the port, with a gap between them.                    *)
EncodeSockAddr(v) == <<v[1] * 2^H + v[2]>>

Encode(t, v) ==
  CASE t \in {"isize", "i32"} -> <<v % 2^W>>
    [] t = "optpid" -> <<IF v = {} THEN 0 ELSE Max(v)>>
    [] t = "target" -> IF v = {} THEN <<0, 0>> ELSE <<1, Max(v)>>
    [] t = "flags" -> <<SumSet(v)>>
    [] t = "sockaddr" -> EncodeSockAddr(v)
    [] t \in {"slice", "duration"} -> v
    [] t = "unit" -> <<>>
    [] OTHER -> <<v>>

(* A number that does not fit its type is an error, not cut off.              *)
DecodeNarrow(w, n) == {v \in {w} : v < 2^n}

DecodePid(w) == {v \in {w} : v < 2^H /\ v # 0}

Decode(t, a) ==
  CASE t = "isize" -> {Signed(a[1])}
    [] t = "i32" -> {v \in {Signed(a[1])} : -(2^(H-1)) <= v /\ v < 2^(H-1)}
    [] t = "u32" -> DecodeNarrow(a[1], H)
    [] t = "u16" -> DecodeNarrow(a[1], Q)
    [] t = "pid" -> DecodePid(a[1])
    [] t = "optpid" -> IF a[1] = 0 THEN {{}} ELSE {{p} : p \in DecodePid(a[1])}
    [] t = "target" -> IF a = <<0, 0>> THEN {{}}
                       ELSE IF a[1] = 1 THEN {{p} : p \in DecodePid(a[2])} ELSE {}
    [] t = "flags" -> {f \in SUBSET FlagBits : SumSet(f) = a[1]}
    [] t = "sockaddr" -> {v \in {<<a[1] \div 2^H, a[1] % 2^H>>} : v[2] < 2^Q}
    [] t = "duration" -> {<<a[1] + n \div NanosPerSec, n % NanosPerSec>> : n \in {m \in {a[2]} : m < 2^H}}
    [] t = "unit" -> {<<>>}
    [] t = "slice" -> {a}
    [] OTHER -> {a[1]}

(* Duration::new carries whole seconds over and panics when they overflow. *)
DecodePanics(t, a) == t = "duration" /\ a[2] < 2^H /\ a[1] + a[2] \div NanosPerSec > MaxWord

(* The tuples of arguments: each takes the words after those of its           *)
(* predecessors.                                                              *)
EncodeAll(ts, vs) == FlattenSeq([i \in DOMAIN ts |-> Encode(ts[i], vs[i])])

Part(ts, i, a) ==
  LET skipped == FoldLeft(LAMBDA n, t : n + Size(t), 0, SubSeq(ts, 1, i - 1))
  IN SubSeq(a, skipped + 1, skipped + Size(ts[i]))

DecodeAll(ts, a) ==
  LET d == [i \in DOMAIN ts |-> Decode(ts[i], Part(ts, i, a))]
  IN IF \E i \in DOMAIN ts : d[i] = {} THEN {} ELSE {[i \in DOMAIN ts |-> CHOOSE v \in d[i] : TRUE]}

(* What a caller may pass: every value of the type made of the given words. *)
Values(t) ==
  CASE t = "isize" -> {Signed(w) : w \in Words}
    [] t = "i32" -> {v \in {Signed(w) : w \in Words} : -(2^(H-1)) <= v /\ v < 2^(H-1)}
    [] t = "u32" -> {w \in Words : w < 2^H}
    [] t = "u16" -> {w \in Words : w < 2^Q}
    [] t = "pid" -> 1..2^H - 1
    [] t \in {"optpid", "target"} -> {{}} \cup {{p} : p \in 1..2^H - 1}
    [] t = "flags" -> SUBSET FlagBits
    [] t = "sockaddr" -> (0..2^H - 1) \X (0..2^Q - 1)
    [] t = "duration" -> Words \X (0..NanosPerSec - 1)
    [] t = "slice" -> Words \X Words
    [] t = "unit" -> {<<>>}
    [] OTHER -> Words

Tuples(ts) == FoldLeft(LAMBDA T, t : {Append(x, v) : x \in T, v \in Values(t)}, {<<>>}, ts)

Ok(v) == <<"ok", v>>
Err(n) == <<"err", n>>

(* ReturnValue::store: Ret0 and Ret1 leave a1 as it is. *)
Store(ws) == regs' = [i \in 1..5 |-> IF i <= Len(ws) THEN ws[i] ELSE regs[i]]

EncodeErr(n) == <<MaxWord>> \o Encode("isize", n)

(* result_encode_01 and _11; a resumed program gets its two registers. *)
EncodeResult(c, r) ==
  CASE Ret(c) = "plain" -> <<0>>
    [] r[1] = "resume" -> r[2]
    [] r[1] = "err" -> EncodeErr(r[2])
    [] OTHER -> <<0>> \o (IF Ret(c) = "unit" THEN <<0>> ELSE Encode(Ret(c), r[2]))

DecodeResult(c, a) ==
  IF Ret(c) = "plain" THEN {Ok(<<>>)}
  ELSE CASE a[1] = 0 -> {Ok(v) : v \in IF Ret(c) = "never" THEN {} ELSE Decode(Ret(c), <<a[2]>>)}
         [] a[1] = MaxWord -> {Err(n) : n \in Decode("isize", <<a[2]>>) \cap ErrNos}
         [] OTHER -> {}

Init ==
  /\ phase = "user" /\ code = "Fork" /\ raw = FALSE /\ sent = <<>> /\ got = {}
  /\ regs = [i \in 1..5 |-> 0] /\ result = <<>> /\ answer = {}

(* Calls share nothing but the registers, and those are arbitrary: one call   *)
(* stands for every call.                                                     *)
Ecall(c, r, args, ws, stale) ==
  /\ phase' = "trap" /\ code' = c /\ raw' = r /\ sent' = args
  /\ regs' = [i \in 1..5 |-> IF i <= Len(ws) THEN ws[i] ELSE stale]
  /\ UNCHANGED <<got, result, answer>>

(* call_raw: encode the arguments and trap.  The registers they do not use    *)
(* hold whatever the compiler left there.                                     *)
UserCall(c) ==
  /\ phase = "user"
  /\ \E args \in Tuples(Arg(c)), stale \in {0, MaxWord} :
       Ecall(c, FALSE, args, EncodeAll(Arg(c), args), stale)

(* A program that does not use the library, or a newer one: any registers and *)
(* any call number.                                                           *)
RawCall(c) ==
  /\ phase = "user"
  /\ \E ws \in [1..FoldLeft(LAMBDA n, t : n + Size(t), 0, Arg(c)) -> Words], stale \in {0, MaxWord} :
       Ecall(c, TRUE, <<>>, ws, stale)

UnknownFails == <<MaxWord>>

(* syscall: an unknown number sets a0 only. *)
UnknownCode ==
  /\ phase = "trap" /\ code = "None"
  /\ phase' = "return" /\ Store(UnknownFails)
  /\ UNCHANGED <<code, raw, sent, got, result, answer>>

(* handle: decode_arg, whose error is the result of the call; Exit takes -1   *)
(* for a status it cannot decode.                                             *)
DecodeArg ==
  LET d == DecodeAll(Arg(code), regs) IN
  /\ phase = "trap" /\ code # "None"
  /\ \A i \in DOMAIN Arg(code) : ~DecodePanics(Arg(code)[i], Part(Arg(code), i, regs))
  /\ IF d # {} \/ code = "Exit"
     THEN /\ phase' = "call" /\ got' = IF d = {} THEN {<<-1>>} ELSE d
          /\ UNCHANGED <<regs, result>>
     ELSE /\ phase' = "return" /\ result' = Err(Unknown)
          /\ Store(EncodeResult(code, Err(Unknown))) /\ UNCHANGED got
  /\ UNCHANGED <<code, raw, sent, answer>>

DecodePanic ==
  /\ phase = "trap" /\ code # "None"
  /\ \E i \in DOMAIN Arg(code) : DecodePanics(Arg(code)[i], Part(Arg(code), i, regs))
  /\ phase' = "panic"
  /\ UNCHANGED <<code, raw, sent, regs, got, result, answer>>

Results(c) ==
  CASE Ret(c) = "plain" -> {Ok(<<>>)}
    [] c = "Exit" -> {}
    [] c \in {"Exec", "SignalReturn"} -> {<<"resume", <<x, y>>>> : x, y \in Words} \cup {Err(n) : n \in ErrNos}
    [] Ret(c) = "never" -> {Err(n) : n \in ErrNos}
    [] OTHER -> {Ok(v) : v \in Values(Ret(c))} \cup {Err(n) : n \in ErrNos}

(* call: the result goes to the trap frame, of the child too for Fork, whose  *)
(* result there is Ok(None).                                                  *)
Call ==
  /\ phase = "call"
  /\ \E r \in Results(code) :
       /\ result' = r /\ Store(EncodeResult(code, r))
       /\ phase' = IF r[1] = "resume" THEN "gone" ELSE "return"
  /\ UNCHANGED <<code, raw, sent, got, answer>>

(* exit, halt, abort and reboot do not come back. *)
CallGone ==
  /\ phase = "call" /\ code \in {"Exit", "Reboot", "Halt", "Abort"}
  /\ phase' = "gone"
  /\ UNCHANGED <<code, raw, sent, regs, got, result, answer>>

(* try_call: what cannot be decoded makes the caller panic. *)
UserReturn ==
  /\ phase = "return"
  /\ phase' = "done" /\ answer' = DecodeResult(code, regs)
  /\ UNCHANGED <<code, raw, sent, regs, got, result>>

Next ==
  \/ \E c \in ToSet(Codes) : UserCall(c)
  \/ \E c \in ToSet(Codes) \cup {"None"} : RawCall(c)
  \/ UnknownCode \/ DecodeArg \/ DecodePanic \/ Call \/ CallGone \/ UserReturn

Spec == Init /\ [][Next]_vars

-----------------------------------------------------------------------------
(* A call through the library is carried out on exactly the arguments it was  *)
(* given: no call loses, swaps, truncates or sign-extends one wrongly, none   *)
(* is refused and none takes the kernel down.                                 *)
ArgumentsArrive ==
  ~raw => /\ phase = "call" => got = {sent}
          /\ phase = "return" => got = {sent}
          /\ phase # "panic"

(* The caller decodes exactly what the kernel returned, whatever the          *)
(* registers held before: of a call of the library, and of any call whose     *)
(* arguments were undecodable.                                                *)
ResultsArrive ==
  phase = "done" /\ result # <<>> => answer = {result}

(* What reaches a call from registers nobody encoded is still a value of its  *)
(* type, and the one those registers encode, but for a duration, which is     *)
(* normalised.                                                                *)
Canonical(c, a) == \A i \in DOMAIN Arg(c) : Arg(c)[i] = "duration" => Part(Arg(c), i, a)[2] < NanosPerSec
DecodedIsEncoded ==
  phase = "call" /\ raw =>
    \A vs \in got :
      /\ Canonical(code, regs) /\ (code = "Exit" => vs # <<-1>>) => IsPrefix(EncodeAll(Arg(code), vs), regs)
      /\ \A i \in DOMAIN vs : Arg(code)[i] = "duration" => vs[i][1] <= MaxWord /\ vs[i][2] < NanosPerSec

(* A call that was not carried out never looks like one that was: a call      *)
(* number or an argument the kernel does not know is answered by an error, or *)
(* by registers the caller cannot decode.                                     *)
RefusedIsNotOk ==
  phase = "done" /\ got = {} => \A r \in answer : r[1] = "err"

(* What the registers carry between a program and the kernel: arguments and    *)
(* results as they were, from whatever registers a call is made, and a refusal *)
(* that cannot be taken for success.                                           *)
EncodingInv == ArgumentsArrive /\ ResultsArrive /\ DecodedIsEncoded /\ RefusedIsNotOk
=============================================================================
