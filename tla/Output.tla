------------------------------ MODULE Output ------------------------------
(* Standard output of a user program: Stdout (io/stdio.rs) over LineWriterShim *)
(* (io/buffered/linewritershim.rs) over BufWriter (io/buffered/bufwriter.rs)   *)
(* over the write system call, which takes what it likes of what it is given.  *)
(* The program writes one text from start to end, in pieces of its choice.     *)
(* Bytes are named by their place in it, so that a byte dropped, doubled or    *)
(* moved shows.  is_interrupted() is constantly false.                         *)
EXTENDS Integers, Sequences, SequencesExt, FiniteSets

CONSTANTS NByte,      \* length of the text
          Lines,      \* sets of the places newlines may be at
          Cap,        \* capacity of the buffer (1024)
          MaxPiece    \* longest piece written at once

VARIABLES newlines, terminal,
          sink,       \* what the kernel was given
          buf,        \* BufWriter::buf
          pos,        \* what the program takes as written
          call,       \* the call in progress
          todo,       \* what is left to do in it
          taken,      \* bytes of it accepted so far
          cut,        \* print!s that returned with less than they were given
          short,      \* a write took less than it was given
          over        \* "no", "failed", "exiting", "exited"

vars == <<newlines, terminal, sink, buf, pos, call, todo, taken, cut, short, over>>

Bytes(lo, hi) == [i \in 1..hi-lo |-> lo + i - 1]
NoCall == [kind |-> "none", lo |-> 0, hi |-> 0]
Do(op, lo, hi) == [op |-> op, lo |-> lo, hi |-> hi]
Flush == Do("flush", 0, 0)
When(b, s) == IF b THEN s ELSE <<>>
Smaller(a, b) == IF a < b THEN a ELSE b

Init ==
  /\ newlines \in Lines /\ terminal \in BOOLEAN
  /\ sink = <<>> /\ buf = <<>> /\ pos = 0
  /\ call = NoCall /\ todo = <<>> /\ taken = 0
  /\ cut = {} /\ short = FALSE /\ over = "no"

-----------------------------------------------------------------------------
Spare == Cap - Len(buf)

(* memchr: the end of the first line in lo..hi, or lo. *)
LineEnd(lo, hi) ==
  LET ends == {i \in lo+1..hi : i - 1 \in newlines}
  IN IF ends = {} THEN lo ELSE CHOOSE e \in ends : \A f \in ends : e <= f

EndsLine(s) == s # <<>> /\ Last(s) \in newlines

(* LineWriterShim::write. *)
WriteSteps(lo, hi) ==
  IF LineEnd(lo, hi) = lo
    THEN When(EndsLine(buf), <<Flush>>) \o <<Do("write", lo, hi)>>
    ELSE <<Flush, Do("line", lo, hi)>>

(* LineWriterShim::write_all. *)
WriteAllSteps(lo, hi) ==
  LET e == LineEnd(lo, hi)
  IN IF e = lo THEN When(EndsLine(buf), <<Flush>>) \o <<Do("write_all", lo, hi)>>
     ELSE IF buf = <<>> THEN <<Do("all", lo, e), Do("write_all", e, hi)>>
     ELSE <<Do("write_all", lo, e), Flush, Do("write_all", e, hi)>>

(* Stdout::write, Stdout::write_all, and print! by way of write_str, which     *)
(* calls write.  On a terminal a flush follows.                                *)
Call(kind, n) ==
  /\ over = "no" /\ call = NoCall /\ pos + n <= NByte
  /\ call' = [kind |-> kind, lo |-> pos, hi |-> pos + n]
  /\ todo' = (IF kind = "write_all" THEN WriteAllSteps(pos, pos + n) ELSE WriteSteps(pos, pos + n))
             \o When(terminal, <<Flush>>)
  /\ taken' = 0
  /\ UNCHANGED <<newlines, terminal, sink, buf, pos, cut, short, over>>

(* A call that returns Ok.  write_str does not look at the number. *)
Return ==
  /\ call # NoCall /\ todo = <<>>
  /\ call' = NoCall
  /\ pos' = IF call.kind = "write" THEN call.lo + taken ELSE call.hi
  /\ cut' = IF call.kind = "print" /\ call.lo + taken < call.hi
              THEN cut \cup {[lo |-> call.lo, at |-> call.lo + taken, hi |-> call.hi]} ELSE cut
  /\ UNCHANGED <<newlines, terminal, sink, buf, todo, taken, short, over>>

Continue(rest) == todo' = rest \o Tail(todo)

(* `?`: the call fails, and the program goes no further. *)
Fail ==
  /\ over' = IF over = "exiting" THEN "exited" ELSE "failed"
  /\ todo' = <<>> /\ call' = NoCall
  /\ UNCHANGED <<newlines, terminal, sink, buf, pos, taken, cut, short>>

-----------------------------------------------------------------------------
(* flush_buf: the buffer loses what was written, also when it then fails. *)
FlushBuf ==
  /\ todo # <<>> /\ Head(todo).op = "flush"
  /\ \/ /\ buf = <<>> /\ Continue(<<>>)
        /\ UNCHANGED <<sink, buf, short, over>>
     \/ \E n \in 1..Len(buf) :
          /\ sink' = sink \o SubSeq(buf, 1, n)
          /\ buf' = SubSeq(buf, n + 1, Len(buf))
          /\ short' = (short \/ n < Len(buf))
          /\ UNCHANGED <<todo, over>>
  /\ UNCHANGED <<newlines, terminal, pos, call, taken, cut>>

(* Faulty variant: a full buffer is not flushed before more is put in it.      *)
NeverFlush(lo, hi) == FALSE

(* BufWriter::write and write_all with their cold halves. *)
FlushFirst(lo, hi) == hi - lo > Spare
BufferedWrite ==
  LET s == Head(todo)
      n == s.hi - s.lo
      direct == IF s.op = "write" THEN "once" ELSE "all"
  IN /\ todo # <<>> /\ s.op \in {"write", "write_all"}
     /\ Continue(When(FlushFirst(s.lo, s.hi), <<Flush>>)
                 \o <<Do(IF n >= Cap THEN direct ELSE "put", s.lo, s.hi)>>)
     /\ UNCHANGED <<newlines, terminal, sink, buf, pos, call, taken, cut, short, over>>

(* write_to_buffer_unchecked. *)
Put ==
  LET s == Head(todo)
  IN /\ todo # <<>> /\ s.op = "put"
     /\ buf' = buf \o Bytes(s.lo, s.hi)
     /\ taken' = taken + (s.hi - s.lo)
     /\ Continue(<<>>)
     /\ UNCHANGED <<newlines, terminal, sink, pos, call, cut, short, over>>

(* The tail that LineWriterShim::write buffers after the kernel took n bytes   *)
(* of the first line lo..e.                                                    *)
TooLong(n) == n >= Cap
TailEnd(lo, e, hi) ==
  IF lo >= e THEN IF TooLong(hi - lo) THEN lo ELSE hi
  ELSE IF e - lo <= Cap THEN e
  ELSE lo + Cap

(* One write of a line, with the tail buffered by write_to_buf; of a large     *)
(* piece; of the next part of a piece that is written entirely.                *)
WriteToKernel ==
  LET s == Head(todo)
      e == IF s.op = "line" THEN LineEnd(s.lo, s.hi) ELSE s.hi
  IN /\ todo # <<>> /\ s.op \in {"line", "once", "all"}
     /\ \E n \in 0..e-s.lo :
          LET got == s.lo + n
              kept == IF s.op = "line" /\ n > 0
                        THEN Smaller(TailEnd(got, e, s.hi), got + Spare) ELSE got
          IN /\ s.op = "all" => n > 0 \/ s.lo = s.hi
             /\ sink' = sink \o Bytes(s.lo, got)
             /\ buf' = buf \o Bytes(got, kept)
             /\ taken' = taken + (kept - s.lo)
             /\ short' = (short \/ n < e - s.lo)
             /\ Continue(When(s.op = "all" /\ got < s.hi, <<Do("all", got, s.hi)>>))
     /\ UNCHANGED <<newlines, terminal, pos, call, cut, over>>

(* The system call fails, or takes nothing where that is an error. *)
WriteFails ==
  LET s == Head(todo)
  IN /\ todo # <<>>
     /\ \/ s.op = "flush" /\ buf # <<>>
        \/ s.op \in {"line", "once"}
        \/ s.op = "all" /\ s.lo < s.hi
     /\ Fail

(* cleanup, at exit: the writer is replaced, and the drop of the old flushes. *)
Exit ==
  /\ over \in {"no", "failed"} /\ call = NoCall /\ todo = <<>>
  /\ over' = "exiting" /\ todo' = <<Flush>>
  /\ call' = [kind |-> IF over = "failed" THEN "failed" ELSE "exit", lo |-> pos, hi |-> pos]
  /\ UNCHANGED <<newlines, terminal, sink, buf, pos, taken, cut, short>>

Exited ==
  /\ over = "exiting" /\ todo = <<>>
  /\ over' = "exited"
  /\ UNCHANGED <<newlines, terminal, sink, buf, pos, call, todo, taken, cut, short>>

Next ==
  \/ \E kind \in {"write", "write_all", "print"}, n \in 1..MaxPiece : Call(kind, n)
  \/ over = "no" /\ Return
  \/ FlushBuf \/ BufferedWrite \/ Put \/ WriteToKernel \/ WriteFails \/ Exit \/ Exited

Spec == Init /\ [][Next]_vars

-----------------------------------------------------------------------------
Lost == UNION {c.at .. c.hi - 1 : c \in cut}

(* What the program takes as written is in the kernel or in the buffer, once,  *)
(* in order, whatever the kernel took of each write; a program that exits      *)
(* without an error leaves nothing in the buffer.  Only a print! that returned *)
(* early has lost the rest of its text.                                        *)
WrittenIsKept ==
  LET all == sink \o buf
  IN /\ \A i, j \in 1..Len(all) : i < j => all[i] < all[j]
     /\ over = "no" /\ call = NoCall => ToSet(all) = (0..pos-1) \ Lost
     /\ over = "exited" /\ call.kind = "exit" => buf = <<>> /\ ToSet(sink) = (0..pos-1) \ Lost

(* A print! loses text only when the kernel took less than it was given, or    *)
(* when what follows its first line would fill the buffer: write() stops there *)
(* and write_str ignores how far it got.                                       *)
PrintCutOnlyAfterLine ==
  short \/ \A c \in cut : c.at - 1 \in newlines /\ c.hi - c.at >= Cap

(* What LineWriter and BufWriter promise of standard output: what was written  *)
(* is kept once and in order, and print! loses text only where it stops early. *)
OutputInv == WrittenIsKept /\ PrintCutOnlyAfterLine
=============================================================================
