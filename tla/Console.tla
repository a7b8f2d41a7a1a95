------------------------------ MODULE Console ------------------------------
(* The console device (ov6_kernel/src/console/mod.rs) and the UART under it    *)
(* (console/uart.rs): the line editor that the receive interrupt runs, reads   *)
(* that take committed input, and writes that wait for room in the transmit    *)
(* buffer.                                                                     *)
(*                                                                             *)
(* A call holds CONSOLE_BUFFER or TX_BUFFER from one wait to the next, so what *)
(* it does in between is one step.  The echo of a key counts as one character. *)
EXTENDS Integers, Sequences, FiniteSets, SequencesExt

CONSTANTS Readers, Writers,
          BufLen,     \* length of Cons::buf
          TxLen,      \* length of TxBuffer::buf
          Lens,       \* lengths of the reads
          WriteLen,   \* length of a write
          Killable,   \* bound: the processes that are killed
          MaxEvents   \* bound on the keys typed and the calls of write

VARIABLES buf, r, w, e,      \* Cons
          tx, txW, txR,      \* TxBuffer
          busy,              \* the character in the transmit register, or none
          irq,               \* the UART interrupts: the register has become empty
          job,               \* the call each process is in: [pc, len, i, id]
          guard,             \* who holds CONSOLE_WRITE_LOCK, or 0
          killed,            \* killed processes
          keys, writes,
          line, stream,      \* reference: keys being edited, keys committed
          got,               \* what the reads took, in order
          sent, out          \* what the writes put, what the UART sent

vars == <<buf, r, w, e, tx, txW, txR, busy, irq, job, guard, killed, keys, writes, line, stream, got, sent, out>>
input == <<buf, r, w, e, line, stream, got, keys>>
output == <<tx, txW, txR, busy, irq, guard, sent, out, writes>>

Procs == Readers \cup Writers
Keys == {"a", "nl", "eof", "kill", "bs"}
Idle == [pc |-> "idle", len |-> 0, i |-> 0, id |-> 0]
NoByte == <<>>
Echo == <<0, 0>>

Init ==
  /\ buf = [i \in 0..BufLen-1 |-> "none"] /\ r = 0 /\ w = 0 /\ e = 0
  /\ tx = [i \in 0..TxLen-1 |-> NoByte] /\ txW = 0 /\ txR = 0
  /\ busy = NoByte /\ irq = FALSE
  /\ job = [p \in Procs |-> Idle]
  /\ guard = 0 /\ killed = {} /\ keys = 0 /\ writes = 0
  /\ line = <<>> /\ stream = <<>> /\ got = <<>> /\ sent = <<>> /\ out = <<>>

Buffered(from, to) == [i \in 1..to-from |-> buf[(from + i - 1) % BufLen]]

(* Condition variables: everyone asleep at pc goes on.  A process that was     *)
(* woken and finds itself killed gives up.                                     *)
Woken(pc, j) ==
  [p \in Procs |-> IF j[p].pc = pc THEN [j[p] EXCEPT !.pc = "woken"] ELSE j[p]]

(* start(): the oldest character goes to the transmit register when that is    *)
(* empty, which clears the interrupt; so does reading ISR when there is none.  *)
Start(b, from, to, j) ==
  IF from = to \/ busy # NoByte
  THEN busy' = busy /\ txR' = from /\ irq' = (irq /\ from # to) /\ job' = j
  ELSE /\ busy' = b[from % TxLen]
       /\ txR' = from + 1
       /\ irq' = FALSE
       /\ job' = Woken("space", j)

-----------------------------------------------------------------------------
(* Input.                                                                      *)

(* putc_sync waits for the transmit register; nothing more fits into it.       *)
PutEcho == busy = NoByte /\ busy' = Echo /\ irq' = FALSE /\ UNCHANGED txR

(* Faulty variant: keys are erased that a read may have seen.                  *)
EraseAny(n) == e >= n

Erasable(n) == e - w >= n

(* handle_interrupt of the console for one key, then start() for the UART:     *)
(* erase n keys,                                                               *)
Erase(n) ==
  /\ n > 0 /\ Erasable(n) /\ PutEcho
  /\ e' = e - n
  /\ line' = SubSeq(line, 1, Len(line) - n)
  /\ UNCHANGED <<buf, w, stream, job>>

(* How far ^U goes back.                                                       *)
KillLength == Min({n \in 0..e-w : n = e - w \/ buf[(e - n - 1) % BufLen] = "nl"})

(* or insert one, a line's end or a full buffer committing what was typed.     *)
Insert(k) ==
  LET commit == k \in {"nl", "eof"} \/ e + 1 - r = BufLen
  IN /\ e - r < BufLen /\ PutEcho
     /\ buf' = [buf EXCEPT ![e % BufLen] = k]
     /\ e' = e + 1
     /\ IF commit
        THEN /\ w' = e + 1
             /\ stream' = stream \o Append(line, k) /\ line' = <<>>
             /\ job' = Woken("cons", job)
        ELSE /\ line' = Append(line, k)
             /\ UNCHANGED <<w, stream, job>>

(* A key that changes nothing.                                                 *)
Ignored(k) ==
  CASE k = "kill" -> ~Erasable(1) \/ KillLength = 0
    [] k = "bs" -> ~Erasable(1)
    [] OTHER -> e - r >= BufLen

Ignore == Start(tx, txR, txW, job) /\ UNCHANGED <<buf, w, e, line, stream>>

Type(k) ==
  /\ keys + writes < MaxEvents /\ keys' = keys + 1
  /\ \/ Ignored(k) /\ Ignore
     \/ ~Ignored(k) /\ CASE k = "kill" -> Erase(KillLength)
                          [] k = "bs" -> Erase(1)
                          [] OTHER -> Insert(k)
  /\ UNCHANGED <<r, got, tx, txW, guard, killed, writes, sent, out>>

(* How many keys a read of n bytes takes now: up to a newline, up to an end of *)
(* file it finds first, and short of one it finds later.                       *)
Taken(n) ==
  LET c == Buffered(r, w)
      ends == {i \in DOMAIN c : c[i] \in {"nl", "eof"}}
      first == IF ends = {} THEN Len(c) ELSE CHOOSE i \in ends : \A j \in ends : i <= j
  IN IF n <= first /\ ~(n = first /\ ends # {} /\ c[first] = "eof") THEN n ELSE first

StartRead(p, n) ==
  /\ p \in Readers /\ job[p] = Idle /\ p \notin killed
  /\ job' = [job EXCEPT ![p] = [pc |-> "read", len |-> n, i |-> 0, id |-> 0]]
  /\ UNCHANGED <<input, output, killed>>

GivesUp(p) == p \in killed /\ job[p].pc = "woken"

(* read, until it returns or waits.  An end of file that does not come first   *)
(* is put back, for the next read to return nothing.                           *)
Read(p) ==
  LET k == Taken(job[p].len - job[p].i)
      c == SubSeq(Buffered(r, w), 1, k)
      eof == k > 0 /\ Last(c) = "eof"
      back == eof /\ job[p].i + k > 1
      i == job[p].i + k - (IF eof THEN 1 ELSE 0)
      done == eof \/ i = job[p].len \/ (k > 0 /\ Last(c) = "nl")
      asleep == ~done /\ p \notin killed
  IN /\ p \in Readers /\ job[p].pc \in {"read", "woken"} /\ ~GivesUp(p)
     /\ r' = r + k - (IF back THEN 1 ELSE 0)
     /\ got' = got \o (IF back THEN Front(c) ELSE c)
     /\ job' = [job EXCEPT ![p] = IF asleep THEN [@ EXCEPT !.pc = "cons", !.i = i] ELSE Idle]
     /\ UNCHANGED <<buf, w, e, line, stream, keys, output, killed>>

ReadKilled(p) ==
  /\ p \in Readers /\ GivesUp(p)
  /\ job' = [job EXCEPT ![p] = Idle]
  /\ UNCHANGED <<input, output, killed>>

-----------------------------------------------------------------------------
(* Output.                                                                     *)

TakeLock(p) == guard = 0 /\ guard' = p

(* write: CONSOLE_WRITE_LOCK.wait_lock() first.                                *)
StartWrite(p) ==
  /\ p \in Writers /\ job[p] = Idle /\ p \notin killed /\ keys + writes < MaxEvents
  /\ writes' = writes + 1
  /\ \E pc \in {"putc", "lock"} :
       /\ IF pc = "putc" THEN TakeLock(p) ELSE guard # 0 /\ UNCHANGED guard
       /\ job' = [job EXCEPT ![p] = [pc |-> pc, len |-> WriteLen, i |-> 0, id |-> writes]]
  /\ UNCHANGED <<input, tx, txW, txR, busy, irq, sent, out, killed>>

(* The lock is free, or the process that waits for it is killed.               *)
WriteLock(p) ==
  /\ job[p].pc = "lock"
  /\ IF p \in killed THEN job' = [job EXCEPT ![p] = Idle] /\ UNCHANGED guard
                      ELSE job' = [job EXCEPT ![p].pc = "putc"] /\ TakeLock(p)
  /\ UNCHANGED <<input, tx, txW, txR, busy, irq, sent, out, writes, killed>>

IsFull == txW = txR + TxLen

(* putc for the next character of a write, which waits while the buffer is     *)
(* full; a killed writer reports what it wrote.                                *)
Putting(p) == p \in Writers /\ job[p].pc \in {"putc", "woken"} /\ job[p].i < job[p].len

Putc(p) ==
  /\ Putting(p) /\ ~GivesUp(p)
  /\ \/ /\ IsFull /\ p \notin killed
        /\ job' = [job EXCEPT ![p].pc = "space"]
        /\ UNCHANGED <<tx, txW, txR, busy, irq, sent>>
     \/ /\ ~IsFull
        /\ tx' = [tx EXCEPT ![txW % TxLen] = <<p, job[p].id>>]
        /\ txW' = txW + 1
        /\ Start(tx', txR, txW + 1, [job EXCEPT ![p] = [@ EXCEPT !.pc = "putc", !.i = @ + 1]])
        /\ sent' = Append(sent, <<p, job[p].id>>)
  /\ UNCHANGED <<input, guard, out, writes, killed>>

PutcKilled(p) == Putting(p) /\ p \in killed /\ (IsFull \/ GivesUp(p))
Written(p) == job[p].pc = "putc" /\ job[p].i = job[p].len

(* Faulty variant: the write lock is not released.                             *)
KeepLock == UNCHANGED guard

DropLock == guard' = 0

WriteDone(p) ==
  /\ PutcKilled(p) \/ Written(p)
  /\ DropLock
  /\ job' = [job EXCEPT ![p] = Idle]
  /\ UNCHANGED <<input, tx, txW, txR, busy, irq, sent, out, writes, killed>>

(* The UART has sent its character, and will interrupt.                        *)
Transmit ==
  /\ busy # NoByte
  /\ out' = IF busy = Echo THEN out ELSE Append(out, busy)
  /\ busy' = NoByte /\ irq' = TRUE
  /\ UNCHANGED <<input, tx, txW, txR, job, guard, sent, writes, killed>>

(* uart::handle_interrupt without input.                                       *)
Interrupt ==
  /\ irq
  /\ Start(tx, txR, txW, job)
  /\ UNCHANGED <<input, tx, txW, guard, sent, out, writes, killed>>

(* kill: whoever sleeps is woken.                                              *)
Kill(p) ==
  /\ p \in Killable \ killed /\ killed' = killed \cup {p}
  /\ job' = [job EXCEPT ![p].pc = IF @ \in {"cons", "space"} THEN "woken" ELSE @]
  /\ UNCHANGED <<input, output>>

Uart == Transmit \/ Interrupt
Reading(p) == Read(p) \/ ReadKilled(p)
Writing(p) == WriteLock(p) \/ Putc(p) \/ WriteDone(p)

Next ==
  \/ \E k \in Keys : Type(k)
  \/ Uart
  \/ \E p \in Procs : Reading(p) \/ Writing(p) \/ Kill(p) \/ StartWrite(p)
                       \/ \E n \in Lens : StartRead(p, n)

(* The UART sends and interrupts, and the scheduler runs every writer.         *)
Fairness == WF_vars(Uart) /\ \A p \in Writers : WF_vars(Writing(p))
Spec == Init /\ [][Next]_vars /\ Fairness

-----------------------------------------------------------------------------

(* The ring holds the input: what has been typed and committed is read once,   *)
(* in order, and editing never reaches what a read may already have seen.      *)
InputIsEdited ==
  /\ r <= w /\ w <= e /\ e - r <= BufLen
  /\ got \o Buffered(r, w) = stream
  /\ Buffered(w, e) = line

(* A reader sleeps only while there is no committed input, a writer only while *)
(* the transmit buffer is full and the UART is about to interrupt: echoes and  *)
(* other writers, which clear the interrupt, leave the register in use.        *)
WaitersHaveReason ==
  \A p \in Procs : /\ job[p].pc = "cons" => r = w
                   /\ job[p].pc = "space" => IsFull /\ (busy # NoByte \/ irq)

(* What the UART sends is what the writes put, in order.                       *)
OutputInOrder ==
  out \o (IF busy \in {NoByte, Echo} THEN <<>> ELSE <<busy>>)
      \o [i \in 1..txW-txR |-> tx[(txR + i - 1) % TxLen]] = sent

(* The output of a write is not interleaved with another's.                    *)
WritesAreWhole ==
  \A i, j, k \in DOMAIN sent : i < j /\ j < k /\ sent[i] = sent[k] => sent[j] = sent[i]

(* What the console and the UART keep, with keys, writers and interrupts at    *)
(* once: the input line, a reason for every sleep, the order of the output and *)
(* whole writes.                                                               *)
ConsoleInv == InputIsEdited /\ WaitersHaveReason /\ OutputInOrder /\ WritesAreWhole

(* A write returns: its turn comes and the UART makes room.                    *)
Writes(p) == job[p] # Idle
WritesReturn == \A p \in Writers : Writes(p) ~> ~ Writes(p)
=============================================================================
