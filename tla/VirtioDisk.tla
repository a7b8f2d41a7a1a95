---------------------------- MODULE VirtioDisk ----------------------------
(***************************************************************************)
(* The virtio disk driver (fs/virtio_disk.rs): processes that take three   *)
(* descriptors, publish a request in the available ring and sleep; the     *)
(* device, which serves published requests in any order and reports them   *)
(* in the used ring; and the interrupt handler, which holds the driver's   *)
(* lock while the device goes on.  The other critical sections never       *)
(* sleep, and the device sees a request only when the index is advanced,   *)
(* so each is one step.                                                    *)
(***************************************************************************)
EXTENDS Integers, FiniteSets

CONSTANTS Proc, Block, Data, InitData,
          Kind,     \* bound: the requests that are made
          Num,      \* NUM descriptors and ring entries
          IdxMod,   \* the ring indices wrap at 2^16
          None

ASSUME ConstAssumption ==
  /\ InitData \in Data /\ Block # {} /\ Kind \subseteq {"read", "write"}
  /\ Num \in Nat /\ Num >= 3 /\ IdxMod \in Nat
  /\ \E k \in 1..IdxMod : IdxMod = k * Num   \* "Must be a power of two"
  /\ None \notin Proc \cup 0..Num-1

Desc == 0..Num-1

VARIABLES
  disk,        \* contents of the device
  kind, blk, buf,  \* the request of each process and its buffer
  free,        \* Disk.free
  addr,        \* what each descriptor points at: the request header (Disk.ops),
               \* the buffer of a process, or the status byte of a chain
  link,        \* its next descriptor, None without VirtqDescFlags::NEXT
  avail, availIdx,  \* VirtqAvail; an entry is None once the device has read it
  devIdx,      \* the available entries the device has taken
  taken,       \* the heads the device works on
  used, usedIdx,    \* VirtqUsed; an entry is None once the driver has read it
  seen,        \* Disk.used_idx
  status, inProgress,  \* TrackInfo, by head descriptor
  irq,         \* the device's interrupt is pending
  isr,         \* the interrupt handler is in its loop, with the lock
  pc, head,    \* where each process is; the first descriptor it holds
  notified,    \* sleepers whose condition was notified
  halted

request == <<kind, blk, buf>>
queue == <<free, addr, link>>
availRing == <<avail, availIdx>>
device == <<disk, devIdx, taken, used, usedIdx>>
track == <<status, inProgress>>
vars == <<request, queue, availRing, device, seen, track, irq, isr, pc, head, notified, halted>>

Advance(i) == (i + 1) % IdxMod

Init ==
  /\ disk = [b \in Block |-> InitData]
  /\ kind = [p \in Proc |-> "none"]
  /\ blk = [p \in Proc |-> CHOOSE b \in Block : TRUE]
  /\ buf = [p \in Proc |-> InitData]
  /\ free = Desc
  /\ addr = [d \in Desc |-> <<"none">>]
  /\ link = [d \in Desc |-> None]
  /\ avail = [i \in Desc |-> None] /\ availIdx = 0
  /\ devIdx = 0 /\ taken = {}
  /\ used = [i \in Desc |-> None] /\ usedIdx = 0
  /\ seen = 0
  /\ status = [d \in Desc |-> 0] /\ inProgress = {}
  /\ irq = FALSE /\ isr = FALSE
  /\ pc = [p \in Proc |-> "idle"]
  /\ head = [p \in Proc |-> None]
  /\ notified = {}
  /\ halted = FALSE

-----------------------------------------------------------------------------
(* Requests.                                                               *)

(* read and write, up to the lock; read's buffer is what it is.            *)
Call(p, k, b, v) ==
  /\ pc[p] = "idle"
  /\ k = "read" => v = buf[p]
  /\ pc' = [pc EXCEPT ![p] = "start"]
  /\ kind' = [kind EXCEPT ![p] = k]
  /\ blk' = [blk EXCEPT ![p] = b]
  /\ buf' = [buf EXCEPT ![p] = v]
  /\ UNCHANGED <<queue, availRing, device, seen, track, irq, isr, head, notified, halted>>

(* The process has the lock, first or back from desc_freed.force_wait.     *)
Allocates(p) ==
  /\ pc[p] = "start" \/ (pc[p] = "wait_desc" /\ p \in notified)
  /\ ~ isr

WaitingForDesc == {p \in Proc : pc[p] = "wait_desc"}

(* Faulty variant: a failed attempt keeps what it got.                     *)
AllocKeeps(p) ==
  /\ Allocates(p)
  /\ Cardinality(free) < 3
  /\ free' = {}
  /\ pc' = [pc EXCEPT ![p] = "wait_desc"]
  /\ notified' = notified \ {p}
  /\ UNCHANGED <<request, addr, link, availRing, device, seen, track, irq, isr, head, halted>>

(* alloc3_desc fails: freeing what it got notifies, then the caller waits. *)
AllocFails(p) ==
  /\ Allocates(p)
  /\ Cardinality(free) < 3
  /\ pc' = [pc EXCEPT ![p] = "wait_desc"]
  /\ notified' = (notified \cup IF free = {} THEN {} ELSE WaitingForDesc) \ {p}
  /\ UNCHANGED <<request, queue, availRing, device, seen, track, irq, isr, head, halted>>

Lowest(S) == CHOOSE d \in S : \A e \in S : d <= e

(* alloc3_desc and send_request; then the process waits for completion.    *)
Submit(p) ==
  /\ Allocates(p)
  /\ Cardinality(free) >= 3
  /\ LET a == Lowest(free)
         b == Lowest(free \ {a})
         c == Lowest(free \ {a, b}) IN
       /\ free' = free \ {a, b, c}
       /\ addr' = [addr EXCEPT ![a] = <<"op", kind[p], blk[p]>>, ![b] = <<"buf", p>>,
                              ![c] = <<"status", a>>]
       /\ link' = [link EXCEPT ![a] = b, ![b] = c, ![c] = None]
       /\ status' = [status EXCEPT ![a] = 255]
       /\ inProgress' = inProgress \cup {a}
       /\ avail' = [avail EXCEPT ![availIdx % Num] = a]
       /\ head' = [head EXCEPT ![p] = a]
  /\ availIdx' = Advance(availIdx)
  /\ pc' = [pc EXCEPT ![p] = "wait"]
  /\ notified' = notified \ {p}
  /\ UNCHANGED <<request, device, seen, irq, isr, halted>>

Follow(S) == S \cup ({link[d] : d \in S} \ {None})
Chain(h) == Follow(Follow({h}))

(* Faulty variant: in_progress is not looked at again.                     *)
FinishUnasked(p) ==
  /\ pc[p] = "wait" /\ ~ isr
  /\ free' = free \cup Chain(head[p])
  /\ addr' = [d \in Desc |-> IF d \in Chain(head[p]) THEN <<"none">> ELSE addr[d]]
  /\ link' = [d \in Desc |-> IF d \in Chain(head[p]) THEN None ELSE link[d]]
  /\ pc' = [pc EXCEPT ![p] = "idle"]
  /\ head' = [head EXCEPT ![p] = None]
  /\ kind' = [kind EXCEPT ![p] = "none"]
  /\ notified' = (notified \cup WaitingForDesc) \ {p}
  /\ UNCHANGED <<blk, buf, availRing, device, seen, track, irq, isr, halted>>

(* Woken by completed: free_chain, and return.                             *)
Finish(p) ==
  /\ pc[p] = "wait" /\ p \in notified /\ ~ isr
  /\ head[p] \notin inProgress
  /\ free' = free \cup Chain(head[p])
  /\ addr' = [d \in Desc |-> IF d \in Chain(head[p]) THEN <<"none">> ELSE addr[d]]
  /\ link' = [d \in Desc |-> IF d \in Chain(head[p]) THEN None ELSE link[d]]
  /\ pc' = [pc EXCEPT ![p] = "idle"]
  /\ head' = [head EXCEPT ![p] = None]
  /\ kind' = [kind EXCEPT ![p] = "none"]
  /\ notified' = (notified \cup WaitingForDesc) \ {p}
  /\ UNCHANGED <<blk, buf, availRing, device, seen, track, irq, isr, halted>>

-----------------------------------------------------------------------------
(* The device.                                                             *)

DeviceTake ==
  /\ devIdx # availIdx
  /\ taken' = taken \cup {avail[devIdx % Num]}
  /\ avail' = [avail EXCEPT ![devIdx % Num] = None]
  /\ devIdx' = Advance(devIdx)
  /\ UNCHANGED <<request, queue, availIdx, disk, used, usedIdx, seen, track, irq, isr, pc, head,
                 notified, halted>>

(* The request of chain h is carried out on the memory its descriptors     *)
(* point at, or fails, and is reported with an interrupt.                  *)
DeviceServe(h, ok) ==
  /\ h \in taken
  /\ LET k == addr[h][2]
         b == addr[h][3]
         p == addr[link[h]][2]
         s == addr[link[link[h]]][2] IN
       /\ disk' = IF ok /\ k = "write" THEN [disk EXCEPT ![b] = buf[p]] ELSE disk
       /\ buf' = IF ok /\ k = "read" THEN [buf EXCEPT ![p] = disk[b]] ELSE buf
       /\ status' = [status EXCEPT ![s] = IF ok THEN 0 ELSE 1]
  /\ taken' = taken \ {h}
  /\ used' = [used EXCEPT ![usedIdx % Num] = h]
  /\ usedIdx' = Advance(usedIdx)
  /\ irq' = TRUE
  /\ UNCHANGED <<kind, blk, queue, availRing, devIdx, seen, inProgress, isr, pc, head, notified, halted>>

-----------------------------------------------------------------------------
(* handle_interrupt.                                                       *)

(* The interrupt is taken, the lock acquired and the device acknowledged.  *)
IsrBegin ==
  /\ irq /\ ~ isr
  /\ irq' = FALSE
  /\ isr' = TRUE
  /\ UNCHANGED <<request, queue, availRing, device, seen, track, pc, head, notified, halted>>

UsedId == used[seen % Num]

(* Faulty variant: one completion per interrupt.                           *)
IsrEntryOnce ==
  /\ isr /\ seen # usedIdx
  /\ status[UsedId] = 0
  /\ inProgress' = inProgress \ {UsedId}
  /\ notified' = notified \cup {p \in Proc : pc[p] = "wait" /\ head[p] = UsedId}
  /\ used' = [used EXCEPT ![seen % Num] = None]
  /\ seen' = Advance(seen)
  /\ isr' = FALSE
  /\ UNCHANGED <<request, queue, availRing, disk, devIdx, taken, usedIdx, status, irq, pc, head,
                 halted>>

(* One turn of the loop: the request is done, its process is woken.        *)
IsrEntry ==
  /\ isr /\ seen # usedIdx
  /\ status[UsedId] = 0
  /\ inProgress' = inProgress \ {UsedId}
  /\ notified' = notified \cup {p \in Proc : pc[p] = "wait" /\ head[p] = UsedId}
  /\ used' = [used EXCEPT ![seen % Num] = None]
  /\ seen' = Advance(seen)
  /\ UNCHANGED <<request, queue, availRing, disk, devIdx, taken, usedIdx, status, irq, isr, pc, head,
                 halted>>

(* assert_eq!(info.status.get(), 0)                                        *)
IsrPanics ==
  /\ isr /\ seen # usedIdx
  /\ status[UsedId] # 0
  /\ halted' = TRUE
  /\ UNCHANGED <<request, queue, availRing, device, seen, track, irq, isr, pc, head, notified>>

IsrEnd ==
  /\ isr /\ seen = usedIdx
  /\ isr' = FALSE
  /\ UNCHANGED <<request, queue, availRing, device, seen, track, irq, pc, head, notified, halted>>

-----------------------------------------------------------------------------
Isr == IsrBegin \/ IsrEntry \/ IsrPanics \/ IsrEnd

Running ==
  /\ ~ halted
  /\ \/ Isr \/ DeviceTake \/ \E h \in Desc, ok \in BOOLEAN : DeviceServe(h, ok)
     \/ \E p \in Proc :
          \/ \E k \in Kind, b \in Block, v \in Data : Call(p, k, b, v)
          \/ Submit(p) \/ AllocFails(p) \/ Finish(p)

Halted == halted /\ UNCHANGED vars

Next == Running \/ Halted

Spec == Init /\ [][Next]_vars

(* The device works, its interrupts are taken, and a process that waits    *)
(* for the lock gets it in the end.                                        *)
IsrRuns == ~ halted /\ Isr
DeviceTakes == ~ halted /\ DeviceTake
DeviceServes(h) == ~ halted /\ \E ok \in BOOLEAN : DeviceServe(h, ok)
ProcRuns(p) == ~ halted /\ (Submit(p) \/ AllocFails(p) \/ Finish(p))
Fairness ==
  /\ WF_vars(IsrRuns) /\ WF_vars(DeviceTakes)
  /\ \A h \in Desc : WF_vars(DeviceServes(h))
  /\ \A p \in Proc : SF_vars(ProcRuns(p))

FairSpec == Spec /\ Fairness

-----------------------------------------------------------------------------
(* Properties.                                                             *)

(* What a descriptor can point at.                                         *)
Addr == {<<"none">>} \cup ({"op"} \X {"read", "write"} \X Block)
          \cup ({"buf"} \X Proc) \cup ({"status"} \X Desc)

(* Every variable has its type.                                            *)
CallTypes ==
  /\ kind \in [Proc -> {"none", "read", "write"}] /\ blk \in [Proc -> Block] /\ buf \in [Proc -> Data]
  /\ pc \in [Proc -> {"idle", "start", "wait_desc", "wait"}]
  /\ head \in [Proc -> Desc \cup {None}]
  /\ notified \subseteq Proc
DescTypes ==
  /\ free \subseteq Desc /\ taken \subseteq Desc /\ inProgress \subseteq Desc
  /\ addr \in [Desc -> Addr] /\ link \in [Desc -> Desc \cup {None}]
  /\ status \in [Desc -> {0, 1, 255}]
RingTypes ==
  /\ avail \in [Desc -> Desc \cup {None}] /\ used \in [Desc -> Desc \cup {None}]
  /\ {availIdx, devIdx, usedIdx, seen} \subseteq 0..IdxMod-1
TypeOK ==
  /\ CallTypes /\ DescTypes /\ RingTypes
  /\ disk \in [Block -> Data]
  /\ {irq, isr, halted} \subseteq BOOLEAN

Waiting == {p \in Proc : pc[p] = "wait"}

(* A descriptor is free or in the chain of exactly one waiting request:    *)
(* alloc3_desc and free_chain neither lose nor share one, so that the      *)
(* assertion of free_desc holds.                                           *)
DescriptorsAccounted ==
  /\ \A p \in Waiting : Cardinality(Chain(head[p])) = 3 /\ Chain(head[p]) \cap free = {}
  /\ \A p, q \in Waiting : p # q => Chain(head[p]) \cap Chain(head[q]) = {}
  /\ Desc = free \cup UNION {Chain(head[p]) : p \in Waiting}

(* The entries of a ring between two indices, and their number.            *)
Count(from, to) == (to - from) % IdxMod
Entry(ring, from, i) == ring[(from + i) % Num]
Entries(ring, from, to) == {Entry(ring, from, i) : i \in 0..Count(from, to)-1}
Published == Entries(avail, devIdx, availIdx)
Reported == Entries(used, seen, usedIdx)

(* What the device may still touch belongs to a process that waits in      *)
(* read_or_write: every request the device can see, works on or has        *)
(* reported is in progress, in one place only, with the descriptors        *)
(* leading to its caller's buffer and header.                              *)
DeviceTouchesWaiters ==
  /\ inProgress = Published \cup taken \cup Reported
  /\ Published \cap taken = {} /\ Published \cap Reported = {} /\ taken \cap Reported = {}
  /\ \A h \in inProgress : \E p \in Waiting :
       /\ head[p] = h
       /\ addr[h] = <<"op", kind[p], blk[p]>>
       /\ addr[link[h]] = <<"buf", p>>
       /\ addr[link[link[h]]] = <<"status", h>>

(* A request is served once, between its call and its return.              *)
Phase(p) ==
  CASE pc[p] = "idle" -> "idle"
    [] pc[p] = "wait" /\ status[head[p]] = 0 -> "served"
    [] OTHER -> "pending"
B == INSTANCE BlockDevice WITH phase <- [p \in Proc |-> Phase(p)]
ImplementsBlockDevice == B!Spec

(* Once callers stop arriving every request returns, although waiters for  *)
(* descriptors keep waking one another and an interrupt may be taken for   *)
(* completions that an earlier one has handled.                            *)
NoNewCalls == \A p \in Proc : pc[p] = "idle" => pc'[p] = "idle"
InCall(p) == pc[p] # "idle" /\ ~ halted
RequestsReturn == <>[][NoNewCalls]_vars => \A p \in Proc : InCall(p) ~> ~ InCall(p)

(* The descriptors of a waiting process lead from its header to its buffer *)
(* and its status byte, and no other process's do.                         *)
Third(h) == link[link[h]]
IsChain(p, a, b, c) ==
  /\ {a, b, c} \subseteq Desc \ free /\ a # b /\ a # c /\ b # c
  /\ link[a] = b /\ link[b] = c /\ link[c] = None
  /\ addr[a] = <<"op", kind[p], blk[p]>> /\ addr[b] = <<"buf", p>> /\ addr[c] = <<"status", a>>
ChainLeads(p) == IsChain(p, head[p], link[head[p]], Third(head[p]))

(* A ring never holds a request twice, and the status byte of a request    *)
(* tells how far it is: a caller returns only once it was served.          *)
NoEntryTwice(ring, from, to) ==
  \A i, j \in 0..Count(from, to)-1 : Entry(ring, from, i) = Entry(ring, from, j) => i = j
RingsHoldOnce == NoEntryTwice(avail, devIdx, availIdx) /\ NoEntryTwice(used, seen, usedIdx)
CallsHaveKind == \A p \in Proc : pc[p] # "idle" => kind[p] # "none"
StatusTells ==
  /\ \A h \in Published \cup taken : status[h] = 255
  /\ \A h \in Reported : status[h] # 255
  /\ \A p \in Waiting : head[p] \notin inProgress => status[head[p]] = 0
RequestsTracked == RingsHoldOnce /\ CallsHaveKind /\ StatusTells

(* What the driver keeps while requests, interrupts and the device         *)
(* interleave: descriptors accounted for, and a device that only touches   *)
(* the buffers of callers that wait; with the chains and rings these rest  *)
(* on, so that every step keeps the whole.                                 *)
VirtioInv ==
  /\ TypeOK /\ DescriptorsAccounted /\ DeviceTouchesWaiters
  /\ \A p \in Waiting : ChainLeads(p)
  /\ RequestsTracked
=============================================================================
