-------------------------------- MODULE Net --------------------------------
(* The network: the receive and transmit rings of the E1000                    *)
(* (ov6_kernel/src/device/e1000.rs), the handlers of a received frame (net/)   *)
(* and the UDP ports with the calls bind, unbind, send and recv (net/udp.rs,   *)
(* syscall/net.rs).                                                            *)
(*                                                                             *)
(* A frame is a number; To[n] is the port it is addressed to, 0 for an ARP     *)
(* request.  The interrupt controller gives the interrupt to one hart at a     *)
(* time, so one handler runs; it lets go of the driver's lock while a frame    *)
(* goes up the stack.                                                          *)
EXTENDS Integers, Sequences, FiniteSets, FiniteSetsExt, SequencesExt

CONSTANTS Procs, PortNos,
          NPort,      \* entries of PORTS and of the slab behind it
          QueueLen,   \* MAX_PORT_MSGS
          RxSize, TxSize,
          To,         \* the frames that may arrive, in order
          MaxCalls    \* bound on the calls of bind, unbind and send

VARIABLES arrived,    \* frames that have arrived
          head, tail, \* Rdh and Rdt
          rx,         \* receive descriptors: the frame, or 0 without Dd
          lent,       \* the descriptor whose buffer the handler has, or -1
          cause,      \* the interrupt cause register is set
          irq,        \* where the handler is
          held,       \* the port the handler holds a reference to, or 0
          tdh, tdt, tx,          \* transmit ring
          txBy, overrun,         \* what was sent and not transmitted, a full ring was overwritten
          seen,       \* ARP_SEEN
          ports,      \* PORTS: [no, obj], or Unbound
          obj,        \* Port objects: [live, bound, queue]
          recv,       \* the recv each process is in: [pc, obj, got]
          killed, calls, halted,
          pushed, taken \* what each object was given and what was taken from it

vars == <<arrived, head, tail, rx, lent, cause, irq, held, tdh, tdt, tx, txBy, overrun, seen,
          ports, obj, recv, killed, calls, halted, pushed, taken>>
device == <<arrived, head, tail, rx, lent, cause, irq>>
sending == <<tdh, tdt, tx, txBy, overrun>>
portvars == <<ports, obj, pushed, taken>>

Unbound == [no |-> 0, obj |-> 0]
NoObj == [live |-> FALSE, bound |-> FALSE, queue |-> <<>>]
Idle == [pc |-> "idle", obj |-> 0]
Objs == 1..NPort
Reply == 0

Init ==
  /\ arrived = 0 /\ head = 0 /\ tail = RxSize - 1
  /\ rx = [i \in 0..RxSize-1 |-> 0]
  /\ lent = -1 /\ cause = FALSE /\ irq = "idle" /\ held = 0
  /\ tdh = 0 /\ tdt = 0 /\ tx = [i \in 0..TxSize-1 |-> 0] /\ txBy = <<>> /\ overrun = FALSE
  /\ seen = FALSE
  /\ ports = [i \in 1..NPort |-> Unbound]
  /\ obj = [o \in Objs |-> NoObj]
  /\ recv = [p \in Procs |-> Idle]
  /\ killed = {} /\ calls = 0 /\ halted = FALSE
  /\ pushed = [o \in Objs |-> <<>>] /\ taken = [o \in Objs |-> <<>>]

-----------------------------------------------------------------------------
(* The device.                                                                 *)

(* A frame goes to the descriptor at the head, which the driver has given back *)
(* unless the head is at the tail; without one it is lost.                     *)
Arrive ==
  /\ arrived < Len(To) /\ arrived' = arrived + 1
  /\ IF head = tail THEN UNCHANGED <<rx, head, cause>>
     ELSE /\ rx' = [rx EXCEPT ![head] = arrived + 1]
          /\ head' = (head + 1) % RxSize
          /\ cause' = TRUE
  /\ UNCHANGED <<tail, lent, irq, held, sending, seen, portvars, recv, killed, calls, halted>>

Transmit ==
  /\ tdh # tdt
  /\ tdh' = (tdh + 1) % TxSize
  /\ txBy' = IF txBy # <<>> THEN Tail(txBy) ELSE txBy
  /\ UNCHANGED <<device, held, tdt, tx, overrun, seen, portvars, recv, killed, calls, halted>>

-----------------------------------------------------------------------------
(* Ports.                                                                      *)

(* Drop of the Arcs in held, recv and ports: an object nothing refers to is    *)
(* given back to the slab.                                                     *)
Referred(o, h, rc, ps) ==
  h = o \/ (\E p \in Procs : rc[p].obj = o) \/ (\E i \in 1..NPort : ps[i].obj = o)

Release(o, q, h, rc, ps) ==
  /\ obj' = IF o # 0 /\ ~Referred(o, h, rc, ps) THEN [q EXCEPT ![o] = NoObj] ELSE q
  /\ IF o # 0 /\ ~Referred(o, h, rc, ps)
     THEN pushed' = [pushed EXCEPT ![o] = <<>>] /\ taken' = [taken EXCEPT ![o] = <<>>]
     ELSE UNCHANGED <<pushed, taken>>

Find(no) == {i \in 1..NPort : ports[i].no = no}

Woken(o) == [p \in Procs |-> IF recv[p] = [pc |-> "asleep", obj |-> o] THEN [pc |-> "woken", obj |-> o] ELSE recv[p]]

TxIndex == tdt

(* transmitter() finds Dd set in every descriptor, for nothing clears it.      *)
Put(f) ==
  /\ tx' = [tx EXCEPT ![TxIndex] = f]
  /\ tdt' = (tdt + 1) % TxSize
  /\ txBy' = Append(txBy, f)
  /\ overrun' = (overrun \/ (tdt + 1) % TxSize = tdh)
  /\ UNCHANGED tdh

-----------------------------------------------------------------------------
(* The interrupt handler.                                                      *)

(* handle_interrupt acknowledges the cause before it looks at the ring.        *)
Claim ==
  /\ irq = "idle" /\ cause
  /\ cause' = FALSE
  /\ irq' = "ring"
  /\ UNCHANGED <<arrived, head, tail, rx, lent, held, sending, seen, portvars, recv, killed, calls, halted>>

(* receive: the descriptor after the tail, if it is done; otherwise the        *)
(* interrupt is complete.                                                      *)
Receive ==
  LET i == (tail + 1) % RxSize
  IN /\ irq = "ring"
     /\ IF rx[i] = 0 THEN irq' = "idle" /\ UNCHANGED lent
        ELSE irq' = "frame" /\ lent' = i
     /\ UNCHANGED <<arrived, head, tail, rx, cause, held, sending, seen, portvars, recv, killed, calls, halted>>

(* arp::handle_receive answers the first request, and no other.                *)
HandleArp ==
  /\ irq = "frame" /\ To[rx[lent]] = 0
  /\ seen' = TRUE
  /\ IF seen THEN UNCHANGED sending ELSE Put(Reply)
  /\ irq' = "back"
  /\ UNCHANGED <<arrived, head, tail, rx, lent, cause, held, portvars, recv, killed, calls, halted>>

(* udp::handle_receive looks the port up and lets go of the table ...          *)
HandleUdp ==
  /\ irq = "frame" /\ To[rx[lent]] # 0
  /\ IF Find(To[rx[lent]]) = {} THEN irq' = "back" /\ UNCHANGED held
     ELSE irq' = "push" /\ held' = ports[Min(Find(To[rx[lent]]))].obj
  /\ UNCHANGED <<arrived, head, tail, rx, lent, cause, sending, seen, portvars, recv, killed, calls, halted>>


(* push_back of a full queue that saturates: the newest datagram is lost.      *)
Saturating(q, d) == IF Len(q) >= QueueLen THEN q ELSE Append(q, d)

(* ... pushes a copy of the datagram, when there is a page for it, ...         *)
PushDatagram ==
  /\ irq = "push"
  /\ obj' = [obj EXCEPT ![held].queue = Saturating(@, rx[lent])]
  /\ pushed' = IF Len(obj[held].queue) >= QueueLen THEN pushed
               ELSE [pushed EXCEPT ![held] = Append(@, rx[lent])]
  /\ irq' = "notify"
  /\ UNCHANGED <<arrived, head, tail, rx, lent, cause, held, sending, seen, ports, recv, taken,
                 killed, calls, halted>>

NoPage ==
  /\ irq = "push"
  /\ Release(held, obj, 0, recv, ports)
  /\ held' = 0
  /\ irq' = "back"
  /\ UNCHANGED <<arrived, head, tail, rx, lent, cause, sending, seen, ports, recv, killed, calls, halted>>

(* ... and wakes the receivers, after it has let go of the queue.              *)
Notify ==
  /\ irq = "notify"
  /\ recv' = Woken(held)
  /\ Release(held, obj, 0, Woken(held), ports)
  /\ held' = 0
  /\ irq' = "back"
  /\ UNCHANGED <<arrived, head, tail, rx, lent, cause, sending, seen, ports, killed, calls, halted>>

(* The buffer and the descriptor go back to the device, and receive loops.     *)
NewTail == lent

(* Faulty variant: one frame for each interrupt.                               *)
FrameIsLast == "idle"

AfterFrame == "ring"

GiveBack ==
  /\ irq = "back"
  /\ rx' = [rx EXCEPT ![lent] = 0]
  /\ tail' = NewTail
  /\ lent' = -1
  /\ irq' = AfterFrame
  /\ UNCHANGED <<arrived, head, cause, held, sending, seen, portvars, recv, killed, calls, halted>>

-----------------------------------------------------------------------------
(* System calls.                                                               *)

Call == calls < MaxCalls /\ calls' = calls + 1

(* bind: the port object comes from a slab of NPort, and Arc::new_in panics    *)
(* when that is used up by ports that are no longer bound.                     *)
Bind(no) ==
  LET free == {i \in 1..NPort : ports[i] = Unbound}
      slab == {o \in Objs : ~obj[o].live}
  IN /\ Call /\ Find(no) = {} /\ free # {}
     /\ IF slab = {} THEN halted' = TRUE /\ UNCHANGED portvars
        ELSE /\ ports' = [ports EXCEPT ![Min(free)] = [no |-> no, obj |-> Min(slab)]]
             /\ obj' = [obj EXCEPT ![Min(slab)] = [live |-> TRUE, bound |-> TRUE, queue |-> <<>>]]
             /\ UNCHANGED <<pushed, taken, halted>>
     /\ UNCHANGED <<device, held, sending, seen, recv, killed>>

(* unbind takes the port out of the table, marks it and wakes its receivers.   *)
MarkUnbound(o) == [obj EXCEPT ![o].bound = FALSE]
Told(o) == Woken(o)

Unbind(no) ==
  /\ Call /\ Find(no) # {}
  /\ LET i == Min(Find(no))
         o == ports[i].obj
         ps == [ports EXCEPT ![i] = Unbound]
     IN /\ ports' = ps
        /\ recv' = Told(o)
        /\ Release(o, MarkUnbound(o), held, Told(o), ps)
  /\ UNCHANGED <<device, held, sending, seen, killed, halted>>

Send(p) ==
  /\ Call /\ recv[p] = Idle
  /\ Put(p)
  /\ UNCHANGED <<device, held, seen, portvars, recv, killed, halted>>

(* recv_from: find the port; wait_receive holds its queue's lock from one wait *)
(* to the next.                                                                *)
RecvStart(p, no) ==
  /\ recv[p] = Idle /\ p \notin killed /\ Find(no) # {}
  /\ recv' = [recv EXCEPT ![p] = [pc |-> "queue", obj |-> ports[Min(Find(no))].obj]]
  /\ UNCHANGED <<device, held, sending, seen, portvars, killed, calls, halted>>

(* A receiver that sleep finds killed gives up.                                *)
GivesUp(p) == p \in killed /\ (recv[p].pc = "woken" \/ obj[recv[p].obj].queue = <<>>)

RecvEnds(p) ==
  LET o == recv[p].obj
      rc == [recv EXCEPT ![p] = Idle]
  IN /\ recv[p].pc \in {"queue", "woken"}
     /\ GivesUp(p) \/ ~obj[o].bound
     /\ recv' = rc
     /\ Release(o, obj, held, rc, ports)
     /\ UNCHANGED <<device, held, sending, seen, ports, killed, calls, halted>>

RecvStep(p) ==
  LET o == recv[p].obj
  IN /\ recv[p].pc \in {"queue", "woken"} /\ ~GivesUp(p) /\ obj[o].bound
     /\ IF obj[o].queue # <<>>
        THEN /\ recv' = [recv EXCEPT ![p] = Idle]
             /\ obj' = [obj EXCEPT ![o].queue = Tail(@)]
             /\ taken' = [taken EXCEPT ![o] = Append(@, Head(obj[o].queue))]
        ELSE /\ recv' = [recv EXCEPT ![p].pc = "asleep"]
             /\ UNCHANGED <<obj, taken>>
     /\ UNCHANGED <<device, held, sending, seen, ports, pushed, killed, calls, halted>>

Kill(p) ==
  /\ p \notin killed /\ killed' = killed \cup {p}
  /\ recv' = [recv EXCEPT ![p].pc = IF @ = "asleep" THEN "woken" ELSE @]
  /\ UNCHANGED <<device, held, sending, seen, portvars, calls, halted>>

Handler == Claim \/ Receive \/ HandleArp \/ HandleUdp \/ PushDatagram \/ NoPage \/ Notify \/ GiveBack

Next ==
  /\ ~halted
  /\ \/ Arrive \/ Transmit \/ Handler
     \/ \E no \in PortNos : Bind(no) \/ Unbind(no)
     \/ \E p \in Procs : Send(p) \/ RecvStep(p) \/ RecvEnds(p) \/ Kill(p) \/ \E no \in PortNos : RecvStart(p, no)

(* The interrupt controller calls the handler, and the scheduler runs everyone. *)
HandlerRuns == ~ halted /\ Handler
RecvRuns(p) == ~ halted /\ (RecvStep(p) \/ RecvEnds(p))
Fairness == WF_vars(HandlerRuns) /\ \A p \in Procs : WF_vars(RecvRuns(p))
Spec == Init /\ [][Next]_vars /\ Fairness

-----------------------------------------------------------------------------

(* The driver and the device never have the same receive descriptor: a done    *)
(* descriptor is one the driver has not given back, they are handled in the    *)
(* order of arrival, and the buffer the handler works on is not the device's.  *)
RxRingOrdered ==
  LET done == {i \in 0..RxSize-1 : rx[i] # 0}
      owned == {(tail + k) % RxSize : k \in 1..(head - tail - 1) % RxSize}
  IN /\ done = owned
     /\ lent # -1 => lent = (tail + 1) % RxSize
     /\ \A k \in 1..RxSize-2 : LET i == (tail + k) % RxSize
                                   j == (tail + k + 1) % RxSize
                               IN {i, j} \subseteq done => rx[i] < rx[j]

(* A port delivers what it was given, once, in order, and only what was sent   *)
(* to it while it was bound under its number.                                  *)
PortsDeliverInOrder ==
  \A o \in Objs :
    /\ obj[o].live => taken[o] \o obj[o].queue = pushed[o]
    /\ \A i \in 1..NPort : ports[i].obj = o => \A k \in DOMAIN pushed[o] : To[pushed[o][k]] = ports[i].no

(* Port objects are neither lost nor freed while in use, and bind stops the    *)
(* kernel only when receivers hold ports that are no longer bound.             *)
PortsAccounted ==
  /\ \A o \in Objs : obj[o].live <=> Referred(o, held, recv, ports)
  /\ \A o \in Objs : obj[o].bound <=> \E i \in 1..NPort : ports[i].obj = o
  /\ halted => \E o \in Objs : obj[o].live /\ ~obj[o].bound

(* The transmit ring keeps the frames that were sent until they go out; that   *)
(* fails only once a sender has run a whole ring ahead of the device.          *)
TxRingOrdered ==
  ~overrun => txBy = [k \in 1..(tdt - tdh) % TxSize |-> tx[(tdh + k - 1) % TxSize]]

(* A receiver sleeps only at a bound port with nothing in its queue, or the    *)
(* handler is about to wake it.                                                *)
ReceiversHaveReason ==
  \A p \in Procs : recv[p].pc = "asleep" =>
    LET o == recv[p].obj
    IN obj[o].bound /\ (obj[o].queue = <<>> \/ (irq = "notify" /\ held = o))


(* Unbinding a port, or killing the receiver, ends the recv.                   *)
InRecv(p) == recv[p] # Idle /\ ~ halted
HasNoPort(p) == p \in killed \/ ~ obj[recv[p].obj].bound
RecvReturns == \A p \in Procs : InRecv(p) /\ HasNoPort(p) ~> ~ InRecv(p)

(* A frame in the receive ring is handled and its descriptor given back, also  *)
(* when it arrives while the handler is at work on another.                    *)
InRing(n) == (\E i \in 0..RxSize-1 : rx[i] = n) /\ ~ halted
FramesHandled == \A n \in 1..Len(To) : InRing(n) ~> ~ InRing(n)

(* The network goes on: recv of an unbound port or a killed process returns,   *)
(* and every frame is handled.                                                 *)
NetProceeds == RecvReturns /\ FramesHandled
=============================================================================
