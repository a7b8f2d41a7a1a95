-------------------------- MODULE VirtioDiskProofs --------------------------
(***************************************************************************)
(* The disk driver keeps its invariant and implements the block device,    *)
(* for any processes, blocks and data, any number of descriptors and any   *)
(* multiple of it as the modulus of the ring indices.  First the steps of  *)
(* the driver and its device, one lemma each: what they do to the rings,   *)
(* the chains and the requests in flight, and which step of the block      *)
(* device each one is.  Nothing is counted there: that a ring works as a   *)
(* queue (RingsPush, RingsPop) and that alloc3_desc returns three          *)
(* descriptors (SubmitTakesThree) are hypotheses of those lemmas, and the  *)
(* second half proves them.                                                *)
(***************************************************************************)
EXTENDS VirtioDisk, FiniteSetTheorems, TLAPS

-----------------------------------------------------------------------------
(* The rings.                                                              *)

(* The values of an index, and the rings.                                  *)
Index == 0..IdxMod-1
Ring == [Desc -> Desc \cup {None}]

(* Division, as the provers need it.                                       *)
LEMMA DivMod ==
  ASSUME NEW n \in Nat \ {0}, NEW k \in Nat
  PROVE  /\ k % n \in 0..n-1
         /\ k \div n \in Nat
         /\ k = n * (k \div n) + (k % n)
OBVIOUS

(* There are enough descriptors for a request, and the modulus of the      *)
(* indices is no smaller than the rings.                                   *)
LEMMA Constants == Num \in Nat /\ Num >= 3 /\ IdxMod \in Nat /\ IdxMod >= Num
<1>1. PICK k \in 1..IdxMod : IdxMod = k * Num
  BY ConstAssumption, Zenon
<1>2. Num \in Nat /\ Num >= 3 /\ IdxMod \in Nat /\ k \in Nat \ {0}
  BY <1>1, ConstAssumption
<1>3. k * Num >= Num
  BY <1>2
<1> QED BY <1>1, <1>2, <1>3, Zenon

(* wrapping_add(1) of an index.                                            *)
LEMMA AdvanceIs ==
  ASSUME NEW i \in Index
  PROVE  /\ Advance(i) = IF i = IdxMod - 1 THEN 0 ELSE i + 1
         /\ Advance(i) \in Index
BY Constants DEF Advance, Index

(* An index selects a slot of a ring.                                      *)
LEMMA SlotType ==
  ASSUME NEW j \in Nat
  PROVE  j % Num \in Desc
BY Constants, DivMod DEF Desc

(* The next index, and the slot of this one.                               *)
LEMMA IndexStep ==
  ASSUME NEW i \in 0..IdxMod-1
  PROVE  Advance(i) \in 0..IdxMod-1 /\ i % Num \in Desc
BY AdvanceIs, SlotType, Constants DEF Index

(* Rings and indices have their types.                                     *)
LEMMA RingsTyped ==
  ASSUME TypeOK
  PROVE  /\ avail \in Ring /\ used \in Ring
         /\ availIdx \in Index /\ devIdx \in Index /\ usedIdx \in Index /\ seen \in Index
BY Zenon DEF TypeOK, RingTypes, Ring, Index

(* The heads S leave out h and two other descriptors.                      *)
LeavesOut(S, h) ==
  \E b, c \in Desc : h # b /\ h # c /\ b # c /\ S \subseteq Desc \ {h, b, c}

(* Entry i of a ring is overwritten.                                       *)
Put(ring, i, h) == [ring EXCEPT ![i % Num] = h]

(* A request is added to a ring that has room.                             *)
IsPushed(r, ring, from, to, h) ==
  /\ Entries(r, from, Advance(to)) = Entries(ring, from, to) \cup {h}
  /\ NoEntryTwice(r, from, Advance(to))

(* What the rings do as queues of heads: a head that is new to a ring, and *)
(* whose chain none of its entries shares, is added to them.               *)
RingsPush ==
  \A ring \in Ring, from, to \in Index, h \in Desc :
    NoEntryTwice(ring, from, to) /\ LeavesOut(Entries(ring, from, to), h) =>
      IsPushed(Put(ring, to, h), ring, from, to, h)

(* The oldest request is removed.                                          *)
IsPopped(r, ring, from, to) ==
  /\ ring[from % Num] \in Entries(ring, from, to)
  /\ Entries(r, Advance(from), to) = Entries(ring, from, to) \ {ring[from % Num]}
  /\ NoEntryTwice(r, Advance(from), to)

(* The entry the reader takes leaves the ring, and the others stay.        *)
RingsPop ==
  \A ring \in Ring, from, to \in Index :
    NoEntryTwice(ring, from, to) /\ from # to => IsPopped(Put(ring, from, None), ring, from, to)

(* A ring that a step does not touch keeps its entries.                    *)
LEMMA AvailKept ==
  ASSUME UNCHANGED <<avail, devIdx, availIdx>>, NoEntryTwice(avail, devIdx, availIdx)
  PROVE  Published' = Published /\ NoEntryTwice(avail, devIdx, availIdx)'
BY DEF Published, Entries, Entry, Count, NoEntryTwice

(* The same for the used ring.                                             *)
LEMMA UsedKept ==
  ASSUME UNCHANGED <<used, seen, usedIdx>>, NoEntryTwice(used, seen, usedIdx)
  PROVE  Reported' = Reported /\ NoEntryTwice(used, seen, usedIdx)'
BY DEF Reported, Entries, Entry, Count, NoEntryTwice

-----------------------------------------------------------------------------
(* Chains.                                                                 *)

(* The descriptors of a request.                                           *)
Members(p) == {head[p], link[head[p]], Third(head[p])}

Chains == \A p \in Waiting : ChainLeads(p)
Apart == \A p, q \in Waiting : p # q => Members(p) \cap Members(q) = {}
Covered == \A d \in Desc : d \in free \/ \E p \in Waiting : d \in Members(p)

(* The three descriptors of a request by name.                             *)
LEMMA ChainHas ==
  ASSUME NEW p, ChainLeads(p)
  PROVE  \E a, b, c : IsChain(p, a, b, c) /\ a = head[p] /\ Members(p) = {a, b, c}
<1> DEFINE a == head[p]
           b == link[head[p]]
           c == Third(head[p])
<1>1. IsChain(p, a, b, c)
  BY Zenon DEF ChainLeads
<1>2. Members(p) = {a, b, c}
  BY Zenon DEF Members
<1> HIDE DEF b, c
<1> QED BY <1>1, <1>2, Zenon

(* And back.                                                               *)
LEMMA ChainNamed ==
  ASSUME NEW p, NEW a, NEW b, NEW c, IsChain(p, a, b, c), a = head[p]
  PROVE  ChainLeads(p) /\ Members(p) = {a, b, c}
<1>1. link[head[p]] = b /\ Third(head[p]) = c
  BY Zenon DEF IsChain, Third
<1> QED BY <1>1, Zenon DEF ChainLeads, Members

(* A step that keeps the descriptors of a request keeps its chain.         *)
LEMMA ChainKept ==
  ASSUME NEW p, ChainLeads(p), head'[p] = head[p], kind'[p] = kind[p], blk'[p] = blk[p],
         \A d \in Members(p) : link'[d] = link[d] /\ addr'[d] = addr[d] /\ d \notin free'
  PROVE  ChainLeads(p)' /\ Members(p)' = Members(p)
<1>1. PICK a, b, c : IsChain(p, a, b, c) /\ a = head[p] /\ Members(p) = {a, b, c}
  BY ChainHas, Zenon
<1>2. IsChain(p, a, b, c)'
  BY <1>1, Zenon DEF IsChain
<1>3. head'[p] = a /\ link'[head'[p]] = b /\ Third(head[p])' = c
  BY <1>1, <1>2, Zenon DEF IsChain, Third
<1>4. ChainLeads(p)'
  BY <1>2, <1>3, Zenon DEF ChainLeads
<1>5. Members(p)' = {a, b, c}
  BY <1>3, Zenon DEF Members
<1> QED BY <1>1, <1>4, <1>5, Zenon

(* A step that only touches descriptors outside a chain keeps it.          *)
LEMMA ChainSpared ==
  ASSUME NEW p, ChainLeads(p), NEW S, Members(p) \cap S = {},
         head'[p] = head[p], kind'[p] = kind[p], blk'[p] = blk[p],
         \A d \in Desc \ S : link'[d] = link[d] /\ addr'[d] = addr[d] /\ (d \notin free => d \notin free')
  PROVE  ChainLeads(p)' /\ Members(p)' = Members(p)
<1>1. PICK a, b, c : IsChain(p, a, b, c) /\ a = head[p] /\ Members(p) = {a, b, c}
  BY ChainHas, Zenon
<1>2. \A d \in Members(p) : d \in Desc \ S /\ d \notin free
  BY <1>1, Zenon DEF IsChain
<1> QED BY <1>2, ChainKept, Zenon

(* Chain follows the links as far as the chain goes.                       *)
LEMMA ChainIs ==
  ASSUME NEW p \in Proc, ChainLeads(p)
  PROVE  Chain(head[p]) = Members(p)
<1>1. None \notin Desc
  BY ConstAssumption, Zenon DEF Desc
<1>2. PICK a, b, c : IsChain(p, a, b, c) /\ a = head[p] /\ Members(p) = {a, b, c}
  BY ChainHas, Zenon
<1>3. Follow({a}) = {a, b}
  BY <1>1, <1>2 DEF Follow, IsChain
<1>4. Follow({a, b}) = {a, b, c}
  BY <1>1, <1>2 DEF Follow, IsChain
<1> QED BY <1>2, <1>3, <1>4, Zenon DEF Chain

-----------------------------------------------------------------------------
(* The invariant without Cardinality, and the rings as sets.               *)

InFlight ==
  /\ inProgress = Published \cup taken \cup Reported
  /\ Published \cap taken = {} /\ Published \cap Reported = {} /\ taken \cap Reported = {}
  /\ \A h \in inProgress : \E p \in Waiting : head[p] = h

Plain == TypeOK /\ Chains /\ Apart /\ Covered /\ InFlight /\ RequestsTracked

(* The head of a request is a descriptor of its chain, in use.             *)
LEMMA HeadInChain ==
  ASSUME Chains, NEW p \in Waiting
  PROVE  head[p] \in Members(p) /\ head[p] \in Desc \ free
<1>1. PICK a, b, c : IsChain(p, a, b, c) /\ a = head[p] /\ Members(p) = {a, b, c}
  BY ChainHas, Zenon DEF Chains
<1> QED BY <1>1, Zenon DEF IsChain

(* The head of a request is in no other request's chain.                   *)
LEMMA HeadsApart ==
  ASSUME Chains, Apart, NEW p \in Waiting, NEW q \in Waiting, p # q
  PROVE  head[q] \notin Members(p) /\ head[q] # head[p]
<1>1. Members(p) \cap Members(q) = {}
  BY Zenon DEF Apart
<1> QED BY <1>1, HeadInChain, Zenon

(* A step that leaves the waiting requests and their descriptors alone     *)
(* leaves the chains alone.                                                *)
LEMMA ChainsFrame ==
  ASSUME Plain, UNCHANGED <<free, addr, link, head>>, Waiting' = Waiting,
         \A p \in Waiting : kind'[p] = kind[p] /\ blk'[p] = blk[p]
  PROVE  Chains' /\ Apart' /\ Covered'
<1>1. \A p \in Waiting : ChainLeads(p)' /\ Members(p)' = Members(p)
  <2> SUFFICES ASSUME NEW p \in Waiting
               PROVE  ChainLeads(p)' /\ Members(p)' = Members(p)
    BY Zenon
  <2>1. ChainLeads(p)
    BY Zenon DEF Plain, Chains
  <2>2. PICK a, b, c : IsChain(p, a, b, c) /\ a = head[p] /\ Members(p) = {a, b, c}
    BY <2>1, ChainHas, Zenon
  <2>3. \A d \in Members(p) : d \notin free
    BY <2>2, Zenon DEF IsChain
  <2> QED BY <2>1, <2>3, ChainKept, Zenon
<1> QED BY <1>1 DEF Plain, Chains, Apart, Covered

(* A step that moves no request keeps the rings.                           *)
LEMMA RingsFrame ==
  ASSUME Plain, UNCHANGED <<avail, devIdx, availIdx, used, seen, usedIdx, taken, inProgress, status, head>>,
         Waiting' = Waiting, \A p \in Proc : pc'[p] # "idle" => kind'[p] # "none"
  PROVE  InFlight' /\ RequestsTracked'
<1>1. RingsHoldOnce /\ StatusTells /\ InFlight
  BY Zenon DEF Plain, RequestsTracked
<1>2. Published' = Published /\ NoEntryTwice(avail, devIdx, availIdx)'
  BY <1>1, AvailKept, Zenon DEF RingsHoldOnce
<1>3. Reported' = Reported /\ NoEntryTwice(used, seen, usedIdx)'
  BY <1>1, UsedKept, Zenon DEF RingsHoldOnce
<1>4. InFlight'
  BY <1>1, <1>2, <1>3, Zenon DEF InFlight
<1>5. StatusTells'
  BY <1>1, <1>2, <1>3 DEF StatusTells
<1> QED BY <1>2, <1>3, <1>4, <1>5, Zenon DEF RequestsTracked, RingsHoldOnce, CallsHaveKind

(* Where the requests are, after each step that moves one: the device      *)
(* takes h, the device serves h, the interrupt handler completes h, p      *)
(* submits h, and p leaves.                                                *)
LEMMA TakeMoves ==
  ASSUME InFlight, StatusTells, NEW h \in Published,
         Published' = Published \ {h}, taken' = taken \cup {h}, Reported' = Reported,
         UNCHANGED <<inProgress, status, head>>, Waiting' = Waiting
  PROVE  InFlight' /\ StatusTells'
BY DEF InFlight, StatusTells

(* The device serves h and reports it.                                     *)
LEMMA ServeMoves ==
  ASSUME InFlight, StatusTells, NEW h \in taken, NEW x, x # 255,
         Published' = Published, taken' = taken \ {h}, Reported' = Reported \cup {h},
         UNCHANGED <<inProgress, head>>, Waiting' = Waiting,
         status'[h] = x, \A d \in Desc : d # h => status'[d] = status[d],
         inProgress \subseteq Desc, \A q \in Waiting : head[q] \in Desc
  PROVE  InFlight' /\ StatusTells'
<1>1. InFlight'
  BY DEF InFlight
<1>2. h \in inProgress /\ Published \cup taken \cup Reported \subseteq Desc
  BY Zenon DEF InFlight
<1> QED BY <1>1, <1>2 DEF InFlight, StatusTells

(* The interrupt handler completes h, whose status is 0.                   *)
LEMMA CompleteMoves ==
  ASSUME InFlight, StatusTells, NEW h \in Reported, status[h] = 0,
         Published' = Published, taken' = taken, Reported' = Reported \ {h}, inProgress' = inProgress \ {h},
         UNCHANGED <<status, head>>, Waiting' = Waiting
  PROVE  InFlight' /\ StatusTells'
BY DEF InFlight, StatusTells

(* A process submits a request, whose head was in no other's use.          *)
LEMMA SubmitMoves ==
  ASSUME InFlight, StatusTells, NEW p \in Proc, NEW h \in Desc, h \notin inProgress,
         Published' = Published \cup {h}, taken' = taken, Reported' = Reported,
         inProgress' = inProgress \cup {h}, inProgress \subseteq Desc, p \notin Waiting,
         Waiting' = Waiting \cup {p}, head'[p] = h,
         \A q \in Waiting : head'[q] = head[q] /\ head[q] \in Desc \ {h},
         status'[h] = 255, \A d \in Desc : d # h => status'[d] = status[d]
  PROVE  InFlight' /\ StatusTells'
<1>1. Published \cup taken \cup Reported \subseteq Desc \ {h}
  BY DEF InFlight
<1>2. InFlight'
  BY <1>1 DEF InFlight
<1>3. (\A g \in Published \cup taken : status[g] = 255)' /\ (\A g \in Reported : status[g] # 255)'
  BY <1>1 DEF StatusTells
<1>4. (\A q \in Waiting : head[q] \notin inProgress => status[head[q]] = 0)'
  BY DEF StatusTells
<1> QED BY <1>2, <1>3, <1>4, Zenon DEF StatusTells

(* A process leaves with its request done.                                 *)
LEMMA FinishMoves ==
  ASSUME InFlight, StatusTells, NEW p \in Waiting, head[p] \notin inProgress,
         Published' = Published, Reported' = Reported, UNCHANGED <<taken, inProgress, status>>,
         Waiting' = Waiting \ {p}, \A q \in Waiting \ {p} : head'[q] = head[q]
  PROVE  InFlight' /\ StatusTells'
BY DEF InFlight, StatusTells

-----------------------------------------------------------------------------
(* Steps that move no request.                                             *)

(* A call records its request.                                             *)
LEMMA CallStep ==
  ASSUME Plain, NEW p \in Proc, NEW k \in Kind, NEW b \in Block, NEW v \in Data, Call(p, k, b, v)
  PROVE  Plain'
<1>0. TypeOK /\ CallTypes /\ k \in {"read", "write"}
  BY ConstAssumption, Zenon DEF Plain, TypeOK
<1>1. TypeOK'
  <2>1. CallTypes'
    BY <1>0, Zenon DEF Call, CallTypes
  <2> QED BY <1>0, <2>1, Zenon DEF TypeOK, DescTypes, RingTypes, Call, queue, availRing, device, track
<1>2. Waiting' = Waiting /\ \A q \in Waiting : kind'[q] = kind[q] /\ blk'[q] = blk[q]
  BY <1>0, Zenon DEF Call, CallTypes, Waiting
<1>3. \A q \in Proc : pc'[q] # "idle" => kind'[q] # "none"
  BY <1>0, Zenon DEF Call, CallTypes, Plain, RequestsTracked, CallsHaveKind
<1>4. UNCHANGED <<free, addr, link, head, avail, devIdx, availIdx, used, seen, usedIdx, taken, inProgress, status>>
  BY Zenon DEF Call, queue, availRing, device, track
<1> QED BY <1>1, <1>2, <1>3, <1>4, ChainsFrame, RingsFrame, Zenon DEF Plain

(* A caller that finds fewer than three descriptors waits.                 *)
LEMMA AllocFailsStep ==
  ASSUME Plain, NEW p \in Proc, AllocFails(p)
  PROVE  Plain'
<1>0. TypeOK /\ CallTypes
  BY Zenon DEF Plain, TypeOK
<1>1. TypeOK'
  <2>1. CallTypes'
    BY <1>0, Zenon DEF AllocFails, CallTypes, request, WaitingForDesc
  <2> QED BY <1>0, <2>1, Zenon DEF TypeOK, DescTypes, RingTypes, AllocFails, queue, availRing, device, track
<1>2. Waiting' = Waiting
  BY <1>0, Zenon DEF AllocFails, Allocates, CallTypes, Waiting
<1>3. \A q \in Proc : pc'[q] # "idle" => kind'[q] # "none"
  BY <1>0, Zenon DEF AllocFails, Allocates, CallTypes, request, Plain, RequestsTracked, CallsHaveKind
<1>4. UNCHANGED <<kind, blk, free, addr, link, head, avail, devIdx, availIdx, used, seen, usedIdx, taken,
                  inProgress, status>>
  BY Zenon DEF AllocFails, queue, availRing, device, track, request
<1> QED BY <1>1, <1>2, <1>3, <1>4, ChainsFrame, RingsFrame, Zenon DEF Plain

(* The interrupt handler's steps that read no entry.                       *)
LEMMA IsrQuietStep ==
  ASSUME Plain, IsrBegin \/ IsrPanics \/ IsrEnd
  PROVE  Plain'
<1>1. UNCHANGED <<disk, kind, blk, buf, pc, notified, free, addr, link, head, avail, devIdx, availIdx, used, seen,
                  usedIdx, taken, inProgress, status>>
  BY Zenon DEF IsrBegin, IsrPanics, IsrEnd, queue, availRing, device, track, request
<1>2. TypeOK'
  <2>1. {irq, isr, halted}' \subseteq BOOLEAN
    BY Zenon DEF Plain, TypeOK, IsrBegin, IsrPanics, IsrEnd
  <2> QED BY <1>1, <2>1, Zenon DEF Plain, TypeOK, CallTypes, DescTypes, RingTypes
<1>3. Waiting' = Waiting
  BY <1>1, Zenon DEF Waiting
<1>4. \A q \in Proc : pc'[q] # "idle" => kind'[q] # "none"
  BY <1>1, Zenon DEF Plain, RequestsTracked, CallsHaveKind
<1> QED BY <1>1, <1>2, <1>3, <1>4, ChainsFrame, RingsFrame, Zenon DEF Plain

-----------------------------------------------------------------------------
(* Requests move from the available ring to the device, to the used ring.  *)

(* The device takes the next request.                                      *)
LEMMA DeviceTakeStep ==
  ASSUME RingsPop, Plain, DeviceTake
  PROVE  Plain'
<1> DEFINE h == avail[devIdx % Num]
<1>1. /\ avail' = Put(avail, devIdx, None) /\ devIdx' = Advance(devIdx) /\ taken' = taken \cup {h}
      /\ UNCHANGED <<disk, kind, blk, buf, pc, head, notified, free, addr, link, availIdx, used, usedIdx, seen,
                     status, inProgress, irq, isr, halted>>
  BY Zenon DEF DeviceTake, Put, queue, track, request
<1>2. /\ h \in Published
      /\ Published' = Published \ {h}
      /\ NoEntryTwice(avail, devIdx, availIdx)'
  <2>1. avail \in Ring /\ devIdx \in Index /\ availIdx \in Index
    BY RingsTyped, Zenon DEF Plain
  <2>2. NoEntryTwice(avail, devIdx, availIdx) /\ devIdx # availIdx
    BY Zenon DEF Plain, RequestsTracked, RingsHoldOnce, DeviceTake
  <2>3. IsPopped(avail', avail, devIdx, availIdx)
    BY <1>1, <2>1, <2>2, Zenon DEF RingsPop
  <2> QED BY <1>1, <2>3, Zenon DEF IsPopped, Published
<1> HIDE DEF h
<1>3. Reported' = Reported /\ NoEntryTwice(used, seen, usedIdx)'
  BY <1>1, UsedKept, Zenon DEF Plain, RequestsTracked, RingsHoldOnce
<1>4. Waiting' = Waiting
  BY <1>1, Zenon DEF Waiting
<1>5. TypeOK'
  <2>1. CallTypes' /\ DescTypes'
    BY <1>1, <1>2 DEF Plain, TypeOK, CallTypes, DescTypes, InFlight
  <2>2. Advance(devIdx) \in 0..IdxMod-1 /\ devIdx % Num \in Desc
    BY IndexStep, Zenon DEF Plain, TypeOK, RingTypes
  <2>3. RingTypes'
    BY <1>1, <2>2, Zenon DEF Plain, TypeOK, RingTypes, Put
  <2> QED BY <1>1, <2>1, <2>3, Zenon DEF Plain, TypeOK
<1>6. Chains' /\ Apart' /\ Covered'
  BY <1>1, <1>4, ChainsFrame, Zenon
<1>7. InFlight' /\ StatusTells'
  BY <1>1, <1>2, <1>3, <1>4, TakeMoves, Zenon DEF Plain, RequestsTracked
<1>8. RequestsTracked'
  BY <1>1, <1>2, <1>3, <1>7, Zenon DEF Plain, RequestsTracked, RingsHoldOnce, CallsHaveKind
<1> QED BY <1>5, <1>6, <1>7, <1>8, Zenon DEF Plain

(* handle_interrupt completes the next request.                            *)
LEMMA IsrEntryStep ==
  ASSUME RingsPop, Plain, IsrEntry
  PROVE  Plain'
<1> DEFINE h == used[seen % Num]
<1>1. /\ used' = Put(used, seen, None) /\ seen' = Advance(seen) /\ inProgress' = inProgress \ {h}
      /\ status[h] = 0 /\ notified' \subseteq notified \cup Proc
      /\ UNCHANGED <<disk, kind, blk, buf, pc, head, free, addr, link, avail, availIdx, devIdx, taken, usedIdx,
                     status, irq, isr, halted>>
  BY Zenon DEF IsrEntry, UsedId, Put, queue, availRing, request
<1>2. /\ h \in Reported
      /\ Reported' = Reported \ {h}
      /\ NoEntryTwice(used, seen, usedIdx)'
  <2>1. used \in Ring /\ seen \in Index /\ usedIdx \in Index
    BY RingsTyped, Zenon DEF Plain
  <2>2. NoEntryTwice(used, seen, usedIdx) /\ seen # usedIdx
    BY Zenon DEF Plain, RequestsTracked, RingsHoldOnce, IsrEntry
  <2>3. IsPopped(used', used, seen, usedIdx)
    BY <1>1, <2>1, <2>2, Zenon DEF RingsPop
  <2> QED BY <1>1, <2>3, Zenon DEF IsPopped, Reported
<1> HIDE DEF h
<1>3. Published' = Published /\ NoEntryTwice(avail, devIdx, availIdx)'
  BY <1>1, AvailKept, Zenon DEF Plain, RequestsTracked, RingsHoldOnce
<1>4. Waiting' = Waiting
  BY <1>1, Zenon DEF Waiting
<1>5. TypeOK'
  <2>1. CallTypes' /\ DescTypes'
    BY <1>1, Zenon DEF Plain, TypeOK, CallTypes, DescTypes
  <2>2. Advance(seen) \in 0..IdxMod-1 /\ seen % Num \in Desc
    BY IndexStep, Zenon DEF Plain, TypeOK, RingTypes
  <2>3. RingTypes'
    BY <1>1, <2>2, Zenon DEF Plain, TypeOK, RingTypes, Put
  <2> QED BY <1>1, <2>1, <2>3, Zenon DEF Plain, TypeOK
<1>6. Chains' /\ Apart' /\ Covered'
  BY <1>1, <1>4, ChainsFrame, Zenon
<1>7. InFlight' /\ StatusTells'
  BY <1>1, <1>2, <1>3, <1>4, CompleteMoves, Zenon DEF Plain, RequestsTracked
<1>8. RequestsTracked'
  BY <1>1, <1>2, <1>3, <1>7, Zenon DEF Plain, RequestsTracked, RingsHoldOnce, CallsHaveKind
<1> QED BY <1>5, <1>6, <1>7, <1>8, Zenon DEF Plain

(* The memory a taken request leads to is its caller's.                    *)
LEMMA Serves ==
  ASSUME Plain, NEW h \in taken
  PROVE  \E p \in Waiting :
           /\ head[p] = h /\ ChainLeads(p) /\ kind[p] \in {"read", "write"}
           /\ addr[h][2] = kind[p] /\ addr[h][3] = blk[p]
           /\ addr[link[h]][2] = p /\ addr[link[link[h]]][2] = h
<1>1. PICK p \in Waiting : head[p] = h
  BY Zenon DEF Plain, InFlight
<1>2. ChainLeads(p)
  BY Zenon DEF Plain, Chains
<1>3. PICK a, b, c : IsChain(p, a, b, c) /\ a = head[p] /\ Members(p) = {a, b, c}
  BY <1>2, ChainHas, Zenon
<1>4. kind[p] \in {"read", "write"}
  BY Zenon DEF Plain, TypeOK, CallTypes, RequestsTracked, CallsHaveKind, Waiting
<1>5. link[h] = b /\ link[link[h]] = c
  BY <1>1, <1>3, Zenon DEF IsChain
<1>6. addr[h][2] = kind[p] /\ addr[h][3] = blk[p] /\ addr[b][2] = p /\ addr[c][2] = h
  BY <1>1, <1>3 DEF IsChain
<1> QED BY <1>1, <1>2, <1>4, <1>5, <1>6, Zenon

(* The device serves a request it has taken.                               *)
LEMMA DeviceServeStep ==
  ASSUME RingsPush, Plain, NEW h \in Desc, NEW ok \in BOOLEAN, DeviceServe(h, ok)
  PROVE  Plain'
<1>1. h \in taken
  BY Zenon DEF DeviceServe
<1>2. PICK p \in Waiting :
           /\ head[p] = h /\ ChainLeads(p) /\ kind[p] \in {"read", "write"}
           /\ addr[h][2] = kind[p] /\ addr[h][3] = blk[p]
           /\ addr[link[h]][2] = p /\ addr[link[link[h]]][2] = h
  BY <1>1, Serves, Zenon
<1>3. /\ status' = [status EXCEPT ![h] = IF ok THEN 0 ELSE 1]
      /\ taken' = taken \ {h} /\ used' = Put(used, usedIdx, h) /\ usedIdx' = Advance(usedIdx)
      /\ UNCHANGED <<kind, blk, free, addr, link, avail, availIdx, devIdx, seen, inProgress, isr, pc, head,
                     notified, halted>>
  BY <1>2, Zenon DEF DeviceServe, Put, queue, availRing
<1>4. /\ disk' = IF ok /\ kind[p] = "write" THEN [disk EXCEPT ![blk[p]] = buf[p]] ELSE disk
      /\ buf' = IF ok /\ kind[p] = "read" THEN [buf EXCEPT ![p] = disk[blk[p]]] ELSE buf
      /\ irq' = TRUE
  BY <1>2, Zenon DEF DeviceServe
<1>5. Waiting' = Waiting
  BY <1>3, Zenon DEF Waiting
<1>6. /\ Reported' = Reported \cup {h}
      /\ NoEntryTwice(used, seen, usedIdx)'
  <2>1. PICK a, b, c : IsChain(p, a, b, c) /\ a = h /\ Members(p) = {a, b, c}
    BY <1>2, ChainHas
  <2>2. ASSUME NEW g \in Reported PROVE g \in Desc \ {h, b, c}
    <3>1. PICK q \in Waiting : head[q] = g
      BY Zenon DEF Plain, InFlight
    <3>2. g # h /\ g \in Desc
      BY <1>1, Zenon DEF Plain, InFlight, TypeOK, DescTypes
    <3>3. p # q
      BY <1>2, <3>1, <3>2, Zenon
    <3>4. g \notin Members(p)
      BY <3>1, <3>3, HeadsApart, Zenon DEF Plain
    <3> QED BY <2>1, <3>2, <3>4, Zenon
  <2>3. LeavesOut(Entries(used, seen, usedIdx), h)
    BY <2>1, <2>2, Zenon DEF Reported, LeavesOut, IsChain
  <2>4. NoEntryTwice(used, seen, usedIdx)
    BY Zenon DEF Plain, RequestsTracked, RingsHoldOnce
  <2>5. used \in Ring /\ usedIdx \in Index /\ seen \in Index
    BY RingsTyped, Zenon DEF Plain
  <2>6. IsPushed(used', used, seen, usedIdx, h)
    BY <1>3, <2>3, <2>4, <2>5, Zenon DEF RingsPush
  <2> QED BY <1>3, <2>6, Zenon DEF IsPushed, Reported
<1>7. Published' = Published /\ NoEntryTwice(avail, devIdx, availIdx)'
  BY <1>3, AvailKept, Zenon DEF Plain, RequestsTracked, RingsHoldOnce
<1>8. TypeOK'
  <2>1. CallTypes' /\ disk' \in [Block -> Data]
    BY <1>3, <1>4, Zenon DEF Plain, TypeOK, CallTypes, Waiting
  <2>2. DescTypes'
    BY <1>3, Zenon DEF Plain, TypeOK, DescTypes
  <2>3. Advance(usedIdx) \in 0..IdxMod-1 /\ usedIdx % Num \in Desc
    BY IndexStep, Zenon DEF Plain, TypeOK, RingTypes
  <2>4. RingTypes'
    BY <1>3, <2>3, Zenon DEF Plain, TypeOK, RingTypes, Put
  <2> QED BY <1>3, <1>4, <2>1, <2>2, <2>4, Zenon DEF Plain, TypeOK
<1>9. Chains' /\ Apart' /\ Covered'
  BY <1>3, <1>5, ChainsFrame, Zenon
<1>10. InFlight' /\ StatusTells'
  <2>1. status'[h] = (IF ok THEN 0 ELSE 1) /\ \A d \in Desc : d # h => status'[d] = status[d]
    BY <1>3 DEF Plain, TypeOK, DescTypes
  <2>2. inProgress \subseteq Desc /\ InFlight /\ StatusTells
    BY Zenon DEF Plain, TypeOK, DescTypes, RequestsTracked
  <2>3. \A q \in Waiting : head[q] \in Desc
    BY HeadInChain, Zenon DEF Plain
  <2>4. UNCHANGED <<inProgress, head>> /\ taken' = taken \ {h}
    BY <1>3, Zenon
  <2> QED BY <1>1, <1>5, <1>6, <1>7, <2>1, <2>2, <2>3, <2>4, ServeMoves
<1>11. RequestsTracked'
  BY <1>3, <1>6, <1>7, <1>10, Zenon DEF Plain, RequestsTracked, RingsHoldOnce, CallsHaveKind
<1> QED BY <1>8, <1>9, <1>10, <1>11, Zenon DEF Plain

-----------------------------------------------------------------------------
(* Submitting and finishing a request.                                     *)

(* What send_request writes: the chain, the ring and the caller's state.   *)
SubmitsChain(p, a, b, c) ==
  /\ free' = free \ {a, b, c}
  /\ addr' = [addr EXCEPT ![a] = <<"op", kind[p], blk[p]>>, ![b] = <<"buf", p>>,
                         ![c] = <<"status", a>>]
  /\ link' = [link EXCEPT ![a] = b, ![b] = c, ![c] = None]
  /\ status' = [status EXCEPT ![a] = 255]
  /\ inProgress' = inProgress \cup {a} /\ taken' = taken
SubmitsRing(a) ==
  /\ avail' = Put(avail, availIdx, a)
  /\ availIdx' = Advance(availIdx)
  /\ UNCHANGED <<devIdx, used, usedIdx, seen>>
SubmitsCall(p, a) ==
  /\ head' = [head EXCEPT ![p] = a]
  /\ pc' = [pc EXCEPT ![p] = "wait"]
  /\ notified' = notified \ {p}
  /\ UNCHANGED <<kind, blk, buf, disk, irq, isr, halted>>
Submits(p, a, b, c) == SubmitsChain(p, a, b, c) /\ SubmitsRing(a) /\ SubmitsCall(p, a)

(* alloc3_desc returns three different free descriptors.                   *)
SubmitTakesThree ==
  \A p \in Proc : Submit(p) =>
    \E a, b, c \in free : a # b /\ a # c /\ b # c /\ Submits(p, a, b, c)

(* The new request has a chain, and the others keep theirs.                *)
LEMMA SubmitChains ==
  ASSUME Plain, NEW p \in Proc, pc[p] \in {"start", "wait_desc"},
         NEW a \in free, NEW b \in free, NEW c \in free, a # b, a # c, b # c, Submits(p, a, b, c)
  PROVE  /\ Waiting' = Waiting \cup {p} /\ p \notin Waiting
         /\ head'[p] = a /\ Members(p)' = {a, b, c}
         /\ \A q \in Waiting : head'[q] = head[q] /\ Members(q)' = Members(q) /\ head[q] \in Members(q)
         /\ \A q \in Waiting : Members(q) \subseteq Desc \ {a, b, c}
         /\ Chains' /\ Apart' /\ Covered'
<1>1. SubmitsChain(p, a, b, c) /\ SubmitsCall(p, a)
  BY Zenon DEF Submits
<1>2. DescTypes /\ CallTypes /\ {a, b, c} \subseteq Desc
  BY DEF Plain, TypeOK, DescTypes
<1>3. /\ Waiting' = Waiting \cup {p} /\ p \notin Waiting /\ head'[p] = a
      /\ \A q \in Waiting : head'[q] = head[q]
  BY <1>1, <1>2, Zenon DEF SubmitsCall, CallTypes, Waiting
<1>4. /\ link'[a] = b /\ link'[b] = c /\ link'[c] = None
      /\ \A d \in Desc \ {a, b, c} : link'[d] = link[d]
  BY <1>1, <1>2 DEF SubmitsChain, DescTypes
<1>5. /\ addr'[a] = <<"op", kind[p], blk[p]>> /\ addr'[b] = <<"buf", p>> /\ addr'[c] = <<"status", a>>
      /\ \A d \in Desc \ {a, b, c} : addr'[d] = addr[d]
  BY <1>1, <1>2 DEF SubmitsChain, DescTypes
<1>6. free' = free \ {a, b, c} /\ kind' = kind /\ blk' = blk
  BY <1>1, Zenon DEF SubmitsChain, SubmitsCall
<1>7. ChainLeads(p)' /\ Members(p)' = {a, b, c}
  <2>1. IsChain(p, a, b, c)'
    BY <1>2, <1>4, <1>5, <1>6, Zenon DEF IsChain
  <2>2. link'[head'[p]] = b /\ Third(head[p])' = c
    BY <1>3, <1>4, Zenon DEF Third
  <2> QED BY <1>3, <2>1, <2>2, Zenon DEF ChainLeads, Members
<1>8. ASSUME NEW q \in Waiting
      PROVE  /\ ChainLeads(q)' /\ Members(q)' = Members(q) /\ head[q] \in Members(q)
             /\ Members(q) \subseteq Desc \ {a, b, c}
  <2>1. ChainLeads(q) /\ head[q] \in Members(q)
    BY HeadInChain, Zenon DEF Plain, Chains
  <2>2. PICK x, y, z : IsChain(q, x, y, z) /\ Members(q) = {x, y, z}
    BY <2>1, ChainHas, Zenon
  <2>3. Members(q) \subseteq Desc \ {a, b, c}
    BY <2>2, Zenon DEF IsChain
  <2>4. Members(q) \cap {a, b, c} = {}
    BY <2>3, Zenon
  <2>5. head'[q] = head[q] /\ kind'[q] = kind[q] /\ blk'[q] = blk[q]
    BY <1>3, <1>6, Zenon
  <2>6. \A d \in Desc \ {a, b, c} :
          link'[d] = link[d] /\ addr'[d] = addr[d] /\ (d \notin free => d \notin free')
    BY <1>4, <1>5, <1>6, Zenon
  <2>7. ChainLeads(q)' /\ Members(q)' = Members(q)
    BY <2>1, <2>4, <2>5, <2>6, ChainSpared, Zenon
  <2> QED BY <2>1, <2>3, <2>7, Zenon
<1>9. Chains'
  BY <1>3, <1>7, <1>8, Zenon DEF Chains
<1>a. Apart /\ Covered
  BY Zenon DEF Plain
<1>10. Apart'
  BY <1>a, <1>3, <1>7, <1>8 DEF Apart
<1>11. Covered'
  BY <1>a, <1>3, <1>6, <1>7, <1>8 DEF Covered
<1> QED BY <1>3, <1>7, <1>8, <1>9, <1>10, <1>11, Zenon

(* alloc3_desc and send_request.                                           *)
LEMMA SubmitStep ==
  ASSUME RingsPush, SubmitTakesThree, Plain, NEW p \in Proc, Submit(p)
  PROVE  Plain'
<1>1. PICK a \in free, b \in free, c \in free : a # b /\ a # c /\ b # c /\ Submits(p, a, b, c)
  BY Zenon DEF SubmitTakesThree
<1>2. pc[p] \in {"start", "wait_desc"}
  BY Zenon DEF Submit, Allocates
<1>3. /\ Waiting' = Waiting \cup {p} /\ p \notin Waiting
      /\ head'[p] = a /\ Members(p)' = {a, b, c}
      /\ \A q \in Waiting : head'[q] = head[q] /\ Members(q)' = Members(q) /\ head[q] \in Members(q)
      /\ \A q \in Waiting : Members(q) \subseteq Desc \ {a, b, c}
      /\ Chains' /\ Apart' /\ Covered'
  BY <1>1, <1>2, SubmitChains, Zenon
<1>4. SubmitsChain(p, a, b, c) /\ SubmitsRing(a) /\ SubmitsCall(p, a)
  BY <1>1, Zenon DEF Submits
<1>5. {a, b, c} \subseteq Desc /\ CallTypes /\ DescTypes /\ RingTypes
  BY DEF Plain, TypeOK, DescTypes
<1>6. inProgress \subseteq Desc \ {a, b, c}
  BY <1>3 DEF Plain, InFlight
<1>7. /\ Published' = Published \cup {a}
      /\ NoEntryTwice(avail, devIdx, availIdx)'
  <2>1. LeavesOut(Entries(avail, devIdx, availIdx), a)
    BY <1>1, <1>5, <1>6, Zenon DEF LeavesOut, Published, Plain, InFlight
  <2>2. avail \in Ring /\ devIdx \in Index /\ availIdx \in Index /\ NoEntryTwice(avail, devIdx, availIdx)
    BY RingsTyped, Zenon DEF Plain, RequestsTracked, RingsHoldOnce
  <2>3. avail' = Put(avail, availIdx, a) /\ availIdx' = Advance(availIdx) /\ devIdx' = devIdx
    BY <1>4, Zenon DEF SubmitsRing
  <2>4. IsPushed(avail', avail, devIdx, availIdx, a)
    BY <1>5, <2>1, <2>2, <2>3, Zenon DEF RingsPush
  <2> QED BY <2>3, <2>4, Zenon DEF IsPushed, Published
<1>8. Reported' = Reported /\ NoEntryTwice(used, seen, usedIdx)'
  BY <1>4, UsedKept, Zenon DEF SubmitsRing, Plain, RequestsTracked, RingsHoldOnce
<1>9. inProgress' = inProgress \cup {a} /\ taken' = taken
  BY <1>4, Zenon DEF SubmitsChain
<1>10. InFlight' /\ StatusTells'
  <2>1. InFlight /\ StatusTells
    BY Zenon DEF Plain, RequestsTracked
  <2>2. status'[a] = 255 /\ \A d \in Desc : d # a => status'[d] = status[d]
    BY <1>4, <1>5 DEF SubmitsChain, DescTypes
  <2>3. /\ Waiting' = Waiting \cup {p} /\ p \notin Waiting /\ head'[p] = a
        /\ \A q \in Waiting : head'[q] = head[q] /\ head[q] \in Desc \ {a}
    BY <1>3, Zenon
  <2>4. a \in Desc /\ a \notin inProgress /\ inProgress \subseteq Desc
    BY <1>5, <1>6, Zenon
  <2> QED BY <2>1, <2>2, <2>3, <2>4, <1>7, <1>8, <1>9, SubmitMoves
<1>11. RequestsTracked'
  <2>1. CallsHaveKind'
    BY <1>2, <1>4, <1>5, Zenon DEF SubmitsCall, CallTypes, Plain, RequestsTracked, CallsHaveKind
  <2> QED BY <1>7, <1>8, <1>10, <2>1, Zenon DEF RequestsTracked, RingsHoldOnce
<1>12. TypeOK'
  <2>1. CallTypes'
    BY <1>4, <1>5, Zenon DEF SubmitsCall, CallTypes
  <2>2. kind[p] \in {"read", "write"} /\ blk[p] \in Block
    BY <1>2, <1>5, Zenon DEF CallTypes, Plain, RequestsTracked, CallsHaveKind
  <2>3. {<<"op", kind[p], blk[p]>>, <<"buf", p>>, <<"status", a>>} \subseteq Addr
    BY <1>5, <2>2 DEF Addr
  <2>4. addr' \in [Desc -> Addr]
    BY <1>4, <1>5, <2>3, Zenon DEF SubmitsChain, DescTypes
  <2>5. DescTypes'
    BY <1>4, <1>5, <2>4 DEF SubmitsChain, DescTypes
  <2>6. Advance(availIdx) \in 0..IdxMod-1 /\ availIdx % Num \in Desc
    BY <1>5, IndexStep, Zenon DEF RingTypes
  <2>7. RingTypes'
    BY <1>4, <1>5, <2>6, Zenon DEF SubmitsRing, RingTypes, Put
  <2> QED BY <1>4, <2>1, <2>5, <2>7, Zenon DEF SubmitsCall, Plain, TypeOK
<1> QED BY <1>3, <1>10, <1>11, <1>12, Zenon DEF Plain

(* free_chain: the request of p gives its descriptors back.                *)
FinishesChain(C) ==
  /\ free' = free \cup C
  /\ addr' = [d \in Desc |-> IF d \in C THEN <<"none">> ELSE addr[d]]
  /\ link' = [d \in Desc |-> IF d \in C THEN None ELSE link[d]]
FinishesCall(p) ==
  /\ pc' = [pc EXCEPT ![p] = "idle"]
  /\ head' = [head EXCEPT ![p] = None]
  /\ kind' = [kind EXCEPT ![p] = "none"]
  /\ notified' = (notified \cup WaitingForDesc) \ {p}
  /\ UNCHANGED <<blk, buf, disk, irq, isr, halted>>

(* The completed request leaves with its descriptors.                      *)
LEMMA FinishStep ==
  ASSUME Plain, NEW p \in Proc, Finish(p)
  PROVE  Plain'
<1> DEFINE C == Members(p)
<1>1. p \in Waiting /\ ChainLeads(p) /\ head[p] \notin inProgress
  BY Zenon DEF Finish, Waiting, Plain, Chains
<1>2. FinishesChain(C) /\ FinishesCall(p)
  BY <1>1, ChainIs, Zenon DEF Finish, FinishesChain, FinishesCall, device, track
<1>3. UNCHANGED <<avail, availIdx, devIdx, taken, used, usedIdx, seen, status, inProgress>>
  BY Zenon DEF Finish, availRing, device, track
<1>4. C \subseteq Desc
  BY <1>1, ChainHas DEF IsChain
<1> HIDE DEF C
<1>5. CallTypes /\ DescTypes
  BY Zenon DEF Plain, TypeOK
<1>6. /\ Waiting' = Waiting \ {p}
      /\ \A q \in Waiting \ {p} : head'[q] = head[q] /\ kind'[q] = kind[q] /\ blk'[q] = blk[q]
  BY <1>2, <1>5, Zenon DEF FinishesCall, CallTypes, Waiting
<1>7. ASSUME NEW q \in Waiting \ {p}
      PROVE  ChainLeads(q)' /\ Members(q)' = Members(q)
  <2>1. ChainLeads(q)
    BY Zenon DEF Plain, Chains
  <2>2. Members(q) \cap C = {}
    BY <1>1, Zenon DEF Plain, Apart, C
  <2>3. \A d \in Desc \ C : link'[d] = link[d] /\ addr'[d] = addr[d] /\ (d \notin free => d \notin free')
    BY <1>2, Zenon DEF FinishesChain
  <2> QED BY <2>1, <2>2, <2>3, <1>6, ChainSpared, Zenon
<1>8. Chains' /\ Apart'
  BY <1>6, <1>7, Zenon DEF Plain, Chains, Apart
<1>9. Covered'
  <2>1. \A e \in Desc : e \in free \/ e \in C \/ \E q \in Waiting \ {p} : e \in Members(q)
    BY Zenon DEF Plain, Covered, C
  <2>2. free' = free \cup C
    BY <1>2, Zenon DEF FinishesChain
  <2> QED BY <2>1, <2>2, <1>6, <1>7, Zenon DEF Covered
<1>10. Published' = Published /\ NoEntryTwice(avail, devIdx, availIdx)'
  BY <1>3, AvailKept, Zenon DEF Plain, RequestsTracked, RingsHoldOnce
<1>11. Reported' = Reported /\ NoEntryTwice(used, seen, usedIdx)'
  BY <1>3, UsedKept, Zenon DEF Plain, RequestsTracked, RingsHoldOnce
<1>12. InFlight' /\ StatusTells'
  <2>1. InFlight /\ StatusTells
    BY Zenon DEF Plain, RequestsTracked
  <2> QED BY <2>1, <1>1, <1>3, <1>6, <1>10, <1>11, FinishMoves, Zenon
<1>13. RequestsTracked'
  <2>1. CallsHaveKind'
    BY <1>2, <1>5, Zenon DEF FinishesCall, CallTypes, Plain, RequestsTracked, CallsHaveKind
  <2> QED BY <2>1, <1>10, <1>11, <1>12, Zenon DEF RequestsTracked, RingsHoldOnce
<1>14. TypeOK'
  <2>1. CallTypes'
    BY <1>2, <1>5, Zenon DEF FinishesCall, CallTypes, WaitingForDesc
  <2>2. DescTypes'
    BY <1>2, <1>3, <1>4, <1>5 DEF FinishesChain, DescTypes, Addr
  <2>3. RingTypes'
    BY <1>3, Zenon DEF Plain, TypeOK, RingTypes
  <2> QED BY <1>2, <2>1, <2>2, <2>3, Zenon DEF FinishesCall, Plain, TypeOK
<1> QED BY <1>8, <1>9, <1>12, <1>13, <1>14, Zenon DEF Plain

-----------------------------------------------------------------------------
(* The driver implements the block device.                                 *)

(* Nobody has called yet.                                                  *)
LEMMA InitRefines == Init => B!Init
<1> SUFFICES ASSUME Init PROVE B!Init
  BY Zenon
<1>1. [p \in Proc |-> Phase(p)] = [p \in Proc |-> "idle"]
  BY Zenon DEF Init, Phase
<1>2. (CHOOSE b \in Block : TRUE) \in Block
  BY ConstAssumption, Zenon
<1> QED BY <1>1, <1>2, ConstAssumption, Zenon DEF Init, B!Init

(* The phases are unchanged when no process and no status byte of a        *)
(* waiting request changes.                                                *)
LEMMA PhasesFrame ==
  ASSUME TypeOK, UNCHANGED <<kind, blk, buf, disk>>,
         \A p \in Proc : Phase(p)' = Phase(p)
  PROVE  UNCHANGED B!vars
BY Zenon DEF B!vars

(* A function that differs from f at p alone is f updated at p.            *)
LEMMA Differs ==
  ASSUME NEW S, NEW p \in S, NEW x, NEW f, NEW g, f = [q \in S |-> f[q]], g = [q \in S |-> g[q]],
         g[p] = x, \A q \in S : q # p => g[q] = f[q]
  PROVE  g = [f EXCEPT ![p] = x]
BY Zenon

(* A step of one process changes its phase alone.                          *)
LEMMA PhaseChanges ==
  ASSUME NEW p \in Proc, NEW x, Phase(p)' = x, \A q \in Proc : q # p => Phase(q)' = Phase(q)
  PROVE  [q \in Proc |-> Phase(q)]' = [[q \in Proc |-> Phase(q)] EXCEPT ![p] = x]
<1> DEFINE f == [q \in Proc |-> Phase(q)]
<1>1. f = [q \in Proc |-> f[q]] /\ f' = [q \in Proc |-> f'[q]]
  BY Zenon
<1>2. f'[p] = x /\ \A q \in Proc : q # p => f'[q] = f[q]
  BY Zenon
<1> HIDE DEF f
<1>3. f' = [f EXCEPT ![p] = x]
  BY <1>1, <1>2, Differs, Zenon
<1> QED BY <1>3, Zenon DEF f

(* A request that waits is served: its phase alone changes.                *)
LEMMA PhaseServed ==
  ASSUME DescTypes, NEW p \in Waiting, NEW h \in Desc, head[p] = h, status[h] = 255, NEW x,
         status' = [status EXCEPT ![h] = x], UNCHANGED <<pc, head>>,
         \A q \in Waiting : q # p => head[q] \in Desc \ {h}
  PROVE  /\ Phase(p) = "pending" /\ Phase(p)' = IF x = 0 THEN "served" ELSE "pending"
         /\ \A q \in Proc : q # p => Phase(q)' = Phase(q)
<1>1. /\ status'[h] = x /\ \A d \in Desc \ {h} : status'[d] = status[d]
  BY DEF DescTypes
<1>2. Phase(p) = "pending" /\ Phase(p)' = IF x = 0 THEN "served" ELSE "pending"
  BY <1>1 DEF Phase, Waiting
<1>3. ASSUME NEW q \in Proc, q # p PROVE Phase(q)' = Phase(q)
  BY <1>1, <1>3 DEF Phase, Waiting
<1> QED BY <1>2, <1>3, Zenon

(* The device serves one waiting request, or fails it.                     *)
LEMMA ServeRefines ==
  ASSUME Plain, NEW h \in Desc, NEW ok \in BOOLEAN, DeviceServe(h, ok)
  PROVE  [B!Next]_(B!vars)
<1> DEFINE phase == [p \in Proc |-> Phase(p)]
           x == IF ok THEN 0 ELSE 1
<1>1. h \in taken
  BY Zenon DEF DeviceServe
<1>2. PICK p \in Waiting :
         /\ head[p] = h /\ ChainLeads(p) /\ kind[p] \in {"read", "write"}
         /\ addr[h][2] = kind[p] /\ addr[h][3] = blk[p]
         /\ addr[link[h]][2] = p /\ addr[link[link[h]]][2] = h
  BY <1>1, Serves, Zenon
<1>3. /\ status' = [status EXCEPT ![h] = x]
      /\ disk' = IF ok /\ kind[p] = "write" THEN [disk EXCEPT ![blk[p]] = buf[p]] ELSE disk
      /\ buf' = IF ok /\ kind[p] = "read" THEN [buf EXCEPT ![p] = disk[blk[p]]] ELSE buf
      /\ UNCHANGED <<kind, blk, pc, head>>
  BY <1>2, Zenon DEF DeviceServe
<1>4. status[h] = 255 /\ DescTypes /\ p \in Proc
  BY <1>1, Zenon DEF Plain, TypeOK, RequestsTracked, StatusTells, Waiting
<1>5. \A q \in Waiting : q # p => head[q] \in Desc \ {h}
  BY <1>2, HeadInChain, HeadsApart, Zenon DEF Plain
<1> HIDE DEF x
<1>6. /\ Phase(p) = "pending" /\ Phase(p)' = IF x = 0 THEN "served" ELSE "pending"
      /\ \A q \in Proc : q # p => Phase(q)' = Phase(q)
  BY <1>2, <1>3, <1>4, <1>5, PhaseServed, ZenonT(40)
<1>7. CASE ok
  <2>1. phase' = [phase EXCEPT ![p] = "served"] /\ phase[p] = "pending"
    BY <1>4, <1>6, <1>7, PhaseChanges, Zenon DEF x
  <2>2. B!Serve(p)
    BY <1>2, <1>3, <1>7, <2>1, Zenon DEF B!Serve
  <2> QED BY <1>4, <2>2, Zenon DEF B!Next
<1>8. CASE ~ ok
  <2>1. \A q \in Proc : Phase(q)' = Phase(q)
    BY <1>6, <1>8 DEF x
  <2>2. UNCHANGED <<kind, blk, buf, disk>> /\ TypeOK
    BY <1>3, <1>8, Zenon DEF Plain
  <2> QED BY <2>1, <2>2, PhasesFrame, Zenon
<1> QED BY <1>7, <1>8, Zenon

(* The step of the block device that each step of the driver is: the       *)
(* request is served when the device writes its status byte.               *)
LEMMA StepRefines == ASSUME Plain, SubmitTakesThree, [Next]_vars PROVE [B!Next]_(B!vars)
<1> DEFINE phase == [p \in Proc |-> Phase(p)]
<1>t. TypeOK
  BY Zenon DEF Plain
<1>1. CASE UNCHANGED vars
  <2>1. \A p \in Proc : Phase(p)' = Phase(p)
    BY <1>1, Zenon DEF vars, track, Phase
  <2> QED BY <1>1, <1>t, <2>1, PhasesFrame, Zenon DEF vars, request, device
<1>2. ASSUME NEW p \in Proc, NEW k \in Kind, NEW b \in Block, NEW v \in Data, Call(p, k, b, v)
      PROVE  B!Next
  <2>4. /\ pc[p] = "idle" /\ pc' = [pc EXCEPT ![p] = "start"] /\ UNCHANGED <<head, status>>
    BY <1>2, Zenon DEF Call, track
  <2>5. Phase(p) = "idle" /\ Phase(p)' = "pending"
    BY <2>4, <1>t, Zenon DEF Phase, TypeOK, CallTypes
  <2>6. \A q \in Proc : q # p => Phase(q)' = Phase(q)
    BY <2>4, <1>t, Zenon DEF Phase, TypeOK, CallTypes
  <2>1. phase' = [phase EXCEPT ![p] = "pending"] /\ phase[p] = "idle"
    BY <2>5, <2>6, PhaseChanges, Zenon
  <2>2. B!Call(p, k, b, v)
    BY <1>2, <2>1, Zenon DEF Call, B!Call, device
  <2>3. k \in {"read", "write"}
    BY ConstAssumption, Zenon
  <2> QED BY <2>2, <2>3, Zenon DEF B!Next
<1>3. ASSUME NEW p \in Proc, AllocFails(p) PROVE UNCHANGED B!vars
  <2>1. \A q \in Proc : Phase(q)' = Phase(q)
    BY <1>3, <1>t, Zenon DEF AllocFails, Allocates, Phase, track, TypeOK, CallTypes
  <2> QED BY <1>3, <1>t, <2>1, PhasesFrame, Zenon DEF AllocFails, request, device
<1>4. ASSUME NEW p \in Proc, Submit(p) PROVE UNCHANGED B!vars
  <2>1. PICK a \in free, b \in free, c \in free : a # b /\ a # c /\ b # c /\ Submits(p, a, b, c)
    BY <1>4, Zenon DEF SubmitTakesThree
  <2>2. pc[p] \in {"start", "wait_desc"}
    BY <1>4, Zenon DEF Submit, Allocates
  <2>3. \A q \in Waiting : head[q] \in Desc \ free
    BY HeadInChain, Zenon DEF Plain
  <2>a. SubmitsChain(p, a, b, c) /\ SubmitsCall(p, a) /\ CallTypes /\ DescTypes
    BY <2>1, <1>t, Zenon DEF Submits, TypeOK
  <2>4. ASSUME NEW q \in Proc PROVE Phase(q)' = Phase(q)
    <3>1. CASE q = p
      <4>1. pc'[p] = "wait" /\ head'[p] = a /\ status'[a] = 255
        BY <2>a DEF SubmitsChain, SubmitsCall, CallTypes, DescTypes
      <4> QED BY <3>1, <4>1, <2>2 DEF Phase
    <3>2. CASE q # p
      <4>1. pc'[q] = pc[q] /\ head'[q] = head[q]
        BY <2>a, <3>2, Zenon DEF SubmitsCall, CallTypes
      <4>2. pc[q] = "wait" => status'[head[q]] = status[head[q]]
        BY <2>3, <2>a DEF SubmitsChain, DescTypes, Waiting
      <4> QED BY <4>1, <4>2, Zenon DEF Phase
    <3> QED BY <3>1, <3>2, Zenon
  <2> QED BY <1>t, <2>a, <2>4, PhasesFrame, Zenon DEF SubmitsCall
<1>5. ASSUME NEW p \in Proc, Finish(p) PROVE B!Next
  <2>1. status[head[p]] = 0 /\ pc[p] = "wait"
    BY <1>5, Zenon DEF Finish, Plain, RequestsTracked, StatusTells, Waiting
  <2>2. /\ pc' = [pc EXCEPT ![p] = "idle"] /\ head' = [head EXCEPT ![p] = None] /\ status' = status
        /\ kind' = [kind EXCEPT ![p] = "none"] /\ UNCHANGED <<disk, blk, buf>>
    BY <1>5, Zenon DEF Finish, track, device
  <2>a. Phase(p) = "served" /\ Phase(p)' = "idle"
    BY <2>1, <2>2, <1>t, Zenon DEF Phase, TypeOK, CallTypes
  <2>b. \A q \in Proc : q # p => Phase(q)' = Phase(q)
    BY <2>2, <1>t, Zenon DEF Phase, TypeOK, CallTypes
  <2>3. phase' = [phase EXCEPT ![p] = "idle"] /\ phase[p] = "served"
    BY <2>a, <2>b, PhaseChanges, Zenon
  <2>4. B!Return(p)
    BY <2>2, <2>3, Zenon DEF B!Return
  <2> QED BY <2>4, Zenon DEF B!Next
<1>6. ASSUME NEW h \in Desc, NEW ok \in BOOLEAN, DeviceServe(h, ok) PROVE [B!Next]_(B!vars)
  BY <1>6, ServeRefines, Zenon
<1>7. ASSUME DeviceTake \/ Isr PROVE UNCHANGED B!vars
  <2>1. UNCHANGED <<kind, blk, buf, disk, pc, head, status>>
    BY <1>7, Zenon DEF DeviceTake, Isr, IsrBegin, IsrEntry, IsrPanics, IsrEnd, track, request, device
  <2>2. \A q \in Proc : Phase(q)' = Phase(q)
    BY <2>1, Zenon DEF Phase
  <2> QED BY <2>1, <2>2, <1>t, PhasesFrame, Zenon
<1> QED BY <1>1, <1>2, <1>3, <1>4, <1>5, <1>6, <1>7, Zenon DEF Next, Running, Halted

-----------------------------------------------------------------------------
(* Counting: the rings are queues, and a request has three descriptors.    *)

(* Multiples of n are at least n apart.                                    *)
LEMMA Multiples ==
  ASSUME NEW n \in Nat \ {0}, NEW a \in Nat, NEW b \in Nat
  PROVE  /\ a < b => n * a + n <= n * b
         /\ n * a \in Nat
OBVIOUS

(* Two numbers with the same remainder are at least n apart.               *)
LEMMA ModUnique ==
  ASSUME NEW n \in Nat \ {0}, NEW a \in Nat, NEW b \in Nat, NEW r \in 0..n-1, NEW s \in 0..n-1,
         n * a + r = n * b + s
  PROVE  r = s
<1>1. n * a \in Nat /\ n * b \in Nat
  BY Multiples, Zenon
<1>2. CASE a < b
  BY <1>1, <1>2, Multiples
<1>3. CASE b < a
  BY <1>1, <1>3, Multiples
<1> QED BY <1>1, <1>2, <1>3

(* n numbers in a row have different remainders.                           *)
LEMMA ModDistinct ==
  ASSUME NEW n \in Nat \ {0}, NEW j \in Nat, NEW k \in Nat, j < k, k < j + n
  PROVE  j % n # k % n
<1> SUFFICES ASSUME j % n = k % n PROVE FALSE
  BY Zenon
<1> DEFINE a == j \div n
           b == k \div n
           r == k % n
<1>1. a \in Nat /\ b \in Nat /\ r \in Nat /\ j = n * a + r /\ k = n * b + r
  <2>1. j = n * (j \div n) + (j % n) /\ j \div n \in Nat
    BY DivMod, Zenon
  <2>2. k = n * (k \div n) + (k % n) /\ k \div n \in Nat
    BY DivMod, Zenon
  <2>3. k % n \in Nat
    BY DivMod
  <2> QED BY <2>1, <2>2, <2>3
<1> HIDE DEF a, b, r
<1>2. n * a \in Nat /\ n * b \in Nat
  BY <1>1, Multiples, Zenon
<1>3. a < b
  BY <1>1, <1>2, Multiples
<1>4. n * a + n <= n * b
  BY <1>1, <1>3, Multiples, Zenon
<1> QED BY <1>1, <1>2, <1>4

(* An index and its wrapped form name the same ring entry.                 *)
LEMMA Wraps ==
  ASSUME NEW j \in Nat
  PROVE  (j + IdxMod) % Num = j % Num
<1>1. Num \in Nat \ {0} /\ IdxMod \in Nat
  BY ConstAssumption
<1>2. PICK k \in 1..IdxMod : IdxMod = k * Num
  BY ConstAssumption, Zenon
<1> DEFINE a == j \div Num
           b == (j + IdxMod) \div Num
           r == j % Num
           s == (j + IdxMod) % Num
<1>3. a \in Nat /\ r \in 0..Num-1 /\ j = Num * a + r
  BY <1>1, DivMod, Zenon
<1>4. b \in Nat /\ s \in 0..Num-1 /\ j + IdxMod = Num * b + s
  <2>1. j + IdxMod \in Nat
    BY <1>1
  <2> QED BY <1>1, <2>1, DivMod, Zenon
<1> HIDE DEF a, b, r, s
<1>5. k \in Nat /\ a + k \in Nat /\ Num * (a + k) = Num * a + k * Num
  BY <1>1, <1>2, <1>3
<1>6. Num * (a + k) + r = Num * b + s
  <2>1. Num * a \in Nat /\ k * Num \in Nat
    BY <1>1, <1>3, <1>5
  <2> QED BY <1>2, <1>3, <1>4, <1>5, <2>1
<1>7. r = s
  BY <1>1, <1>3, <1>4, <1>5, <1>6, ModUnique, Zenon
<1> QED BY <1>7, Zenon DEF r, s

(* The number of entries between two indices, without the modulus.         *)
LEMMA CountIs ==
  ASSUME NEW from \in Index, NEW to \in Index
  PROVE  /\ Count(from, to) = IF from <= to THEN to - from ELSE to - from + IdxMod
         /\ Count(from, to) \in Index
<1>1. IdxMod \in Nat /\ IdxMod > 0
  BY Constants
<1>2. CASE from <= to
  <2>1. to - from \in 0..IdxMod-1
    BY <1>1, <1>2 DEF Index
  <2>2. (to - from) % IdxMod = to - from
    BY <1>1, <2>1
  <2> QED BY <1>1, <1>2, <2>1, <2>2 DEF Count, Index
<1>3. CASE to < from
  <2>1. to - from + IdxMod \in 0..IdxMod-1
    BY <1>1, <1>3 DEF Index
  <2>2. (to - from) % IdxMod = to - from + IdxMod
    BY <1>1, <1>3, <2>1 DEF Index
  <2> QED BY <1>1, <1>3, <2>1, <2>2 DEF Count, Index
<1> QED BY <1>1, <1>2, <1>3 DEF Index

(* The entries after the first, seen from the advanced index.              *)
LEMMA NextSlot ==
  ASSUME NEW from \in Index, NEW i \in Nat
  PROVE  (Advance(from) + i) % Num = (from + (i + 1)) % Num
<1>1. CASE from = IdxMod - 1
  <2>1. from + (i + 1) = i + IdxMod /\ Advance(from) + i = i
    BY <1>1, Constants, AdvanceIs DEF Index
  <2> QED BY <2>1, Wraps, Zenon
<1>2. CASE from # IdxMod - 1
  <2>1. Advance(from) + i = from + (i + 1)
    BY <1>2, Constants, AdvanceIs DEF Index
  <2> QED BY <2>1, Zenon
<1> QED BY <1>1, <1>2, Zenon

(* The slot a new entry goes to follows the last one.                      *)
LEMMA LastSlot ==
  ASSUME NEW from \in Index, NEW to \in Index
  PROVE  to % Num = (from + Count(from, to)) % Num
<1>1. CASE from <= to
  <2>1. from + Count(from, to) = to
    BY <1>1, Constants, CountIs DEF Index
  <2> QED BY <2>1, Zenon
<1>2. CASE to < from
  <2>1. from + Count(from, to) = to + IdxMod /\ to \in Nat
    BY <1>2, Constants, CountIs DEF Index
  <2> QED BY <2>1, Wraps, Zenon
<1> QED BY <1>1, <1>2, Constants DEF Index

(* Reading an entry leaves one less.                                       *)
LEMMA PopCount ==
  ASSUME NEW from \in Index, NEW to \in Index, from # to
  PROVE  Count(from, to) > 0 /\ Count(Advance(from), to) = Count(from, to) - 1
<1>1. Advance(from) \in Index /\ Advance(from) = IF from = IdxMod - 1 THEN 0 ELSE from + 1
  BY AdvanceIs, Zenon
<1>2. Count(from, to) = IF from <= to THEN to - from ELSE to - from + IdxMod
  BY CountIs, Zenon
<1>3. Count(Advance(from), to) = IF Advance(from) <= to THEN to - Advance(from)
                                                        ELSE to - Advance(from) + IdxMod
  BY <1>1, CountIs, Zenon
<1> QED BY <1>1, <1>2, <1>3, Constants DEF Index

(* Writing an entry makes one more, unless the index would wrap around.    *)
LEMMA PushCount ==
  ASSUME NEW from \in Index, NEW to \in Index, Count(from, to) + 1 < IdxMod
  PROVE  Count(from, Advance(to)) = Count(from, to) + 1
<1>1. Advance(to) \in Index /\ Advance(to) = IF to = IdxMod - 1 THEN 0 ELSE to + 1
  BY AdvanceIs, Zenon
<1>2. Count(from, to) = IF from <= to THEN to - from ELSE to - from + IdxMod
  BY CountIs, Zenon
<1>3. Count(from, Advance(to)) = IF from <= Advance(to) THEN Advance(to) - from
                                                        ELSE Advance(to) - from + IdxMod
  BY <1>1, CountIs, Zenon
<1> QED BY <1>1, <1>2, <1>3, Constants DEF Index

(* A ring whose entries leave out three descriptors has room for one more. *)
LEMMA RoomLeft ==
  ASSUME NEW ring \in Ring, NEW from \in Index, NEW to \in Index, NoEntryTwice(ring, from, to),
         NEW a \in Desc, NEW b \in Desc, NEW c \in Desc, a # b, a # c, b # c,
         Entries(ring, from, to) \subseteq Desc \ {a, b, c}
  PROVE  Count(from, to) + 3 <= Num
<1> DEFINE n == Count(from, to)
           D == ((Desc \ {a}) \ {b}) \ {c}
           f == [i \in 0..n-1 |-> Entry(ring, from, i)]
<1>1. n \in Nat
  BY CountIs, Constants DEF Index
<1>2. IsFiniteSet(Desc) /\ Cardinality(Desc) = Num
  BY FS_Interval, Constants DEF Desc
<1>3. IsFiniteSet(D) /\ Cardinality(D) = Num - 3
  <2>1. IsFiniteSet(Desc \ {a}) /\ Cardinality(Desc \ {a}) = Num - 1
    BY <1>2, FS_RemoveElement, Zenon
  <2>2. IsFiniteSet((Desc \ {a}) \ {b}) /\ Cardinality((Desc \ {a}) \ {b}) = Num - 2
    BY <2>1, FS_RemoveElement, Constants
  <2>3. c \in (Desc \ {a}) \ {b}
    BY Zenon
  <2>4. Cardinality(D) = Cardinality((Desc \ {a}) \ {b}) - 1 /\ IsFiniteSet(D)
    BY <2>2, <2>3, FS_RemoveElement
  <2> QED BY <2>2, <2>4, Constants
<1>4. IsFiniteSet(0..n-1) /\ Cardinality(0..n-1) = n
  <2> HIDE DEF n
  <2>1. 0 \in Int /\ n - 1 \in Int /\ (0 > n - 1 => n = 0) /\ n - 1 - 0 + 1 = n
    BY <1>1
  <2> QED BY <2>1, FS_Interval, Zenon
<1>5. f \in Injection(0..n-1, D)
  <2>1. \A i \in 0..n-1 : f[i] \in D
    BY Zenon DEF Entries
  <2>2. \A i, j \in 0..n-1 : f[i] = f[j] => i = j
    BY Zenon DEF NoEntryTwice
  <2> QED BY <2>1, <2>2, Zenon DEF Injection, IsInjective
<1>6. Cardinality(0..n-1) <= Cardinality(D)
  BY <1>3, <1>5, FS_Injection
<1> QED BY <1>1, <1>3, <1>4, <1>6, Constants

(* A head that is pushed is added to the entries and to no slot in use.    *)
(* There is room for it, because every entry stands for three descriptors. *)
LEMMA Pushed ==
  ASSUME NEW ring \in Ring, NEW from \in Index, NEW to \in Index, NoEntryTwice(ring, from, to),
         NEW h \in Desc, LeavesOut(Entries(ring, from, to), h)
  PROVE  IsPushed(Put(ring, to, h), ring, from, to, h)
<1> DEFINE n == Count(from, to)
           r == Put(ring, to, h)
<1>0. r = [ring EXCEPT ![to % Num] = h]
  BY Zenon DEF Put
<1> HIDE DEF r
<1>1. n \in Nat /\ n + 3 <= Num /\ Num \in Nat /\ from \in Nat /\ to \in Nat
  <2>1. PICK b \in Desc, c \in Desc : h # b /\ h # c /\ b # c /\ Entries(ring, from, to) \subseteq Desc \ {h, b, c}
    BY Zenon DEF LeavesOut
  <2>2. n + 3 <= Num
    BY <2>1, RoomLeft, Zenon
  <2> QED BY <2>2, CountIs, Constants DEF Index
<1>2. Count(from, Advance(to)) = n + 1
  BY <1>1, PushCount, Constants
<1>3. \A i \in 0..n-1 : Entry(r, from, i) = Entry(ring, from, i)
  <2> SUFFICES ASSUME NEW i \in 0..n-1 PROVE Entry(r, from, i) = Entry(ring, from, i)
    BY Zenon
  <2>1. (from + i) % Num # (from + n) % Num
    <3> HIDE DEF n
    <3>1. /\ from + i \in Nat /\ from + n \in Nat /\ Num \in Nat \ {0}
          /\ from + i < from + n /\ from + n < (from + i) + Num
      BY <1>1
    <3> QED BY <3>1, ModDistinct, Zenon
  <2>2. to % Num # (from + i) % Num
    BY <2>1, LastSlot, Zenon
  <2>3. (from + i) % Num \in Desc
    <3>1. from + i \in Nat
      BY <1>1
    <3> QED BY <3>1, SlotType, Zenon
  <2> QED BY <1>0, <2>2, <2>3, Zenon DEF Entry, Ring
<1>4. Entry(r, from, n) = h
  <2>1. to % Num \in Desc
    BY <1>1, SlotType, Zenon
  <2> QED BY <1>0, <2>1, LastSlot, Zenon DEF Entry, Ring
<1> HIDE DEF n
<1>5. 0..(n + 1)-1 = (0..n-1) \cup {n}
  BY <1>1
<1>6. Entries(r, from, Advance(to)) = Entries(ring, from, to) \cup {h}
  <2>1. Entries(r, from, Advance(to)) = {Entry(r, from, i) : i \in (0..n-1) \cup {n}}
    BY <1>2, <1>5, Zenon DEF Entries
  <2>2. Entries(ring, from, to) = {Entry(ring, from, i) : i \in 0..n-1}
    BY Zenon DEF Entries, n
  <2> QED BY <2>1, <2>2, <1>3, <1>4, Zenon
<1>7. \A i \in 0..n-1 : Entry(r, from, i) # h
  BY <1>3, Zenon DEF Entries, n, LeavesOut
<1>8. \A i, j \in 0..n-1 : Entry(r, from, i) = Entry(r, from, j) => i = j
  BY <1>3, Zenon DEF NoEntryTwice, n
<1>9. \A i, j \in (0..n-1) \cup {n} : Entry(r, from, i) = Entry(r, from, j) => i = j
  BY <1>4, <1>7, <1>8, Zenon
<1>10. NoEntryTwice(r, from, Advance(to))
  BY <1>2, <1>5, <1>9 DEF NoEntryTwice
<1> QED BY <1>6, <1>10, Zenon DEF IsPushed, r

(* The entry that is popped is the only one that leaves the ring.          *)
LEMMA Popped ==
  ASSUME NEW ring \in Ring, NEW from \in Index, NEW to \in Index, NoEntryTwice(ring, from, to),
         from # to
  PROVE  IsPopped(Put(ring, from, None), ring, from, to)
<1> DEFINE n == Count(from, to)
           h == ring[from % Num]
           r == Put(ring, from, None)
<1>0. r = [ring EXCEPT ![from % Num] = None]
  BY Zenon DEF Put
<1> HIDE DEF r
<1>1. n \in Nat /\ n > 0 /\ from \in Nat
  BY PopCount, CountIs, Constants DEF Index
<1>2. Count(Advance(from), to) = n - 1
  BY PopCount, Zenon
<1>3. Entry(ring, from, 0) = h
  BY <1>1 DEF Entry
<1>4. \A i \in 0..n-1 : i # 0 => (from + i) % Num # from % Num
  <2> SUFFICES ASSUME NEW i \in 0..n-1, (from + i) % Num = from % Num PROVE i = 0
    BY Zenon
  <2>1. Entry(ring, from, i) = Entry(ring, from, 0)
    BY <1>3, Zenon DEF Entry
  <2>2. 0 \in 0..n-1
    BY <1>1
  <2> QED BY <2>1, <2>2, Zenon DEF NoEntryTwice
<1>5. \A i \in 0..n-2 : Entry(r, Advance(from), i) = Entry(ring, from, i + 1)
  <2> SUFFICES ASSUME NEW i \in 0..n-2 PROVE Entry(r, Advance(from), i) = Entry(ring, from, i + 1)
    BY Zenon
  <2>1. i \in Nat /\ i + 1 \in 0..n-1 /\ i + 1 # 0 /\ from + (i + 1) \in Nat
    BY <1>1
  <2>2. (Advance(from) + i) % Num = (from + (i + 1)) % Num
    BY <2>1, NextSlot, Zenon
  <2>3. (from + (i + 1)) % Num # from % Num
    BY <2>1, <1>4, Zenon
  <2>4. (from + (i + 1)) % Num \in Desc
    BY <2>1, SlotType, Zenon
  <2> QED BY <1>0, <2>2, <2>3, <2>4, Zenon DEF Entry, Ring
<1>6. Entries(ring, from, to) = {Entry(ring, from, i) : i \in 0..n-1}
  BY Zenon DEF Entries
<1>7. Entries(r, Advance(from), to) = {Entry(r, Advance(from), i) : i \in 0..n-2}
  <2>1. n - 1 - 1 = n - 2
    BY <1>1
  <2> QED BY <1>2, <2>1, Zenon DEF Entries
<1>8. \A i, j \in 0..n-1 : Entry(ring, from, i) = Entry(ring, from, j) => i = j
  BY Zenon DEF NoEntryTwice
<1> HIDE DEF n, h
<1>9. h \in Entries(ring, from, to)
  <2>1. 0 \in 0..n-1
    BY <1>1
  <2> QED BY <2>1, <1>3, <1>6, Zenon
<1>10. Entries(r, Advance(from), to) \subseteq Entries(ring, from, to) \ {h}
  <2> SUFFICES ASSUME NEW i \in 0..n-2
               PROVE  Entry(r, Advance(from), i) \in Entries(ring, from, to) \ {h}
    BY <1>7, Zenon
  <2>1. i + 1 \in 0..n-1 /\ i + 1 # 0 /\ 0 \in 0..n-1
    BY <1>1
  <2> QED BY <2>1, <1>3, <1>5, <1>6, <1>8
<1>11. Entries(ring, from, to) \ {h} \subseteq Entries(r, Advance(from), to)
  <2> SUFFICES ASSUME NEW j \in 0..n-1, Entry(ring, from, j) # h
               PROVE  Entry(ring, from, j) \in Entries(r, Advance(from), to)
    BY <1>6, Zenon
  <2>1. j # 0
    BY <1>3, Zenon
  <2>2. j - 1 \in 0..n-2 /\ j - 1 + 1 = j
    BY <1>1, <2>1
  <2>3. Entry(r, Advance(from), j - 1) = Entry(ring, from, j)
    BY <2>2, <1>5, Zenon
  <2> QED BY <2>2, <2>3, <1>7, Zenon
<1>12. NoEntryTwice(r, Advance(from), to)
  <2> SUFFICES ASSUME NEW i \in 0..n-2, NEW j \in 0..n-2,
                      Entry(r, Advance(from), i) = Entry(r, Advance(from), j)
               PROVE  i = j
    <3>1. Count(Advance(from), to) - 1 = n - 2
      BY <1>1, <1>2
    <3> QED BY <3>1, Zenon DEF NoEntryTwice
  <2>1. i + 1 \in 0..n-1 /\ j + 1 \in 0..n-1
    BY <1>1
  <2>2. i + 1 = j + 1
    BY <2>1, <1>5, <1>8, Zenon
  <2> QED BY <2>2
<1>13. Entries(r, Advance(from), to) = Entries(ring, from, to) \ {h}
  BY <1>10, <1>11, Zenon
<1> QED BY <1>9, <1>12, <1>13, Zenon DEF IsPopped, h, r

(* The rings work as the step lemmas assume.                               *)
LEMMA RingsQueue == RingsPush /\ RingsPop
BY Pushed, Popped, Zenon DEF RingsPush, RingsPop

-----------------------------------------------------------------------------
(* Descriptors.                                                            *)

(* alloc_desc returns a descriptor that is free.                           *)
LEMMA LowestIs ==
  ASSUME NEW S, S \subseteq Desc, S # {}
  PROVE  Lowest(S) \in S
<1> DEFINE Below == {ss \in Nat \X Nat : ss[1] < ss[2]}
<1>1. IsWellFoundedOn(Below, Nat)
  BY NatLessThanWellFounded, Zenon DEF OpToRel
<1>2. S \subseteq Nat
  BY Constants DEF Desc
<1>3. PICK x \in S : \A y \in S : ~ (<<y, x>> \in Below)
  <2> HIDE DEF Below
  <2> QED BY <1>1, <1>2, WFMin, Zenon
<1>4. ASSUME NEW y \in S PROVE x <= y
  <2>1. x \in Nat /\ y \in Nat
    BY <1>2, Zenon
  <2>2. ~ (<<y, x>> \in Below)
    BY <1>3, Zenon
  <2>3. y < x => <<y, x>> \in Below
    BY <2>1, Zenon
  <2> QED BY <2>1, <2>2, <2>3
<1> QED BY <1>4, Zenon DEF Lowest

(* alloc3_desc finds three different free descriptors.                     *)
LEMMA ThreeFree ==
  ASSUME NEW S, S \subseteq Desc, Cardinality(S) >= 3,
         NEW a, a = Lowest(S), NEW b, b = Lowest(S \ {a}), NEW c, c = Lowest(S \ {a, b})
  PROVE  {a, b, c} \subseteq S /\ a # b /\ a # c /\ b # c
<1>1. IsFiniteSet(S)
  <2>1. IsFiniteSet(Desc)
    BY FS_Interval, Constants DEF Desc
  <2> QED BY <2>1, FS_Subset, Zenon
<1>2. Cardinality(S) \in Nat
  BY <1>1, FS_CardinalityType, Zenon
<1>3. S # {}
  BY <1>2, FS_EmptySet
<1>4. a \in S
  BY <1>3, LowestIs, Zenon
<1>5. IsFiniteSet(S \ {a}) /\ Cardinality(S \ {a}) = Cardinality(S) - 1
  BY <1>1, <1>4, FS_RemoveElement, Zenon
<1>6. S \ {a} # {}
  BY <1>2, <1>5, FS_EmptySet
<1>7. b \in S \ {a}
  BY <1>6, LowestIs, Zenon
<1>8. Cardinality((S \ {a}) \ {b}) = Cardinality(S) - 2
  <2>1. Cardinality((S \ {a}) \ {b}) = Cardinality(S \ {a}) - 1
    BY <1>5, <1>7, FS_RemoveElement, Zenon
  <2> QED BY <1>2, <1>5, <2>1
<1>9. (S \ {a}) \ {b} = S \ {a, b}
  BY Zenon
<1>10. S \ {a, b} # {}
  <2>1. Cardinality(S \ {a, b}) = Cardinality(S) - 2
    BY <1>8, <1>9, Zenon
  <2>2. Cardinality({}) = 0
    BY FS_EmptySet, Zenon
  <2>3. S \ {a, b} = {} => Cardinality(S \ {a, b}) = Cardinality({})
    BY Zenon
  <2> QED BY <1>2, <2>1, <2>2, <2>3
<1>11. c \in S \ {a, b}
  BY <1>10, LowestIs, Zenon
<1> QED BY <1>4, <1>7, <1>11, Zenon

(* send_request takes three different free descriptors.                    *)
LEMMA SubmitIs ==
  ASSUME Plain, NEW p \in Proc, Submit(p)
  PROVE  \E a, b, c \in free : a # b /\ a # c /\ b # c /\ Submits(p, a, b, c)
<1> DEFINE a == Lowest(free)
           b == Lowest(free \ {a})
           c == Lowest(free \ {a, b})
<1>1. {a, b, c} \subseteq free /\ a # b /\ a # c /\ b # c
  <2>1. free \subseteq Desc /\ Cardinality(free) >= 3
    BY Zenon DEF Plain, TypeOK, DescTypes, Submit
  <2> HIDE DEF a, b, c
  <2>2. a = Lowest(free) /\ b = Lowest(free \ {a}) /\ c = Lowest(free \ {a, b})
    BY Zenon DEF a, b, c
  <2> QED BY <2>1, <2>2, ThreeFree
<1>2. Submits(p, a, b, c)
  BY Zenon DEF Submit, Submits, SubmitsChain, SubmitsRing, SubmitsCall, Put, request, device
<1> QED BY <1>1, <1>2, Zenon

(* And what they assume of alloc3_desc.                                    *)
LEMMA AllocatesThree == ASSUME Plain PROVE SubmitTakesThree
BY SubmitIs, Zenon DEF SubmitTakesThree

(* A descriptor is free or in the chain of one waiting request.            *)
LEMMA Accounted ==
  ASSUME TypeOK, Chains
  PROVE  DescriptorsAccounted <=> Apart /\ Covered
<1>1. \A p \in Waiting : Chain(head[p]) = Members(p)
  BY ChainIs, Zenon DEF Chains, Waiting
<1>2. \A p \in Waiting : Cardinality(Members(p)) = 3
  <2> SUFFICES ASSUME NEW p \in Waiting PROVE Cardinality(Members(p)) = 3
    BY Zenon
  <2> DEFINE a == head[p]
             b == link[head[p]]
             c == Third(head[p])
  <2>1. a # b /\ a # c /\ b # c
    BY Zenon DEF Chains, ChainLeads, IsChain
  <2> HIDE DEF a, b, c
  <2>2. IsFiniteSet({a}) /\ Cardinality({a}) = 1
    BY FS_Singleton, Zenon
  <2>3. IsFiniteSet({a} \cup {b}) /\ Cardinality({a} \cup {b}) = 2
    BY <2>1, <2>2, FS_AddElement
  <2>4. Cardinality(({a} \cup {b}) \cup {c}) = 3
    BY <2>1, <2>3, FS_AddElement
  <2>5. ({a} \cup {b}) \cup {c} = Members(p)
    BY Zenon DEF Members, a, b, c
  <2> QED BY <2>4, <2>5, Zenon
<1>3. \A p \in Waiting : Members(p) \cap free = {} /\ Members(p) \subseteq Desc
  BY DEF Chains, ChainLeads, IsChain, Members
<1>4. free \subseteq Desc
  BY Zenon DEF TypeOK, DescTypes
<1> QED BY <1>1, <1>2, <1>3, <1>4 DEF DescriptorsAccounted, Apart, Covered

(* VirtioInv without cardinalities, as the step lemmas use it.             *)
LEMMA PlainIs == VirtioInv <=> Plain
<1>1. TypeOK /\ Chains => (DescriptorsAccounted <=> Apart /\ Covered)
  BY Accounted, Zenon
<1>2. Chains => (DeviceTouchesWaiters <=> InFlight)
  <2> SUFFICES ASSUME Chains PROVE DeviceTouchesWaiters <=> InFlight
    BY Zenon
  <2>1. ASSUME NEW p \in Waiting
        PROVE  /\ addr[head[p]] = <<"op", kind[p], blk[p]>>
               /\ addr[link[head[p]]] = <<"buf", p>>
               /\ addr[link[link[head[p]]]] = <<"status", head[p]>>
    BY Zenon DEF Chains, ChainLeads, IsChain, Third
  <2>2. ASSUME NEW h
        PROVE  (\E p \in Waiting : head[p] = h) <=>
               (\E p \in Waiting : /\ head[p] = h
                                   /\ addr[h] = <<"op", kind[p], blk[p]>>
                                   /\ addr[link[h]] = <<"buf", p>>
                                   /\ addr[link[link[h]]] = <<"status", h>>)
    BY <2>1, Zenon
  <2> QED BY <2>2, Zenon DEF DeviceTouchesWaiters, InFlight
<1> QED BY <1>1, <1>2, Zenon DEF VirtioInv, Plain, Chains

(* The driver after init.                                                  *)
LEMMA InitInv == Init => Plain
<1> SUFFICES ASSUME Init PROVE Plain
  BY Zenon
<1> USE ConstAssumption DEF Init
<1>1. Waiting = {}
  BY Zenon DEF Waiting
<1>2. 0 \in Index
  BY Constants DEF Index
<1>3. Count(0, 0) = 0
  BY <1>2, CountIs
<1>4. Published = {} /\ Reported = {}
  BY <1>3 DEF Published, Reported, Entries
<1>5. NoEntryTwice(avail, devIdx, availIdx) /\ NoEntryTwice(used, seen, usedIdx)
  BY <1>3 DEF NoEntryTwice
<1>6. TypeOK
  <2>1. {irq, isr, halted} \subseteq BOOLEAN
    BY Zenon
  <2>2. {availIdx, devIdx, usedIdx, seen} \subseteq 0..IdxMod-1
    BY <1>2, Zenon DEF Index
  <2>3. (CHOOSE b \in Block : TRUE) \in Block
    BY Zenon
  <2> QED BY <2>1, <2>2, <2>3, Zenon DEF TypeOK, CallTypes, DescTypes, RingTypes, Addr
<1> QED BY <1>1, <1>4, <1>5, <1>6, Zenon DEF Plain, Chains, Apart, Covered, InFlight, RequestsTracked, RingsHoldOnce,
      CallsHaveKind, StatusTells

(* Every step of a caller, the interrupt handler or the device keeps it.   *)
LEMMA PlainStep == Plain /\ [Next]_vars => Plain'
<1> SUFFICES ASSUME Plain, [Next]_vars PROVE Plain'
  BY Zenon
<1>r. RingsPush /\ RingsPop /\ SubmitTakesThree
  BY RingsQueue, AllocatesThree, Zenon
<1>1. CASE UNCHANGED vars
  <2>1. UNCHANGED <<free, addr, link, head, kind, blk, pc, taken, inProgress, status, avail, devIdx, availIdx,
                    used, seen, usedIdx>>
    BY <1>1, Zenon DEF vars, queue, request, availRing, device, track
  <2>2. Waiting' = Waiting /\ \A p \in Proc : pc'[p] # "idle" => kind'[p] # "none"
    BY <2>1, Zenon DEF Waiting, Plain, RequestsTracked, CallsHaveKind
  <2>3. TypeOK'
    BY <1>1, Zenon DEF vars, queue, request, availRing, device, track, Plain, TypeOK, CallTypes, DescTypes, RingTypes
  <2> QED BY <2>1, <2>2, <2>3, ChainsFrame, RingsFrame DEF Plain
<1>2. CASE Running
  BY <1>2, <1>r, CallStep, AllocFailsStep, SubmitStep, FinishStep, IsrQuietStep, IsrEntryStep, DeviceTakeStep,
     DeviceServeStep DEF Running, Isr
<1> QED BY <1>1, <1>2 DEF Next, Halted

(* Descriptors, rings and requests of the disk driver hold together in     *)
(* every reachable state: no descriptor is lost or used twice, a ring      *)
(* holds no request twice, and the device only touches memory of callers   *)
(* that wait.                                                              *)
THEOREM VirtioInvariant == Spec => []VirtioInv
<1>1. Init => VirtioInv
  BY InitInv, PlainIs, Zenon
<1>2. VirtioInv /\ [Next]_vars => VirtioInv'
  <2>1. VirtioInv => Plain
    BY PlainIs, Zenon
  <2>2. Plain' => VirtioInv'
    BY PlainIs, PTL
  <2> QED BY <2>1, <2>2, PlainStep, Zenon
<1> QED BY <1>1, <1>2, PTL DEF Spec

(* The driver with its device implements a disk that serves one request    *)
(* at a time, however requests and interrupts interleave.                  *)
THEOREM VirtioImplementsBlockDevice == Spec => ImplementsBlockDevice
<1>1. VirtioInv /\ [Next]_vars => [B!Next]_(B!vars)
  BY PlainIs, AllocatesThree, StepRefines, Zenon
<1> QED BY InitRefines, <1>1, VirtioInvariant, PTL DEF Spec, ImplementsBlockDevice, B!Spec
=============================================================================
