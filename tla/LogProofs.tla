----------------------------- MODULE LogProofs -----------------------------
(***************************************************************************)
(* Theorems about Log, for any number of processes, blocks and crashes and *)
(* any MAX_OP_BLOCKS and LOG_SIZE that ConstAssumption admits.             *)
(*                                                                         *)
(* LogInv is inductive.  Its conjuncts are proved one lemma each, with one *)
(* step per action: in LogStepProofs those that do not count, here the     *)
(* exclusion of commit, the bound of a transaction and the log space.      *)
(***************************************************************************)
EXTENDS LogStepProofs, FiniteSetTheorems

USE ConstAssumption DEF HeaderSlot, BodySlot, Header, Headers, PC, Phase

(* Finitely many transactions are open.                                    *)
LEMMA ActiveFinite ==
  /\ IsFiniteSet(ActiveSet)
  /\ Cardinality(ActiveSet) \in Nat
<1>1. ActiveSet \in SUBSET Proc
  BY DEF ActiveSet
<1> QED
  BY <1>1, FS_Subset, FS_CardinalityType

(* outstanding counts the open transactions, so it is 1 for one alone.     *)
LEMMA LastAlone == CommitExcludesOps => LastIsAlone
<1> SUFFICES ASSUME CommitExcludesOps, NEW p \in Proc, Active(p), outstanding = 1 PROVE ActiveSet = {p}
  BY DEF LastIsAlone
<1>1. IsFiniteSet(ActiveSet) /\ Cardinality(ActiveSet) = 1
  BY ActiveFinite DEF CommitExcludesOps, ActiveSet
<1>2. p \in ActiveSet
  BY DEF ActiveSet
<1> QED BY <1>1, <1>2, FS_Singleton

(* A step that keeps outstanding, the open transactions and the owner of   *)
(* the header keeps CommitExcludesOps.                                     *)
LEMMA ExclKept ==
  ASSUME CommitExcludesOps, ActiveSet' = ActiveSet, outstanding' = outstanding,
         phase' # "open" => phase # "open"
  PROVE  CommitExcludesOps'
BY DEF CommitExcludesOps, ActiveSet

(* outstanding counts the open transactions, and commit runs alone:        *)
(* begin_op, end_op and the steps of commit keep it so.                    *)
LEMMA ExclStep == ASSUME TypeOK, CommitExcludesOps, Next PROVE CommitExcludesOps'
<1> USE DEF TypeOK
<1>f. IsFiniteSet(ActiveSet) /\ outstanding = Cardinality(ActiveSet)
  BY ActiveFinite DEF CommitExcludesOps, ActiveSet
<1>1. ASSUME NEW b \in Home, ReadOnlyRead(b) \/ Evict(b) PROVE CommitExcludesOps'
  BY <1>1, ExclKept DEF ActiveSet, Active, ReadOnlyRead, Evict, logVars
<1>2. ASSUME NEW p \in Proc, Begin(p) PROVE CommitExcludesOps'
  <2>1. ActiveSet' = ActiveSet \cup {p} /\ p \notin ActiveSet
    BY <1>2 DEF Begin, ActiveSet, Active
  <2>2. outstanding' = Cardinality(ActiveSet')
    BY <1>2, <1>f, <2>1, FS_AddElement, Zenon DEF Begin
  <2> QED
    BY <1>2, <2>2 DEF Begin, CanBegin, CommitExcludesOps, ActiveSet
<1>3. ASSUME NEW p \in Proc, BeginWait(p) \/ ForceBeginWait(p) \/ KillWaiter(p) PROVE CommitExcludesOps'
  <2>1. ActiveSet' = ActiveSet
    BY <1>3 DEF ActiveSet, Active, BeginWait, ForceBeginWait, KillWaiter
  <2> QED
    BY <1>3, <2>1, ExclKept DEF BeginWait, ForceBeginWait, KillWaiter, logVars
<1>4. ASSUME NEW p \in Proc, EndOp(p) PROVE CommitExcludesOps'
  <2> DEFINE f == [pc EXCEPT ![p] = "idle"]
  <2>0. f \in [Proc -> PC] /\ pc' = Notified(f)
    BY <1>4 DEF EndOp
  <2>1. ActiveSet' = ActiveSet \ {p} /\ p \in ActiveSet
    <3>1. \A q \in Proc : pc'[q] = "active" <=> f[q] = "active"
      BY <2>0, NotifiedActive, Zenon
    <3> QED
      BY <3>1, <1>4, Zenon DEF EndOp, ActiveSet, Active
  <2>2. outstanding' = Cardinality(ActiveSet')
    BY <1>4, <1>f, <2>1, FS_RemoveElement, Zenon DEF EndOp
  <2> QED
    BY <1>4, <2>2 DEF EndOp, Active, CommitExcludesOps, ActiveSet
<1>5. ASSUME NEW p \in Proc, EndOpCommit(p) PROVE CommitExcludesOps'
  <2>1. ActiveSet' = ActiveSet \ {p} /\ p \in ActiveSet
    BY <1>5 DEF EndOpCommit, ActiveSet, Active
  <2>2. Cardinality(ActiveSet') = 0 /\ IsFiniteSet(ActiveSet')
    BY <1>5, <1>f, <2>1, FS_RemoveElement DEF EndOpCommit
  <2>3. ActiveSet' = {}
    BY <2>2, FS_EmptySet
  <2> QED
    BY <1>5, <2>2, <2>3 DEF EndOpCommit, CommitExcludesOps, ActiveSet
<1>6. ASSUME NEW p \in Proc, NEW b \in Home, LockBlock(p, b) \/ ReleaseBlock(p, b) \/ ReleasePanic(p, b)
      PROVE CommitExcludesOps'
  BY <1>6, ExclKept DEF ActiveSet, Active, LockBlock, ReleaseBlock, ReleasePanic, logVars
<1>7. ASSUME NEW p \in Proc, NEW b \in Home, NEW v \in Data, UpdateBlock(p, b, v) PROVE CommitExcludesOps'
  BY <1>7, ExclKept DEF ActiveSet, Active, UpdateBlock, logVars
<1>8. CASE WriteLogBody \/ WriteLogHead \/ Install \/ EraseLogHead
  BY <1>8, ExclKept DEF ActiveSet, Active, WriteLogBody, WriteLogHead, Install, EraseLogHead
<1>9. CASE FinishCommit
  <2> DEFINE f == [q \in Proc |-> IF pc[q] = "commit" THEN "idle" ELSE pc[q]]
  <2>2. f \in [Proc -> PC] /\ pc' = Notified(f)
    BY <1>9 DEF FinishCommit
  <2>3. \A q \in Proc : pc'[q] = "active" <=> f[q] = "active"
    BY <2>2, NotifiedActive
  <2>1. ActiveSet' = ActiveSet
    BY <2>3 DEF ActiveSet, Active
  <2> QED
    BY <1>9, <2>1, ExclKept DEF FinishCommit
<1>10. CASE BootStep
  BY <1>10, ExclKept DEF ActiveSet, Active, BootStep, ReadLogHead, ReadLogHeadPanic, logVars
<1>11. CASE Crash
  <2>1. ActiveSet' = {}
    BY <1>11 DEF Crash, ActiveSet, Active
  <2> QED
    BY <1>11, <2>1, FS_EmptySet, Zenon DEF Crash, CommitExcludesOps, ActiveSet
<1>12. CASE Halted
  BY <1>12, ExclKept DEF ActiveSet, Active, Halted, vars, logVars
<1> QED
  BY <1>1, <1>2, <1>3, <1>4, <1>5, <1>6, <1>7, <1>8, <1>9, <1>10, <1>11, <1>12
  DEF Next, Running, OpStep, CacheStep, CommitStep

(* A transaction modifies at most MAX_OP_BLOCKS blocks.                    *)
LEMMA OpBoundStep == ASSUME TypeOK, OpBound, Next PROVE OpBound'
<1> USE DEF TypeOK, OpBound
<1>1. CASE wrote' = wrote
  BY <1>1
<1>2. ASSUME NEW p \in Proc, Begin(p) PROVE OpBound'
  <2>1. \A q \in Proc : wrote'[q] = IF q = p THEN {} ELSE wrote[q]
    BY <1>2 DEF Begin
  <2> QED
    BY <2>1, FS_EmptySet
<1>3. ASSUME NEW p \in Proc, NEW b \in Home, NEW v \in Data, UpdateBlock(p, b, v) PROVE OpBound'
  <2>1. IsFiniteSet(wrote[p] \cup {b})
    BY FS_AddElement, Zenon
  <2> QED
    BY <1>3, <2>1 DEF UpdateBlock
<1>4. CASE Crash
  <2>1. \A q \in Proc : wrote'[q] = {}
    BY <1>4 DEF Crash
  <2>2. IsFiniteSet({}) /\ Cardinality({}) = 0 /\ 0 <= MaxOp
    BY FS_EmptySet
  <2> QED
    BY <2>1, <2>2, Zenon
<1>5. CASE BootStep \/ CommitStep \/ CacheStep \/ Halted
  BY <1>5, <1>1 DEF BootStep, CommitStep, CacheStep, ReadOnlyRead, Evict, WriteLogBody, WriteLogHead,
     Install, EraseLogHead, FinishCommit, ReadLogHead, ReadLogHeadPanic, Halted, vars, opVars
<1>6. ASSUME NEW p \in Proc, OpStep(p), ~ Begin(p), \A b \in Home, v \in Data : ~ UpdateBlock(p, b, v)
      PROVE OpBound'
  BY <1>6, <1>1 DEF OpStep, BeginWait, ForceBeginWait, KillWaiter, EndOp, EndOpCommit,
     LockBlock, ReleaseBlock, ReleasePanic, opVars
<1> QED
  BY <1>2, <1>3, <1>4, <1>5, <1>6 DEF Next, Running

(* The blocks of the transaction of p that are in the header.              *)
Logged(p) == Cardinality(wrote[p] \cap Entries(header))

(* The open transactions have at most MAX_OP_BLOCKS tokens each.           *)
TokensBounded ==
  /\ IsFiniteSet(Tokens)
  /\ Cardinality(Tokens) \in Nat
  /\ Cardinality(Tokens) <= Cardinality(ActiveSet) * MaxOp

(* It holds in every state.                                                *)
LEMMA TokensFinite == TokensBounded
<1>1. IsFiniteSet(1..MaxOp) /\ Cardinality(1..MaxOp) = MaxOp
  BY FS_Interval
<1>2. /\ IsFiniteSet(ActiveSet \X (1..MaxOp))
      /\ Cardinality(ActiveSet \X (1..MaxOp)) = Cardinality(ActiveSet) * MaxOp
  BY <1>1, ActiveFinite, FS_Product, Zenon
<1>3. Tokens \in SUBSET (ActiveSet \X (1..MaxOp))
  BY DEF Tokens, ActiveSet
<1> QED
  BY <1>2, <1>3, FS_Subset, FS_CardinalityType DEF TokensBounded

(* A step that neither logs a block nor hands out a token keeps the        *)
(* accounting.                                                             *)
LEMMA TokensShrink ==
  ASSUME SpaceIsReserved, TypeOK, phase' = "open" => phase = "open",
         Len(header') <= Len(header), header' \in Seq(Home), Tokens' \subseteq Tokens
  PROVE  SpaceIsReserved'
<1>1. IsFiniteSet(Tokens) /\ Cardinality(Tokens) \in Nat
  BY TokensFinite DEF TokensBounded
<1>2. Cardinality(Tokens') <= Cardinality(Tokens) /\ Cardinality(Tokens') \in Nat
  BY <1>1, FS_Subset, FS_CardinalityType
<1> QED
  BY <1>1, <1>2 DEF SpaceIsReserved, TypeOK

(* Writing or logging more blocks never gives a transaction tokens back.   *)
LEMMA LoggedGrows ==
  ASSUME NEW p \in Proc, IsFiniteSet(wrote'[p]), wrote[p] \subseteq wrote'[p],
         Entries(header) \subseteq Entries(header')
  PROVE  Logged(p) <= Logged(p)' /\ Logged(p) \in Nat /\ Logged(p)' \in Nat
<1>1. wrote[p] \cap Entries(header) \in SUBSET (wrote'[p] \cap Entries(header'))
  OBVIOUS
<1>2. IsFiniteSet(wrote'[p] \cap Entries(header'))
  BY FS_Intersection, Zenon
<1> QED
  BY <1>1, <1>2, FS_Subset, FS_CardinalityType DEF Logged

(* Membership in Tokens, spelled out.                                      *)
LEMMA TokensMember ==
  \A p, k : <<p, k>> \in Tokens <=> p \in ActiveSet /\ k \in 1..MaxOp /\ k > Logged(p)
BY DEF Tokens, ActiveSet, Logged

(* A step that does not touch header and wrote keeps the accounting.       *)
LEMMA TokensKept ==
  ASSUME TypeOK, OpBound', header' = header, wrote' = wrote, ActiveSet' \subseteq ActiveSet,
         phase' = "open" => phase = "open", SpaceIsReserved
  PROVE  SpaceIsReserved'
<1>1. Tokens' \subseteq Tokens
  BY DEF Tokens, ActiveSet
<1> QED
  BY <1>1, TokensShrink DEF TypeOK

(* The log-space accounting of begin_op is inductive: begin_op hands out   *)
(* tokens only for free entries, and logging a new block spends one.       *)
LEMMA SpaceStep ==
  ASSUME TypeOK, TypeOK', CommitExcludesOps, LockDiscipline, HeaderPhases, OpBound, OpBound',
         SpaceIsReserved, Next
  PROVE  SpaceIsReserved'
<1>1. CASE phase' # "open"
  BY <1>1 DEF SpaceIsReserved
<1>2. ASSUME NEW b \in Home, ReadOnlyRead(b) \/ Evict(b) PROVE SpaceIsReserved'
  BY <1>2, TokensKept DEF ReadOnlyRead, Evict, logVars, opVars, ActiveSet, Active
<1>3. ASSUME NEW p \in Proc, Begin(p) PROVE SpaceIsReserved'
  <2>1. ActiveSet' = ActiveSet \cup {p} /\ p \notin ActiveSet
    BY <1>3 DEF Begin, ActiveSet, Active, TypeOK
  <2>2. Cardinality(ActiveSet') = outstanding + 1
    BY <2>1, ActiveFinite, FS_AddElement, Zenon DEF CommitExcludesOps, ActiveSet
  <2>3. Cardinality(Tokens') \in Nat /\ Cardinality(Tokens') <= Cardinality(ActiveSet') * MaxOp
    <3>1. TokensBounded'
      BY TokensFinite, PTL
    <3> QED
      BY <3>1 DEF TokensBounded
  <2>4. header' = header /\ Len(header) + (outstanding + 1) * MaxOp <= LogSize
    BY <1>3 DEF Begin, CanBegin, HasSpace
  <2> QED
    BY <2>2, <2>3, <2>4 DEF SpaceIsReserved, TypeOK
<1>4. ASSUME NEW p \in Proc, BeginWait(p) \/ ForceBeginWait(p) \/ KillWaiter(p) PROVE SpaceIsReserved'
  <2>1. ActiveSet' \subseteq ActiveSet
    BY <1>4 DEF BeginWait, ForceBeginWait, KillWaiter, ActiveSet, Active, TypeOK
  <2> QED
    BY <1>4, <2>1, TokensKept DEF BeginWait, ForceBeginWait, KillWaiter, logVars, opVars
<1>5. ASSUME NEW p \in Proc, EndOp(p) PROVE SpaceIsReserved'
  <2> DEFINE f == [pc EXCEPT ![p] = "idle"]
  <2>1. f \in [Proc -> PC] /\ pc' = Notified(f)
    BY <1>5 DEF EndOp, TypeOK
  <2>2. \A q \in Proc : pc'[q] = "active" <=> f[q] = "active"
    BY <2>1, NotifiedActive, Zenon
  <2>3. ActiveSet' \subseteq ActiveSet
    BY <2>2 DEF ActiveSet, Active, TypeOK
  <2> QED
    BY <1>5, <2>3, TokensKept DEF EndOp, opVars
<1>6. ASSUME NEW p \in Proc, EndOpCommit(p) PROVE SpaceIsReserved'
  BY <1>6, <1>1 DEF EndOpCommit
<1>7. ASSUME NEW p \in Proc, NEW b \in Home, LockBlock(p, b) \/ ReleasePanic(p, b) PROVE SpaceIsReserved'
  BY <1>7, TokensKept DEF LockBlock, ReleasePanic, logVars, opVars, ActiveSet, Active
<1>8. ASSUME NEW p \in Proc, NEW b \in Home, NEW v \in Data, UpdateBlock(p, b, v) PROVE SpaceIsReserved'
  <2>1. header' = header /\ ActiveSet' = ActiveSet /\ phase' = phase
    BY <1>8 DEF UpdateBlock, logVars, ActiveSet, Active
  <2>2. \A q \in Proc : wrote[q] \subseteq wrote'[q] /\ IsFiniteSet(wrote'[q])
    BY <1>8, Zenon DEF UpdateBlock, TypeOK, OpBound
  <2>3. \A q \in Proc : Logged(q) <= Logged(q)' /\ Logged(q) \in Nat /\ Logged(q)' \in Nat
    BY <2>1, <2>2, LoggedGrows
  <2>4. Tokens' \subseteq Tokens
    <3> SUFFICES ASSUME NEW q \in ActiveSet, NEW k \in 1..MaxOp, k > Logged(q)'
                 PROVE  k > Logged(q)
      BY <2>1 DEF Tokens, ActiveSet, Logged
    <3> QED
      BY <2>3 DEF ActiveSet
  <2> QED
    BY <2>1, <2>4, TokensShrink DEF TypeOK
<1>9. ASSUME NEW p \in Proc, NEW b \in Home, ReleaseBlock(p, b) PROVE SpaceIsReserved'
  <2>1. ActiveSet' = ActiveSet /\ wrote' = wrote /\ phase' = phase /\ p \in ActiveSet /\ phase = "open"
    BY <1>9 DEF ReleaseBlock, ActiveSet, Active, CommitExcludesOps
  <2>2. CASE b \notin dirty \ Entries(header)
    BY <1>9, <2>1, <2>2, TokensKept DEF ReleaseBlock
  <2>3. CASE b \in dirty \ Entries(header)
    <3>1. /\ header' = Append(header, b)
          /\ Len(header') = Len(header) + 1
          /\ Entries(header') = Entries(header) \cup {b}
      BY <1>9, <2>3, EntriesAppend DEF ReleaseBlock, TypeOK
    <3>2. \A q \in Proc : Logged(q) <= Logged(q)' /\ Logged(q) \in Nat /\ Logged(q)' \in Nat
      BY <2>1, <3>1, LoggedGrows DEF OpBound
    <3>3. b \in wrote[p]
      BY <1>9, <2>3 DEF ReleaseBlock, LockDiscipline
    <3>4. Logged(p)' = Logged(p) + 1
      <4>1. wrote'[p] \cap Entries(header') = (wrote[p] \cap Entries(header)) \cup {b}
        BY <2>1, <3>1, <3>3
      <4>2. IsFiniteSet(wrote[p] \cap Entries(header))
        BY FS_Intersection, Zenon DEF OpBound
      <4> QED
        BY <4>1, <4>2, <2>3, FS_AddElement, Zenon DEF Logged
    <3>5. Logged(p)' <= MaxOp
      <4>1. Cardinality(wrote'[p] \cap Entries(header')) <= Cardinality(wrote'[p])
        BY FS_Intersection, Zenon DEF OpBound
      <4>2. Cardinality(wrote'[p]) \in Nat /\ Cardinality(wrote'[p]) <= MaxOp
        BY FS_CardinalityType DEF OpBound
      <4>3. Logged(p)' <= Cardinality(wrote'[p])
        BY <4>1 DEF Logged
      <4> QED
        BY <4>2, <4>3, <3>2
    <3> DEFINE t == <<p, Logged(p) + 1>>
    <3>6. t \in Tokens
      BY <2>1, <3>2, <3>4, <3>5, TokensMember
    <3>7. Tokens' \subseteq Tokens \ {t}
      <4>1. Tokens' \subseteq Tokens
        <5> SUFFICES ASSUME NEW q \in ActiveSet, NEW k \in 1..MaxOp, k > Logged(q)'
                     PROVE  k > Logged(q)
          BY <2>1 DEF Tokens, ActiveSet, Logged
        <5> QED
          BY <3>2 DEF ActiveSet
      <4>2. t \notin Tokens'
        <5>1. t \in Tokens' => t[2] > Logged(t[1])'
          BY Zenon DEF Tokens, Logged
        <5>2. t[1] = p /\ t[2] = Logged(p) + 1
          OBVIOUS
        <5>3. ASSUME t \in Tokens' PROVE Logged(p) + 1 > Logged(p)'
          BY <5>1, <5>2, <5>3
        <5> QED
          BY <5>3, <3>2, <3>4
      <4> QED
        BY <4>1, <4>2
    <3>8. Cardinality(Tokens \ {t}) = Cardinality(Tokens) - 1 /\ IsFiniteSet(Tokens \ {t})
      BY <3>6, TokensFinite, FS_RemoveElement DEF TokensBounded
    <3>9. Cardinality(Tokens') <= Cardinality(Tokens) - 1 /\ Cardinality(Tokens') \in Nat
      BY <3>7, <3>8, FS_Subset, FS_CardinalityType
    <3> QED
      BY <2>1, <3>1, <3>9, TokensFinite DEF SpaceIsReserved, TypeOK, TokensBounded
  <2> QED
    BY <2>2, <2>3
<1>10. CASE WriteLogBody \/ WriteLogHead \/ Install \/ EraseLogHead \/ BootStep \/ Crash
  <2>1. phase' # "open"
    BY <1>10, Zenon DEF WriteLogBody, WriteLogHead, Install, EraseLogHead, BootStep, ReadLogHead,
       ReadLogHeadPanic, Crash, logVars
  <2> QED
    BY <2>1, <1>1
<1>11. CASE FinishCommit
  <2>1. \A q \in Proc : ~ Active(q)
    BY <1>11 DEF FinishCommit, CommitExcludesOps
  <2> DEFINE f == [q \in Proc |-> IF pc[q] = "commit" THEN "idle" ELSE pc[q]]
  <2>2. f \in [Proc -> PC] /\ pc' = Notified(f)
    BY <1>11, Zenon DEF FinishCommit, TypeOK
  <2>3. \A q \in Proc : pc'[q] = "active" <=> f[q] = "active"
    BY <2>2, NotifiedActive
  <2>4. \A q \in Proc : ~ Active(q)'
    BY <2>1, <2>3 DEF Active
  <2>5. Tokens' = {}
    BY <2>4 DEF Tokens
  <2>6. header' = <<>>
    BY <1>11 DEF FinishCommit, HeaderPhases
  <2> QED
    BY <2>5, <2>6, FS_EmptySet DEF SpaceIsReserved
<1>12. CASE Halted
  BY <1>12, TokensKept DEF Halted, vars, logVars, opVars, ActiveSet, Active
<1> QED
  BY <1>2, <1>3, <1>4, <1>5, <1>6, <1>7, <1>8, <1>9, <1>10, <1>11, <1>12
  DEF Next, Running, OpStep, CacheStep, CommitStep

(* LogInv holds in the state Log::new starts from.                         *)
LEMMA InitInv == Init => LogInv /\ CleanMatchesDisk /\ InstallIsLogged
<1> SUFFICES ASSUME Init PROVE LogInv /\ CleanMatchesDisk /\ InstallIsLogged
  OBVIOUS
<1>1. TypeOK
  <2>1. disk \in [Home -> Data] /\ logArea \in [0..MaxLogLen-1 -> Data \cup Headers]
    BY DEF Init
  <2>2. /\ cache \in [Home -> Data \cup {NoData}]
        /\ dirty \subseteq Home
        /\ header \in Seq(Home)
        /\ phase \in Phase
        /\ idx \in Nat
        /\ outstanding \in Nat
    BY DEF Init
  <2>3. /\ pc \in [Proc -> PC]
        /\ held \in [Proc -> SUBSET Home]
        /\ wrote \in [Proc -> SUBSET Home]
    BY DEF Init
  <2>4. halted \in BOOLEAN
    BY Zenon DEF Init
  <2>5. crashes \in 0..MaxCrash
    <3>1. crashes = 0
      BY DEF Init
    <3> QED
      BY <3>1
  <2> QED
    BY <2>1, <2>2, <2>3, <2>4, <2>5 DEF TypeOK
<1>2. CommitExcludesOps
  <2>1. {p \in Proc : Active(p)} = {}
    BY DEF Init, Active
  <2> QED
    BY <2>1, FS_EmptySet DEF Init, CommitExcludesOps
<1>3. LockDiscipline /\ HeaderPhases /\ SpaceIsReserved
  BY DEF Init, LockDiscipline, HeaderPhases, SpaceIsReserved
<1>4. OpBound
  <2>1. \A p \in Proc : wrote[p] = {}
    BY DEF Init
  <2>2. IsFiniteSet({}) /\ Cardinality({}) = 0 /\ 0 <= MaxOp
    BY FS_EmptySet
  <2> QED
    BY <2>1, <2>2 DEF OpBound
<1>5. CleanMatchesDisk /\ InstallIsLogged
  BY DEF Init, CleanMatchesDisk, InstallIsLogged
<1> QED
  BY <1>1, <1>2, <1>3, <1>4, <1>5 DEF LogInv

(* The inductive invariant of the log: begin_op's reservation, the         *)
(* exclusion of commit and open transactions, and the pinning of dirty     *)
(* buffers hold together in every reachable state.                         *)
THEOREM LogInvariant == Spec => []LogInv
<1>1. Init => LogInv
  BY InitInv
<1>2. ASSUME LogInv, [Next]_vars PROVE LogInv'
  <2>1. CASE Next
    <3>1. TypeOK' /\ CommitExcludesOps' /\ LockDiscipline' /\ HeaderPhases' /\ OpBound'
      BY <1>2, <2>1, TypeStep, ExclStep, LockStep, PhasesStep, OpBoundStep DEF LogInv
    <3>2. SpaceIsReserved'
      BY <1>2, <2>1, <3>1, SpaceStep DEF LogInv
    <3> QED
      BY <3>1, <3>2 DEF LogInv
  <2>2. CASE UNCHANGED vars
    BY <1>2, <2>2, Zenon DEF LogInv, TypeOK, CommitExcludesOps, LockDiscipline, HeaderPhases, OpBound,
       SpaceIsReserved, Tokens, Active, vars, diskVars, cacheVars, logVars, opVars, haltVars
  <2> QED
    BY <1>2, <2>1, <2>2
<1> QED
  BY <1>1, <1>2, PTL DEF Spec

(* Log::write never finds the log full for a block that is new to it: what *)
(* begin_op reserved suffices, for any number of concurrent transactions.  *)
THEOREM LogNeverOverflows == Spec => []ReservationSuffices
<1>1. ASSUME LogInv PROVE ReservationSuffices
  <2> SUFFICES ASSUME NEW p \in Proc, NEW b \in held[p] \cap dirty, b \notin Entries(header)
               PROVE  ~ PushPanics
    BY DEF ReservationSuffices
  <2>1. p \in ActiveSet /\ phase = "open" /\ b \in wrote[p]
    BY <1>1 DEF LogInv, LockDiscipline, CommitExcludesOps, ActiveSet
  <2>2. IsFiniteSet(wrote[p]) /\ Cardinality(wrote[p]) <= MaxOp /\ Cardinality(wrote[p]) \in Nat
    BY <1>1, FS_CardinalityType DEF LogInv, OpBound
  <2>3. Logged(p) < MaxOp /\ Logged(p) \in Nat
    <3>1. wrote[p] \cap Entries(header) \in SUBSET wrote[p] /\ wrote[p] \cap Entries(header) # wrote[p]
      BY <2>1
    <3>2. Logged(p) <= Cardinality(wrote[p]) /\ Logged(p) # Cardinality(wrote[p])
      BY <2>2, <3>1, FS_Subset DEF Logged
    <3>3. Logged(p) \in Nat
      BY <2>2, FS_Intersection, FS_CardinalityType, Zenon DEF Logged
    <3> QED
      BY <2>2, <3>2, <3>3
  <2>4. <<p, Logged(p) + 1>> \in Tokens
    BY <2>1, <2>3, TokensMember
  <2>5. Cardinality(Tokens) # 0 /\ Cardinality(Tokens) \in Nat
    BY <2>4, TokensFinite, FS_EmptySet DEF TokensBounded
  <2> QED
    BY <1>1, <2>1, <2>5 DEF LogInv, TypeOK, SpaceIsReserved, PushPanics
<1> QED
  BY <1>1, LogInvariant, PTL

(* A dirty buffer is locked or pinned, so that Lru::get recycles none.     *)
THEOREM DirtyStaysPinned == Spec => []DirtyIsPinned
<1>1. LogInv => DirtyIsPinned
  BY DEF LogInv, LockDiscipline, DirtyIsPinned, Locked
<1> QED
  BY <1>1, LogInvariant, PTL

(* Reads served by a clean buffer agree with the disk, and a home block is *)
(* written only while the header on disk names it and no transaction is    *)
(* open, crashes and recoveries included.                                  *)
THEOREM CacheAgreesWithDisk == Spec => []CleanMatchesDisk
<1>1. Init => CleanMatchesDisk
  BY InitInv
<1>2. ASSUME LogInv, CleanMatchesDisk, [Next]_vars PROVE CleanMatchesDisk'
  <2>1. CASE Next
    BY <1>2, <2>1, CleanStep DEF LogInv
  <2>2. CASE UNCHANGED vars
    BY <1>2, <2>2 DEF CleanMatchesDisk, vars, diskVars, cacheVars
  <2> QED
    BY <1>2, <2>1, <2>2
<1> QED
  BY <1>1, <1>2, LogInvariant, PTL DEF Spec

(* While a commit installs, the header on disk names what is left.         *)
THEOREM InstallStaysLogged == Spec => []InstallIsLogged
<1>1. Init => InstallIsLogged
  BY InitInv
<1>2. ASSUME LogInv, InstallIsLogged, [Next]_vars PROVE InstallIsLogged'
  <2>1. CASE Next
    BY <1>2, <2>1, InstallStep DEF LogInv
  <2>2. CASE UNCHANGED vars
    BY <1>2, <2>2 DEF InstallIsLogged, vars, diskVars, cacheVars, logVars
  <2> QED
    BY <1>2, <2>1, <2>2
<1> QED
  BY <1>1, <1>2, LogInvariant, PTL DEF Spec

(* What the log promises the file system at every moment: room for the     *)
(* writes begin_op admitted, pinned dirty buffers, clean buffers equal to  *)
(* the disk, and a header that names what is still to be installed.        *)
THEOREM LogIsSafe == Spec => []LogSafe
BY LogNeverOverflows, DirtyStaysPinned, InstallStaysLogged, CacheAgreesWithDisk, PTL DEF LogSafe

(* The write-ahead rule of install_transaction.                            *)
THEOREM WritesAhead == Spec => WriteAhead
<1> DEFINE Rule == \A b \in Home : disk'[b] # disk[b] =>
                     /\ logArea[HeaderSlot] \notin Data
                     /\ b \in Entries(logArea[HeaderSlot].blocks)
                     /\ outstanding = 0
<1>1. ASSUME LogInv, CleanMatchesDisk, InstallIsLogged, [Next]_vars PROVE [Rule]_vars
  <2> SUFFICES ASSUME Next, NEW b \in Home, disk'[b] # disk[b]
               PROVE  /\ logArea[HeaderSlot] \notin Data
                      /\ b \in Entries(logArea[HeaderSlot].blocks)
                      /\ outstanding = 0
    BY <1>1
  <2>1. Install
    BY OnlyInstallWrites
  <2>2. b \in dirty /\ b \in Entries(header)
    BY <1>1, <2>1, InstallWrites DEF LogInv
  <2>3. outstanding = 0
    <3>1. {p \in Proc : Active(p)} = {}
      BY <1>1, <2>1 DEF LogInv, CommitExcludesOps, Install
    <3> QED
      BY <1>1, <3>1, FS_EmptySet DEF LogInv, CommitExcludesOps
  <2> QED
    BY <1>1, <2>1, <2>2, <2>3 DEF InstallIsLogged, Install
<1> QED
  BY <1>1, LogInvariant, CacheAgreesWithDisk, InstallStaysLogged, PTL DEF Spec, WriteAhead

(* As long as the machine does not crash, the log implements AtomicDisk:   *)
(* transactions become durable in one step, and only when none is open.    *)
THEOREM LogImplementsAtomicDisk == ASSUME MaxCrash = 0 PROVE Spec => ImplementsAtomicDisk
<1>1. Init => A!Init
  <2> SUFFICES ASSUME Init PROVE A!Init
    OBVIOUS
  <2>1. Memory = disk /\ Durable = disk /\ disk \in [Home -> Data]
    BY DEF Init, Memory, Durable
  <2>2. {p \in Proc : Active(p)} = {}
    BY DEF Init, Active
  <2> QED
    BY <2>1, <2>2 DEF A!Init
<1>2. ASSUME LogInv, CleanMatchesDisk, [Next]_vars PROVE [A!Next]_(A!vars)
  <2>1. CASE Next
    BY <1>2, <2>1, RefinementStep, LastAlone DEF LogInv
  <2>2. CASE UNCHANGED vars
    BY <2>2 DEF A!vars, Memory, Durable, Active, vars, diskVars, cacheVars, logVars
  <2> QED
    BY <1>2, <2>1, <2>2
<1> QED
  BY <1>1, <1>2, LogInvariant, CacheAgreesWithDisk, PTL DEF Spec, ImplementsAtomicDisk, A!Spec
=============================================================================
