---------------------------- MODULE BlockDevice ----------------------------
(***************************************************************************)
(* What the block cache expects of the disk driver: a read or write of a   *)
(* block takes effect at one moment between the call and its return.       *)
(***************************************************************************)
CONSTANTS Proc, Block, Data, InitData

VARIABLES
  disk,   \* contents of the blocks
  phase,  \* of each process's call: "idle", "pending" or "served"
  kind,   \* "read" or "write"; "none" between calls
  blk,    \* the block called for
  buf     \* the caller's buffer

vars == <<disk, phase, kind, blk, buf>>

Init ==
  /\ disk = [b \in Block |-> InitData]
  /\ phase = [p \in Proc |-> "idle"]
  /\ kind = [p \in Proc |-> "none"]
  /\ blk \in [Proc -> Block]
  /\ buf \in [Proc -> Data]

Call(p, k, b, v) ==
  /\ phase[p] = "idle"
  /\ phase' = [phase EXCEPT ![p] = "pending"]
  /\ kind' = [kind EXCEPT ![p] = k]
  /\ blk' = [blk EXCEPT ![p] = b]
  /\ buf' = [buf EXCEPT ![p] = v]
  /\ UNCHANGED disk

Serve(p) ==
  /\ phase[p] = "pending"
  /\ phase' = [phase EXCEPT ![p] = "served"]
  /\ \/ kind[p] = "read" /\ buf' = [buf EXCEPT ![p] = disk[blk[p]]] /\ UNCHANGED disk
     \/ kind[p] = "write" /\ disk' = [disk EXCEPT ![blk[p]] = buf[p]] /\ UNCHANGED buf
  /\ UNCHANGED <<kind, blk>>

Return(p) ==
  /\ phase[p] = "served"
  /\ phase' = [phase EXCEPT ![p] = "idle"]
  /\ kind' = [kind EXCEPT ![p] = "none"]
  /\ UNCHANGED <<disk, blk, buf>>

Next ==
  \E p \in Proc :
    \/ \E k \in {"read", "write"}, b \in Block, v \in Data : Call(p, k, b, v)
    \/ Serve(p) \/ Return(p)

Spec == Init /\ [][Next]_vars
=============================================================================
