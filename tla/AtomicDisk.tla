----------------------------- MODULE AtomicDisk -----------------------------
(***************************************************************************)
(* What the logging layer promises the file system (the contract described *)
(* at the top of fs/log.rs): transactions update an in-memory image of the *)
(* disk, the image becomes durable in one step and only while no           *)
(* transaction is open, and a crash falls back to the last durable image.  *)
(***************************************************************************)
CONSTANTS Tx,      \* identities of the transactions that may be open
          Block,   \* home blocks, the ones the file system addresses
          Data     \* contents of a block

VARIABLES durable, \* the image a reboot would find
          memory,  \* the image transactions read and update
          open     \* the transactions between their begin and their end

vars == <<durable, memory, open>>

TypeOK ==
  /\ durable \in [Block -> Data]
  /\ memory \in [Block -> Data]
  /\ open \subseteq Tx

Init ==
  /\ durable \in [Block -> Data]
  /\ memory = durable
  /\ open = {}

Begin(t) ==
  /\ t \notin open
  /\ open' = open \cup {t}
  /\ UNCHANGED <<durable, memory>>

Update(t, b, v) ==
  /\ t \in open
  /\ memory' = [memory EXCEPT ![b] = v]
  /\ UNCHANGED <<durable, open>>

End(t) ==
  /\ t \in open
  /\ open' = open \ {t}
  /\ UNCHANGED <<durable, memory>>

Commit ==
  /\ open = {}
  /\ durable' = memory
  /\ UNCHANGED <<memory, open>>

Crash ==
  /\ memory' = durable
  /\ open' = {}
  /\ UNCHANGED durable

Next ==
  \/ \E t \in Tx : Begin(t) \/ End(t) \/ \E b \in Block, v \in Data : Update(t, b, v)
  \/ Commit
  \/ Crash

Spec == Init /\ [][Next]_vars
=============================================================================
